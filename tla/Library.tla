------------------------------- MODULE Library ------------------------------
(***************************************************************************)
(* Functions of the target's C library that change their arguments in      *)
(* place, loop by loop (runtime/stdlib/src/runtime.cpp): memmove, strtok,  *)
(* bsearch, and qsort, a heap sort because the target's stack is small.    *)
(*                                                                         *)
(* An array starts at 0. An element of a sorted array has a key, by which  *)
(* the program compares, and whatever else.                                *)
(***************************************************************************)
EXTENDS Integers, Sequences

CONSTANTS Elements,   \* records with a key
          Chars,      \* of strings, which a 0 ends
          MaxCount    \* of an array, at most

ASSUME LibraryAssumption ==
  /\ \A e \in Elements : e.key \in Int
  /\ 0 \notin Chars /\ MaxCount \in Nat

VARIABLES
  function,  \* what was called: "memmove", "qsort", "bsearch" or "strtok"
  count,     \* elements of the array
  array,     \* what it works on
  original,  \* history: the array before
  key, from, to, bytes, \* its arguments
  start, end, root,     \* its loops
  delimiters, busy,     \* strtok's argument, and whether it runs
  next,      \* strtok's pointer between two calls
  tokens,    \* history: what strtok returned, and its delimiters
  answer     \* where bsearch found the key

arguments == <<function, count, original, key, from, to, bytes>>
strtokVars == <<delimiters, busy, next, tokens>>
libraryVars == <<array, arguments, start, end, root, strtokVars, answer>>

NullPointer == -1
Places == 0 .. count - 1
Texts(n) == {a \in [0 .. n - 1 -> Chars \cup {0}] : n > 0 /\ a[n - 1] = 0 /\ \A i \in 0 .. n - 2 : a[i] # 0}
Ordered(a, n) == \A i, j \in 0 .. n - 1 : i < j => a[i].key <= a[j].key

LibraryInit ==
  /\ function \in {"memmove", "qsort", "bsearch", "strtok"}
  /\ count \in 0 .. MaxCount
  /\ \/ function = "memmove" /\ array = [i \in Places |-> i]
     \/ function = "qsort" /\ array \in [Places -> Elements]
     \/ function = "bsearch" /\ array \in {a \in [Places -> Elements] : Ordered(a, count)}
     \/ function = "strtok" /\ array \in Texts(count)
  /\ original = array
  /\ key \in IF function = "bsearch" THEN {e.key : e \in Elements} ELSE {0}
  /\ from \in 0 .. count /\ to \in 0 .. count /\ bytes \in 0 .. count
  /\ IF function = "memmove" THEN from + bytes <= count /\ to + bytes <= count ELSE from + to + bytes = 0
  /\ start = IF function = "qsort" THEN count \div 2 ELSE 0
  /\ end = IF function = "memmove" THEN bytes ELSE count
  /\ root = NullPointer
  /\ delimiters = {} /\ busy = FALSE /\ next = NullPointer /\ tokens = <<>>
  /\ answer = NullPointer

-----------------------------------------------------------------------------
\* Mutant: always from the first byte to the last.
UpwardsAlways == TRUE

Upwards == to < from

\* memmove: start counts up to n, or end down from it.
MoveUp ==
  /\ function = "memmove" /\ start < end /\ Upwards
  /\ array' = [array EXCEPT ![to + start] = array[from + start]]
  /\ start' = start + 1
  /\ UNCHANGED <<arguments, end, root, strtokVars, answer>>

MoveDown ==
  /\ function = "memmove" /\ start < end /\ ~Upwards
  /\ array' = [array EXCEPT ![to + (end - 1)] = array[from + (end - 1)]]
  /\ end' = end - 1
  /\ UNCHANGED <<arguments, start, root, strtokVars, answer>>

-----------------------------------------------------------------------------
\* qsort. While root is a place, the heap of end elements is mended there.
Swap(i, j) == array' = [array EXCEPT ![i] = array[j], ![j] = array[i]]
Left == root * 2 + 1
Child == IF Left + 1 < end /\ array[Left].key < array[Left + 1].key THEN Left + 1 ELSE Left

SiftDown ==
  /\ function = "qsort" /\ root # NullPointer
  /\ root < end \div 2 /\ array[root].key < array[Child].key
  /\ Swap(root, Child)
  /\ root' = Child
  /\ UNCHANGED <<arguments, start, end, strtokVars, answer>>

SiftEnds ==
  /\ function = "qsort" /\ root # NullPointer
  /\ root < end \div 2 => array[root].key >= array[Child].key
  /\ root' = NullPointer
  /\ UNCHANGED <<array, arguments, start, end, strtokVars, answer>>

BuildHeap ==
  /\ function = "qsort" /\ root = NullPointer /\ start > 0
  /\ start' = start - 1 /\ root' = start - 1
  /\ UNCHANGED <<array, arguments, end, strtokVars, answer>>

TakeLargest ==
  /\ function = "qsort" /\ root = NullPointer /\ start = 0 /\ end > 1
  /\ Swap(0, end - 1)
  /\ end' = end - 1 /\ root' = 0
  /\ UNCHANGED <<arguments, start, strtokVars, answer>>

-----------------------------------------------------------------------------
\* bsearch among the end elements from start on.
Half == end \div 2
Item == start + Half

SearchHits ==
  /\ function = "bsearch" /\ end > 0 /\ answer = NullPointer
  /\ array[Item].key = key
  /\ answer' = Item
  /\ UNCHANGED <<array, arguments, start, end, root, strtokVars>>

SearchRight ==
  /\ function = "bsearch" /\ end > 0 /\ answer = NullPointer
  /\ key > array[Item].key
  /\ start' = Item + 1 /\ end' = end - (Half + 1)
  /\ UNCHANGED <<array, arguments, root, strtokVars, answer>>

SearchLeft ==
  /\ function = "bsearch" /\ end > 0 /\ answer = NullPointer
  /\ key < array[Item].key
  /\ end' = Half
  /\ UNCHANGED <<array, arguments, start, root, strtokVars, answer>>

-----------------------------------------------------------------------------
\* strtok, first with the string and then without. While it runs, start is where it
\* began, end where it has come to, root the beginning of its token.
StrTok ==
  /\ function = "strtok" /\ ~busy /\ (tokens = <<>> \/ next # NullPointer)
  /\ delimiters' \in SUBSET Chars
  /\ busy' = TRUE
  /\ start' = IF tokens = <<>> THEN 0 ELSE next
  /\ end' = start' /\ root' = NullPointer
  /\ UNCHANGED <<array, arguments, next, tokens, answer>>

Returns(token) ==
  /\ tokens' = Append(tokens, [from |-> start, first |-> token, delimiters |-> delimiters])
  /\ busy' = FALSE
  /\ UNCHANGED <<delimiters, start, end, root, arguments, answer>>

\* strspn
SkipDelimiter ==
  /\ function = "strtok" /\ busy /\ root = NullPointer
  /\ array[end] \in delimiters
  /\ end' = end + 1
  /\ UNCHANGED <<array, arguments, start, root, strtokVars, answer>>

NoToken ==
  /\ function = "strtok" /\ busy /\ root = NullPointer
  /\ array[end] = 0
  /\ next' = NullPointer
  /\ Returns(NullPointer)
  /\ UNCHANGED array

TokenBegins ==
  /\ function = "strtok" /\ busy /\ root = NullPointer
  /\ array[end] \notin delimiters \cup {0}
  /\ root' = end
  /\ UNCHANGED <<array, arguments, start, end, strtokVars, answer>>

\* strcspn
TokenGoesOn ==
  /\ function = "strtok" /\ busy /\ root # NullPointer
  /\ array[end] \notin delimiters \cup {0}
  /\ end' = end + 1
  /\ UNCHANGED <<array, arguments, start, root, strtokVars, answer>>

TokenCut ==
  /\ function = "strtok" /\ busy /\ root # NullPointer
  /\ array[end] \in delimiters
  /\ array' = [array EXCEPT ![end] = 0]
  /\ next' = end + 1
  /\ Returns(root)

LastToken ==
  /\ function = "strtok" /\ busy /\ root # NullPointer
  /\ array[end] = 0
  /\ next' = NullPointer
  /\ Returns(root)
  /\ UNCHANGED array

Memmove == MoveUp \/ MoveDown
Qsort == SiftDown \/ SiftEnds \/ BuildHeap \/ TakeLargest
Bsearch == SearchHits \/ SearchRight \/ SearchLeft
Strtok == StrTok \/ SkipDelimiter \/ NoToken \/ TokenBegins \/ TokenGoesOn \/ TokenCut \/ LastToken

LibraryNext == Memmove \/ Qsort \/ Bsearch \/ Strtok
LibrarySpec == LibraryInit /\ [][LibraryNext]_libraryVars

-----------------------------------------------------------------------------
\* The destination holds what the source held, overlapping or not.
Moved ==
  function = "memmove" /\ start = end =>
    \A i \in Places : array[i] = IF i \in to .. to + bytes - 1 THEN original[from + (i - to)] ELSE original[i]

\* The elements, in the order of their keys.
Permuted(a, b, n) ==
  \E p \in [0 .. n - 1 -> 0 .. n - 1] :
    /\ \A i, j \in 0 .. n - 1 : p[i] = p[j] => i = j
    /\ \A i \in 0 .. n - 1 : a[i] = b[p[i]]

Sorted ==
  function = "qsort" /\ root = NullPointer /\ start = 0 /\ end <= 1 =>
    Ordered(array, count) /\ Permuted(array, original, count)

\* An element with the key, if there is one.
Found ==
  function = "bsearch" =>
    /\ answer # NullPointer => answer \in Places /\ array[answer].key = key
    /\ answer = NullPointer /\ end = 0 => \A i \in Places : array[i].key # key

\* Every token is a run of other characters of the original string that cannot be
\* made longer and reads as it did; only delimiters are passed over. The set of
\* delimiters may change from call to call.
TokenRight(t) ==
  IF t.first = NullPointer THEN \A k \in t.from .. count - 2 : original[k] \in t.delimiters
  ELSE /\ t.first \in Places
       /\ \A k \in t.from .. t.first - 1 : original[k] \in t.delimiters
       /\ \E stop \in Places :
            /\ stop > t.first /\ array[stop] = 0 /\ original[stop] \in t.delimiters \cup {0}
            /\ \A k \in t.first .. stop - 1 : array[k] = original[k] /\ original[k] \notin t.delimiters \cup {0}

TokensRight == function = "strtok" => \A i \in 1 .. Len(tokens) : TokenRight(tokens[i])

\* When a function is over it has done what the C library promises, also for
\* overlapping blocks, equal keys and delimiters that change (runtime.cpp:144, 206,
\* 233, 243).
LibraryMeans == Moved /\ Sorted /\ Found /\ TokensRight
=============================================================================
