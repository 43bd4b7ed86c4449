\* Two slots, lists and batches of two items; three events, so that a list can
\* be full; three registrations of two tokens, so that a slot is taken again and
\* next_token has wrapped while a registration is alive.
SPECIFICATION Spec
CONSTANTS
  MaxHandlers = 2
  MaxBatch = 2
  Capacity = 2
  MaxToken = 2
  EventBound = 3
  RegBound = 3
INVARIANTS DeliveredOnce
PROPERTIES CalledRightly KeepsServing
