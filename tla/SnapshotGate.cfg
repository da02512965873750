\* Five callers on a gate for two readers and a queue of three, so that both limits are met.
CONSTANTS
  Client = {c1, c2, c3, c4, c5}
  MaxQueued = 3
  MaxReaders = 2
SPECIFICATION Spec
INVARIANTS TypeOK Exclusion CountersExact NoLostWakeup
PROPERTIES NoOvertaking NoStarvation
