SPECIFICATION Spec
CONSTANTS
  Messages = {m1, m2}
  NoLease = NoLease
  Continuations = {}
  Stops = {}
  Retractable = {}
  Free = Free
  Background = Background
CHECK_DEADLOCK FALSE
INVARIANTS
  ReservedAppendKeepsResponseOpen
