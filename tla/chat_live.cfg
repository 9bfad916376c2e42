SPECIFICATION FairSpec
CONSTANTS
  Messages = {m1}
  NoLease = NoLease
  Continuations = {c1, c2}
  Stops = {s1}
  Retractable = {m1}
  Free = Free
  Background = Background
CHECK_DEADLOCK FALSE
PROPERTIES
 ImplementsFairTurnSlot
