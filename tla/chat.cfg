SPECIFICATION Spec
CONSTANTS
  Messages = {m1, m2}
  NoLease = NoLease
  Continuations = {c1}
  Stops = {s1}
  Retractable = {}
  Free = Free
  Background = Background
CHECK_DEADLOCK FALSE
INVARIANTS
 BookkeepingIsExact
 OneResponseOwnsSlot
 StoppedTurnNeverReplies
 ReplyCoversBurst
PROPERTIES
 
 ImplementsTurnSlot
