SPECIFICATION Spec
CONSTANTS
    Titles = {"a", "b", "B"}
    Lookalikes = {"b", "B"}
    Exchanges = {"e"}
    Statements = {"s"}
    MaxEpisodes = 3
    MaxHypotheses = 1
    MaxParents = 1
    MaxOpens = 1
INVARIANT NoTopicAboveItself
CHECK_DEADLOCK FALSE
