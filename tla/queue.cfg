SPECIFICATION FairSpec
CONSTANTS
    Requests = {r1, r2}
    Question <- MCQuestion
    Manuals = {m1, m2}
    FollowUps = {f1}
    None = None
    MaxActive = 1
    ChannelSize = 1
    DueLimit = 1
    Gates = {"open", "quiet"}
    MaxCalls = 2
    MaxFaults = 1
PROPERTY RunsAreOwned
PROPERTY RunsEnd
PROPERTY DueFollowUpsAreTaken
CHECK_DEADLOCK FALSE
