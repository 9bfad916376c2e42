SPECIFICATION SurfacesSpec
CONSTANTS
    Requests = {r1, r2}
    Promotions = {p1}
    MaxTurns = 4
    None = None
    Leaving = {p1, r2}
    SeedFails = {r2}
    Overlong = {r2}
    Items = {"a", "b"}
    MailItems <- MCMailItems
    FileItems <- MCFileItems
    Ambient = {"b"}
    Capacity = 2
    PollLimit = 1
    FileLimit = 1
    BatchSize = 2
    MaxFaults = 1
    MaxExpiries = 1
    Cards <- MCCards
    Issues = {"k"}
    MaxReferences = 2
    MaxBatch = 1
    MaxTracked = 2
    MaxStream = 3
    MaxWriters = 1
    MaxEpoch = 2
    MaxSignalFaults = 1
    Labels = {"a", "b"}
    MaxTopics = 1
    MaxInputs = 2
    MaxReruns = 2
    Participants = {"p", "q"}
    Scopes = {"main", "topic"}
    MaxSelected = 1
    MaxHumanTurns = 2
    MaxSilentTurns = 2
    MaxFailedTurns = 2
    MaxSaid = 3
    MaxSettings = 2
    Channels = {"c"}
    Providers = {"p", "q"}
    ProviderOf <- MCProviderOf
    Luna = "luna"
    Keychain = {"q"}
    Parallel = {1, 2}
    Forms <- MCForms
    Torn = Torn
    MaxPasses = 2
    MaxEdits = 1
    MaxInputFaults = 1
CHECK_DEADLOCK FALSE
 
 
PROPERTY DiscussionsStayWhole
PROPERTY LabelsStay
PROPERTY ParticipantsAreInvited
