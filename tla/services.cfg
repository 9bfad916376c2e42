SPECIFICATION ServicesSpec
CONSTANTS
    fetch = fetch
    background = background
    command = command
    form = form
    host = host
    nokey = nokey
    Requests = {fetch, background, command, form}
    Keys = {host}
    NoKey = nokey
    Interactive <- MCInteractive
    KeyOf <- MCKeyOf
    AllowAccept <- MCAllowAccept
    AllowSession <- MCAllowSession
    AllowCancel <- MCAllowCancel
    \* One Topic thread at a time, so that the second Topic evicts the first.
    Topics = {"a", "b"}
    Fresh = {"attacker"}
    Lazy = {"attacker"}
    MaxTopicThreads = 1
    MaxHistory = 1
    MaxThreads = 4
    MaxFaults = 1
    MaxTurns = 2
    MaxEvents = 2
    Resumes = FALSE
    ToolStages = {"interactive", "autonomous", "autonomous_scout", "maintenance", "attacker", "reflection"}
    Revisions = {"r"}
    MaxToolCalls = 1
    Lanes = {"sense", "conversation"}
    SenseLane = "sense"
    Choices = {"luna", "terra", "mini"}
    TooSmall = {"mini"}
    Unset = "none"
    MaxConfigEdits = 2
    MaxCatalogs = 2
    MaxStarts = 2
    \* Two Identities, each with a Runtime.
    Identities = {"i", "j"}
    NoIdentity = "none"
    MaxGeneration = 2
    MaxRequests = 2
    MaxCalls = 1
    MaxEnrollmentFaults = 1
    MaxFlows = 2
    MaxReads = 2
CHECK_DEADLOCK FALSE
 
 
INVARIANT StagesKeepTheirBounds
INVARIANT ConnectionIsAsApproved
INVARIANT AcceptanceIsAuthorised
INVARIANT DeliveredDecisionActedOn
PROPERTY RequestsAreAnswered
PROPERTY InputEndsTurn
PROPERTY ChoicesStay
 
 
