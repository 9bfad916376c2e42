SPECIFICATION Spec
CONSTANTS
    a = a
    b = b
    c = c
    Items = {a, b, c}
    MailItems <- ShortMails
    FileItems <- NoFile
    Ambient = {}
    Capacity = 2
    PollLimit = 2
    FileLimit = 2
    BatchSize = 2
    MaxFaults = 1
    MaxExpiries = 0
    Browsers = 0
INVARIANT MailIsKept
CHECK_DEADLOCK FALSE
