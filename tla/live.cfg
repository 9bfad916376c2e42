SPECIFICATION LiveSpec
CONSTANTS
    a = a
    b = b
    c = c
    r1 = r1
    r2 = r2
    None = None
    Items = {a, b, c}
    MailItems <- OneMail
    FileItems <- OneFile
    Ambient = {}
    Capacity = 2
    PollLimit = 2
    FileLimit = 1
    BatchSize = 1
    MaxFaults = 1
    MaxExpiries = 0
    Browsers = 1
PROPERTY PooledGetReviewed
 
CHECK_DEADLOCK FALSE
