CONSTANTS
    c1 = c1
    c2 = c2
    t1 = t1
    t2 = t2
    NoClient = NoClient
    None = None
    Clients <- MCClients
    Threads <- MCThreads
    Info <- InfoMixed
    ReqParamsSet <- MCReqParams
    Costs = {0}
    AllowLimitBreak = FALSE
    FilterBackwards = {FALSE}
    Capacity = 1
    IdleAge = 2
    EraseAge = 3
    CheckTime = 1
    MaxTime = 4
    MaxAdds = 1
    MaxQueue = 2

SPECIFICATION PLiveSpec
PROPERTY DestructorReturns
