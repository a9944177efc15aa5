CONSTANTS
    c1 = c1
    c2 = c2
    t1 = t1
    t2 = t2
    NoClient = NoClient
    None = None
    Clients <- MCClients
    Threads <- MCThreads2
    Info <- InfoLimits
    ReqParamsSet <- MCReqParams
    Costs = {0}
    AllowLimitBreak = FALSE
    FilterBackwards = {FALSE}
    Capacity = 1
    IdleAge = 3
    EraseAge = 3
    CheckTime = 2
    MaxTime = 3
    MaxAdds = 2
    MaxQueue = 1

SPECIFICATION PServiceSpec
PROPERTY PushImplementsService
INVARIANT PushTypeOK
INVARIANT NoStrandedRequest
INVARIANT NoLockCycle
