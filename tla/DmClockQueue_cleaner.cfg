CONSTANTS
    c1 = c1
    c2 = c2
    c3 = c3
    NoClient = NoClient
    Clients <- MCClients
    Info <- InfoMixed
    ReqParamsSet <- MCReqParams
    Costs = {0}
    AllowLimitBreak = FALSE
    FilterBackwards = {FALSE}
    IdleAge = 2
    EraseAge = 2
    CheckTime = 1
    MaxTime = 4
    MaxAdds = 2
    MaxQueue = 2

SPECIFICATION Spec
PROPERTY CleanerRespectsAges
CHECK_DEADLOCK FALSE
