CONSTANTS
    c1 = c1
    c2 = c2
    c3 = c3
    NoClient = NoClient
    Clients <- MCClients
    Info <- InfoResvOnly
    ReqParamsSet <- MCReqParams
    Costs = {0}
    AllowLimitBreak = FALSE
    FilterBackwards = {FALSE}
    IdleAge = 2
    EraseAge = 3
    CheckTime = 1
    MaxTime = 3
    MaxAdds = 2
    MaxQueue = 2

SPECIFICATION Spec
INVARIANT FutureIsAhead
