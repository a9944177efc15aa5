CONSTANTS
    c1 = c1
    c2 = c2
    c3 = c3
    NoClient = NoClient
    Clients <- MCClients3
    MapOrder <- MCMapOrder3
    Info <- InfoThree
    ReqParamsSet <- MCReqParams
    Costs = {0}
    AllowLimitBreak = TRUE
    FilterBackwards = {FALSE}
    IdleAge = 1
    EraseAge = 1
    CheckTime = 1
    MaxTime = 3
    MaxAdds = 3
    MaxQueue = 2

SPECIFICATION HSpec
INVARIANT HTypeOK
PROPERTY HeapOrderPreserved
