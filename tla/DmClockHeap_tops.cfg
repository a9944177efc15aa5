CONSTANTS
    c1 = c1
    c2 = c2
    c3 = c3
    NoClient = NoClient
    Clients <- MCClients
    MapOrder <- MCMapOrder
    Info <- InfoWeighted
    ReqParamsSet <- MCReqParams
    Costs = {0}
    AllowLimitBreak = TRUE
    FilterBackwards = {FALSE}
    IdleAge = 2
    EraseAge = 2
    CheckTime = 1
    MaxTime = 4
    MaxAdds = 3
    MaxQueue = 2

SPECIFICATION HSpec
INVARIANT HeapTopsAdmissible
