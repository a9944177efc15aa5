CONSTANTS
    c1 = c1
    c2 = c2
    NoClient = NoClient
    Clients <- MCClients
    Info <- InfoEqual
    ReqParamsSet <- MCReqParams
    Costs = {0}
    AllowLimitBreak = FALSE
    FilterBackwards = {FALSE}
    IdleAge = 2
    EraseAge = 3
    CheckTime = 1
    MaxTime = 4
    MaxAdds = 3
    MaxQueue = 2

SPECIFICATION RSpec
PROPERTY ReactivationNonMonopoly
