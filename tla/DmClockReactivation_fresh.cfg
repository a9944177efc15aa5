CONSTANTS
    c1 = c1
    c2 = c2
    NoClient = NoClient
    Clients <- MCClients
    Info <- InfoEqual
    ReqParamsSet <- MCReqParams
    Costs = {0}
    AllowLimitBreak = FALSE
    FilterBackwards = {FALSE}
    IdleAge = 4
    EraseAge = 4
    CheckTime = 1
    MaxTime = 3
    MaxAdds = 4
    MaxQueue = 2

SPECIFICATION RSpec
PROPERTY ReactivationNonMonopoly
