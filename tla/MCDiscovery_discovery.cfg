CONSTANTS
    Streams = {list, stream}
    Collected = {list}
    Addresses = {a1, a2}
CHECK_DEADLOCK FALSE
SPECIFICATION FairSpec
INVARIANTS TypeOK NothingLeftOpen Released
PROPERTIES ImplementsCensus EveryRequestReturns DiscoveryReturns PortComesBack
