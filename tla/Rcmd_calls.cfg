\* One call after another, to a host with two addresses.
SPECIFICATION FairSpec
CONSTANTS
    IPPORT_RESERVED = 8
    PortSpace = 16
    Contended <- Upper
    NAddrs = 2
    Sockets = {k1, k2, k3}
    None = None
INVARIANTS NothingLeftOpen AnnouncedPortListens PausesAreBounded
PROPERTIES Returns
