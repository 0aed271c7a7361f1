CONSTANTS
    Mac <- Macs
    MAC_ADDR_ANY = "any"
    IP <- IPs
    Family <- FamilyOf
    Unassigned <- NoAddress
    Autoconf = {"169.254.1.1"}
    Adapter <- Adapters
    None = "none"
    Addresses <- AddressesOf
    Gateways <- GatewaysOf
    IfMac <- IfMacOf
    Host <- Hosts
    Link <- LinkOf
    HostMac <- HostMacOf
    HostIP <- HostIPOf
    MaxFrames = 1
    Interface <- Adapters
    HasAddresses <- AddressesAt
    HwAddr <- HwAddrs
    Linked <- LinkedTo
    Destination = {"default", "net"}
    Default = "default"
    MaxRoutes = 3
    MaxNeighbours = 3
SPECIFICATION CaptureSpec
CHECK_DEADLOCK FALSE
INVARIANTS
    TypeOK NothingOfFarHosts NeighboursAreLocal FoundIsOfInterface
    SubnetIsPrefix TextIsCanonical DescriptionFits
    DecodesWhatWasSent CutSaysNoMore DecodesOptions
