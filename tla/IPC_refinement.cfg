\* A daemon's bootstrap() beside two Robust clients, a left-over file, one
\* server death, one failed write, one client process dying mid-call and one
\* silent local peer.  Only two ports, never handed out twice (port reuse is
\* its own run), so a third start finds none free and bind panics.
CONSTANTS
    c1 = c1  c2 = c2  c3 = c3  b1 = b1
    p1 = p1  p2 = p2  p3 = p3  pt = pt
    OldCookie = OldCookie
    NoOne = NoOne
    Clients <- BootClients
    Role <- BootRole
    Policy <- BootPolicy
    CtxPolicy = "Robust"
    InitFiles <- LeftOver
    Ports = {p1, p2}
    PortReuse = FALSE
    MaxCrashes = 1
    MaxWriteFailures = 1
    MaxClientCrashes = 1
    MaxSilentPeers = 1
    TornPorts = {pt}
SPECIFICATION Spec
PROPERTY RendezvousSpec
\* Once every call has returned and every session ended, servers block in
\* accept() forever: the system legitimately stops.
CHECK_DEADLOCK FALSE
