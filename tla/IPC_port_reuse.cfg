\* A server dies and the kernel hands its port to the next server started
\* while the old server's client is still connecting.
CONSTANTS
    c1 = c1  c2 = c2  c3 = c3  b1 = b1
    p1 = p1  p2 = p2  p3 = p3  pt = pt
    OldCookie = OldCookie
    NoOne = NoOne
    Clients <- PairClients
    Role <- PairRole
    Policy <- PairPolicy
    CtxPolicy = "Robust"
    InitFiles <- NoFile
    Ports = {p1, p2}
    PortReuse = TRUE
    MaxCrashes = 1
    MaxWriteFailures = 0
    MaxClientCrashes = 0
    MaxSilentPeers = 0
    TornPorts = {}
SPECIFICATION Spec
INVARIANT InitFromStarter
\* Finished calls leave servers blocked in accept(): the system may stop.
CHECK_DEADLOCK FALSE
