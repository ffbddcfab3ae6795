\* Two connect clients (External, Robust) and one local process that
\* connects to a server and never sends its cookie; a left-over file, one
\* server death and one failed write.
CONSTANTS
    c1 = c1  c2 = c2  c3 = c3  b1 = b1
    p1 = p1  p2 = p2  p3 = p3  pt = pt
    OldCookie = OldCookie
    NoOne = NoOne
    Clients <- PairClients
    Role <- PairRole
    Policy <- PairPolicy
    CtxPolicy = "Robust"
    InitFiles <- LeftOver
    Ports = {p1, p2, p3}
    PortReuse = FALSE
    MaxCrashes = 1
    MaxWriteFailures = 1
    MaxClientCrashes = 0
    MaxSilentPeers = 1
    TornPorts = {}
SPECIFICATION Spec
PROPERTY SessionEventuallyServed
\* Once every call has returned and every session ended, servers block in
\* accept() forever: the system legitimately stops.
CHECK_DEADLOCK FALSE
