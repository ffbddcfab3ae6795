\* connect_with_policy under all three policies, a stale or malformed
\* record left over, one server death and one failed rendezvous write.
\* Three ports, never reused: every start finds a fresh one.
CONSTANTS
    c1 = c1  c2 = c2  c3 = c3  b1 = b1
    p1 = p1  p2 = p2  p3 = p3  pt = pt
    OldCookie = OldCookie
    NoOne = NoOne
    Clients <- PairClients
    Role <- PairRole
    Policy <- PairPolicy
    CtxPolicy = "Robust"
    InitFiles <- LeftOver
    Ports = {p1, p2, p3}
    PortReuse = FALSE
    MaxCrashes = 1
    MaxWriteFailures = 1
    MaxClientCrashes = 1
    MaxSilentPeers = 0
    TornPorts = {pt}
SPECIFICATION Spec
PROPERTY ConnectReturns
PROPERTY SessionEventuallyServed
\* Once every call has returned and every session ended, servers block in
\* accept() forever: the system legitimately stops.
CHECK_DEADLOCK FALSE
