\* connect_with_policy(External) meets a stale record in a process whose
\* context policy is Internal.
CONSTANTS
    c1 = c1  c2 = c2  c3 = c3  b1 = b1
    p1 = p1  p2 = p2  p3 = p3  pt = pt
    OldCookie = OldCookie
    NoOne = NoOne
    Clients <- ExtClients
    Role <- ExtRole
    Policy <- ExtPolicy
    CtxPolicy = "Internal"
    InitFiles <- LeftOver
    Ports = {p1, p2, p3}
    PortReuse = FALSE
    MaxCrashes = 0
    MaxWriteFailures = 0
    MaxClientCrashes = 0
    MaxSilentPeers = 0
    TornPorts = {}
SPECIFICATION Spec
INVARIANT PolicyRespected
\* Finished calls leave servers blocked in accept(): the system may stop.
CHECK_DEADLOCK FALSE
