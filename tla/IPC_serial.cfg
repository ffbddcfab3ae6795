\* Two clients share a registered server and nothing forces a caller to
\* drop its session.
CONSTANTS
    c1 = c1  c2 = c2  c3 = c3  b1 = b1
    p1 = p1  p2 = p2  p3 = p3  pt = pt
    OldCookie = OldCookie
    NoOne = NoOne
    Clients <- PairClients
    Role <- PairRole
    Policy <- PairPolicy
    CtxPolicy = "Robust"
    InitFiles <- NoFile
    Ports = {p1, p2}
    PortReuse = FALSE
    MaxCrashes = 0
    MaxWriteFailures = 0
    MaxClientCrashes = 0
    MaxSilentPeers = 0
    TornPorts = {}
SPECIFICATION SpecCallerHolds
PROPERTY SessionEventuallyServed
\* Finished calls leave servers blocked in accept(): the system may stop.
CHECK_DEADLOCK FALSE
