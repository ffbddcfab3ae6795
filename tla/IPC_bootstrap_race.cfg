\* bootstrap() publishes its record and unlocks before it sends the
\* cookie; a client reads the record in between. No crash, no failure.
CONSTANTS
    c1 = c1  c2 = c2  c3 = c3  b1 = b1
    p1 = p1  p2 = p2  p3 = p3  pt = pt
    OldCookie = OldCookie
    NoOne = NoOne
    Clients <- BootClients
    Role <- BootRole
    Policy <- BootPolicy
    CtxPolicy = "Robust"
    InitFiles <- NoFile
    Ports = {p1, p2, p3}
    PortReuse = FALSE
    MaxCrashes = 0
    MaxWriteFailures = 0
    MaxClientCrashes = 0
    MaxSilentPeers = 0
    TornPorts = {}
SPECIFICATION Spec
INVARIANT InitFromStarter
\* Finished calls leave servers blocked in accept(): the system may stop.
CHECK_DEADLOCK FALSE
