------------------------------- MODULE MC_IPC -------------------------------
(* Instances of IPC for TLC: which client calls what, with which policy.   *)
EXTENDS IPC

CONSTANTS c1, c2, c3, b1, p1, p2, p3, pt

\* A file left behind by an earlier run: empty, a cookie followed by bytes
\* that are no address, or the address of a server that is gone.
LeftOver == {Empty, Garbage(OldCookie), Record(OldCookie, p1)}
\* No rendezvous file yet.
NoFile   == {Empty}

\* Three clients, one per policy, retrying with the default (Robust) policy.
MixedClients == {c1, c2, c3}
MixedRole    == [c \in MixedClients |-> "connect"]
MixedPolicy  == [c \in MixedClients |->
                    CASE c = c1 -> "External" [] c = c2 -> "Robust" [] OTHER -> "Internal"]

\* Two clients, External and Robust, for the progress properties.
PairClients  == {c1, c2}
PairRole     == [c \in PairClients |-> "connect"]
PairPolicy   == [c \in PairClients |-> IF c = c1 THEN "External" ELSE "Robust"]

\* A daemon calling bootstrap() beside two Robust clients.
BootClients  == {b1, c1, c2}
BootRole     == [c \in BootClients |-> IF c = b1 THEN "bootstrap" ELSE "connect"]
BootPolicy   == [c \in BootClients |-> "Robust"]

\* Two clients asking for External servers in a process whose context
\* policy is Internal.
ExtClients   == {c1, c2}
ExtRole      == [c \in ExtClients |-> "connect"]
ExtPolicy    == [c \in ExtClients |-> "External"]
=============================================================================
