----------------------------- MODULE Rendezvous -----------------------------
(***************************************************************************)
(* What the rendezvous layer promises its callers, with the lock, the     *)
(* file format, the connections and the cookies abstracted away.          *)
(*                                                                         *)
(* Servers are started by calls (a server is named by its starter) and    *)
(* may die.  The registry is the server that discovery hands out: at most *)
(* one, and never replaced while it is up (spec sections 5 and 8,         *)
(* at-most-one-start).  A call returns either with a session to its own   *)
(* server or to the registered one, or without a session, or its process *)
(* dies; every call ends.                                                 *)
(***************************************************************************)
CONSTANTS
    Clients,   \* the calls (and the servers they may start)
    Nobody     \* no server

VARIABLES
    registry,  \* the registered server that is up, or Nobody
    up,        \* servers running
    started,   \* servers ever started
    attached,  \* attached[c]: the server c's session went to, or Nobody
    returned   \* calls that have returned

vars == <<registry, up, started, attached, returned>>

TypeOK ==
    /\ registry \in Clients \cup {Nobody}
    /\ up \subseteq started /\ started \subseteq Clients
    /\ attached \in [Clients -> Clients \cup {Nobody}]
    /\ returned \subseteq Clients

Init ==
    /\ registry = Nobody
    /\ up = {} /\ started = {}
    /\ attached = [c \in Clients |-> Nobody]
    /\ returned = {}

\* Call s starts its server.
Start(s) ==
    /\ s \notin started /\ s \notin returned
    /\ started' = started \cup {s}
    /\ up' = up \cup {s}
    /\ UNCHANGED <<registry, attached, returned>>

\* A running server becomes the one discovery hands out; only when none is.
Register(s) ==
    /\ registry = Nobody /\ s \in up
    /\ registry' = s
    /\ UNCHANGED <<up, started, attached, returned>>

\* A server dies; if it was registered, discovery hands out nothing.
Die(s) ==
    /\ s \in up
    /\ up' = up \ {s}
    /\ registry' = IF registry = s THEN Nobody ELSE registry
    /\ UNCHANGED <<started, attached, returned>>

\* Call c returns with a session to its own server or the registered one.
Attach(c, s) ==
    /\ c \notin returned
    /\ s \in up /\ s \in {c, registry}
    /\ attached' = [attached EXCEPT ![c] = s]
    /\ returned' = returned \cup {c}
    /\ UNCHANGED <<registry, up, started>>

\* Call c returns an error (or panics) without a session.
Fail(c) ==
    /\ c \notin returned
    /\ returned' = returned \cup {c}
    /\ UNCHANGED <<registry, up, started, attached>>

Return(c) == Fail(c) \/ \E s \in Clients : Attach(c, s)

\* The process of call c dies inside the call, taking along the server it
\* started if that one runs in the same process.
Crash(c) ==
    /\ c \notin returned
    /\ returned' = returned \cup {c}
    /\ \/ UNCHANGED <<registry, up>>
       \/ /\ c \in up
          /\ up' = up \ {c}
          /\ registry' = IF registry = c THEN Nobody ELSE registry
    /\ UNCHANGED <<started, attached>>

Next ==
    \E c \in Clients :
        Start(c) \/ Register(c) \/ Die(c) \/ Return(c) \/ Crash(c)

\* Every call eventually returns.
Spec == Init /\ [][Next]_vars /\ \A c \in Clients : WF_vars(Return(c))
=============================================================================
