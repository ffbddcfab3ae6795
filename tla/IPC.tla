-------------------------------- MODULE IPC --------------------------------
(***************************************************************************)
(* The rendezvous, launch and authentication protocol of sequoia-ipc      *)
(* (src/ipc/src/lib.rs): clients of one service serialise on the          *)
(* exclusive lock of the rendezvous (cookie) file, reuse the server it    *)
(* records, or start one (external process or in-process thread) on a     *)
(* fresh loopback port, hand it the cookie on a throwaway initialization  *)
(* connection and open their session.  Servers latch the cookie of the    *)
(* first connection they accept and then serve, one session at a time,    *)
(* the connections that present it.                                       *)
(*                                                                         *)
(* A cookie is named by the client that generated it (Cookie::new is only *)
(* called once per client call); OldCookie is one left by an earlier run. *)
(* A server is named by the client that started it.                       *)
(***************************************************************************)
EXTENDS Naturals, Sequences

CONSTANTS
    Clients,           \* callers of connect_with_policy or bootstrap
    Role,              \* Role[c] \in {"connect", "bootstrap"}
    Policy,            \* Policy[c]: the policy argument of connect_with_policy
    CtxPolicy,         \* *self.ctx.ipc_policy(), the policy connect() uses
    InitFiles,         \* what the rendezvous file may hold at the start
    Ports,             \* ports the kernel may assign to 127.0.0.1:0
    PortReuse,         \* may bind hand out a port a dead server held?
    OldCookie,         \* the cookie of a record left by an earlier run
    NoOne,             \* no lock holder, no cookie, no port, no server
    MaxCrashes,        \* bound on server processes/threads that die
    MaxWriteFailures,  \* bound on CookieFile::write and clear calls that fail
    MaxClientCrashes,  \* bound on client processes that die inside a call
    MaxSilentPeers,    \* bound on local peers that connect and send nothing
    TornPorts          \* ports named by a proper prefix of a bound address

Policies == {"Internal", "External", "Robust"}
Cookies  == Clients \cup {OldCookie}

ASSUME /\ Role \in [Clients -> {"connect", "bootstrap"}]
       /\ Policy \in [Clients -> Policies]
       /\ CtxPolicy \in Policies
       /\ PortReuse \in BOOLEAN
       /\ NoOne \notin Cookies \cup Ports
       /\ MaxCrashes \in Nat /\ MaxWriteFailures \in Nat
       /\ MaxClientCrashes \in Nat /\ MaxSilentPeers \in Nat
       \* "127.0.0.1:4" is a prefix of "127.0.0.1:45678"; bind's ephemeral
       \* range holds no port with fewer digits than its own.
       /\ TornPorts \cap (Ports \cup {NoOne}) = {}

(* Rendezvous file contents as CookieFile::read and the address parse see *)
(* them: nothing (shorter than Cookie::SIZE), a cookie followed by bytes   *)
(* that are not a socket address, or a cookie followed by an address.      *)
Empty          == [kind |-> "empty",   cookie |-> NoOne, port |-> NoOne]
Garbage(k)     == [kind |-> "garbage", cookie |-> k,     port |-> NoOne]
Record(k, p)   == [kind |-> "record",  cookie |-> k,     port |-> p]
FileStates     == {Empty} \cup {Garbage(k) : k \in Cookies}
                    \cup {Record(k, p) : k \in Cookies, p \in Ports \cup TornPorts}
ASSUME InitFiles \subseteq FileStates

(* Cookie::receive / receive_async: read_exact of Cookie::SIZE bytes      *)
(* returns once they or EOF arrive (EOF is the error, cookie NoOne), and   *)
(* waits for as long as the peer sends nothing.                            *)
Arrived(h) == h.kind # "silent"
(* PartialEq for Cookie: equal length, then memeq; an EOF matches none.    *)
CookieEq(a, b) == a # NoOne /\ a = b

(* A TCP connection in a listener's backlog and the cookie sent on it;    *)
(* NoOne when the sender died before cookie.send, so the server reads EOF. *)
(* A silent peer is a local process that connects and sends nothing.     *)
Silent     == [from |-> NoOne, kind |-> "silent", cookie |-> NoOne]
Conns      == [from : Clients, kind : {"init", "session", "probe"},
               cookie : Cookies \cup {NoOne}] \cup {Silent}
NoConn     == [from |-> NoOne, kind |-> "none", cookie |-> NoOne]
InitConn(c) == [from |-> c, kind |-> "init", cookie |-> c]

ServerStatus == {"none", "init", "serving", "dead"}
NoServer == [status |-> "none", port |-> NoOne, external |-> FALSE,
             latched |-> NoOne, initBy |-> NoConn, queue |-> <<>>, busy |-> NoConn]

PCs == {"idle", "opened", "started", "registering", "session", "connected",
        "closed", "bstarted", "binit", "done", "failed", "panicked", "crashed"}
Returned == {"connected", "closed", "done", "failed", "panicked"}
InCall   == {"opened", "started", "registering", "session", "bstarted", "binit"}
Ended    == Returned \cup {"crashed"}
SessFates == {"none", "queued", "eaten", "served", "rejected", "lost"}

VARIABLES
    lock,        \* holder of the exclusive lock on the rendezvous file
    file,        \* contents of the rendezvous file
    srv,         \* srv[s]: the server started by client s
    pc,          \* pc[c]: where client c is in connect_with_policy/bootstrap
    pol,         \* pol[c]: the policy of c's current connect attempt
    link,        \* link[c]: the server and cookie of c's session connection
    sess,        \* sess[c]: what became of c's session connection
    used,        \* ports bound so far
    crashes,     \* servers that died so far
    writeFails,  \* CookieFile::write and clear calls that failed so far
    faults       \* client deaths and silent peers so far

vars == <<lock, file, srv, pc, pol, link, sess, used, crashes, writeFails, faults>>

(* What a failed CookieFile::write(c, addr) leaves: rewind or set_len(0)  *)
(* failing keeps the old contents; the cookie or the address write_all     *)
(* failing part way leaves a cookie shorter than Cookie::SIZE (read as     *)
(* nothing) or a cut address: garbage or, cut after a digit, the address  *)
(* of another port (CookieFile's torn write).                             *)
TornWrite(c) == {file, Empty, Garbage(c)} \cup {Record(c, t) : t \in TornPorts}

Live == {s \in Clients : srv[s].status \in {"init", "serving"}}
\* The live server whose listener is bound to p (bind gives unique ports).
ListeningAt(p) == {s \in Live : srv[s].port = p}
\* Ports bind(127.0.0.1:0) may return: any unbound one, or, without
\* reuse, one never bound before.
FreePorts == IF PortReuse THEN Ports \ {srv[s].port : s \in Live}
                          ELSE Ports \ used
\* The file names a server that accepts TCP connections.
RecordLive == file.kind = "record" /\ ListeningAt(file.port) # {}

Enqueue(s, conn) == [srv EXCEPT ![s].queue = Append(@, conn)]
\* Server s stops: its listener closes and queued connections are reset.
Halt(s) ==
    /\ srv' = [srv EXCEPT ![s].status = "dead", ![s].queue = <<>>, ![s].busy = NoConn]
    /\ sess' = [c \in Clients |-> IF link[c].srv = s /\ sess[c] = "queued"
                                    THEN "lost" ELSE sess[c]]
NewServer(p, external) == [NoServer EXCEPT !.status = "init", !.port = p,
                                           !.external = external]
\* A call ends with an error or a panic; either way the lock is dropped.
Unwind(c, how) == pc' = [pc EXCEPT ![c] = how] /\ lock' = NoOne
\* c's server listens on port p, forked (external) or spawned.
Launch(c, p, external, next) ==
    /\ srv' = [srv EXCEPT ![c] = NewServer(p, external)]
    /\ pc' = [pc EXCEPT ![c] = next]
    /\ UNCHANGED lock
(* The policy match and start(external): bind(127.0.0.1:0).unwrap()       *)
(* panics with no free port; fork() may fail (spawn never does).  Robust  *)
(* then calls start(false), which binds a second time: the first listener *)
(* was dropped with the failed Command, so its port is free if reused.    *)
StartServer(c, policy, next) ==
    \/ /\ FreePorts = {}
       /\ Unwind(c, "panicked")
       /\ UNCHANGED <<srv, used>>
    \/ \E p \in FreePorts :
          LET again == IF PortReuse THEN FreePorts ELSE FreePorts \ {p} IN
          \/ /\ used' = used \cup {p}
             /\ Launch(c, p, policy # "Internal", next)
          \/ /\ policy = "External"
             /\ used' = used \cup {p}
             /\ Unwind(c, "failed")
             /\ UNCHANGED srv
          \/ /\ policy = "Robust" /\ again = {}
             /\ used' = used \cup {p}
             /\ Unwind(c, "panicked")
             /\ UNCHANGED srv
          \/ /\ policy = "Robust"
             /\ \E q \in again :
                   /\ used' = used \cup {p, q}
                   /\ Launch(c, q, FALSE, next)

TypeOK ==
    /\ lock \in Clients \cup {NoOne}
    /\ file \in FileStates
    /\ srv \in [Clients -> [status : ServerStatus, port : Ports \cup {NoOne},
                            external : BOOLEAN, latched : Cookies \cup {NoOne},
                            initBy : Conns \cup {NoConn}, queue : Seq(Conns),
                            busy : Conns \cup {NoConn}]]
    /\ pc \in [Clients -> PCs]
    /\ pol \in [Clients -> Policies]
    /\ link \in [Clients -> [srv : Clients \cup {NoOne}, cookie : Cookies \cup {NoOne}]]
    /\ sess \in [Clients -> SessFates]
    /\ used \subseteq Ports
    /\ crashes \in 0..MaxCrashes
    /\ writeFails \in 0..MaxWriteFailures
    /\ faults \in [client : 0..MaxClientCrashes, silent : 0..MaxSilentPeers]

Init ==
    /\ lock = NoOne
    /\ file \in InitFiles
    /\ srv = [s \in Clients |-> NoServer]
    /\ pc = [c \in Clients |-> "idle"]
    /\ pol = Policy
    /\ link = [c \in Clients |-> [srv |-> NoOne, cookie |-> NoOne]]
    /\ sess = [c \in Clients |-> "none"]
    \* the port of a left-over record was bound by the run that wrote it
    /\ used = IF file.kind = "record" THEN {file.port} ELSE {}
    /\ crashes = 0
    /\ writeFails = 0
    /\ faults = [client |-> 0, silent |-> 0]

-----------------------------------------------------------------------------
(***************************************************************************)
(* Mutants: each is a plausible slip in the code its original models; the *)
(* runs show a property that catches it.                                  *)
(***************************************************************************)
\* Open without waiting for the lock (lock_exclusive dropped).
OpenUnlocked(c) ==
    /\ pc[c] = "idle"
    /\ lock' = c
    /\ pc' = [pc EXCEPT ![c] = "opened"]
    /\ UNCHANGED <<file, srv, pol, link, sess, used, crashes, writeFails, faults>>

\* The stale-record retry without drop(file): the recursive connect() waits
\* for a lock its own caller still holds.
ConnectClearStaleKeepLock(c) ==
    /\ Role[c] = "connect" /\ pc[c] = "opened"
    /\ \/ file.kind = "garbage"
       \/ file.kind = "record" /\ ListeningAt(file.port) = {}
    /\ \/ /\ file' = Empty
          /\ pc' = [pc EXCEPT ![c] = "idle"]
          /\ pol' = [pol EXCEPT ![c] = CtxPolicy]
          /\ UNCHANGED <<lock, writeFails>>
       \/ /\ writeFails < MaxWriteFailures
          /\ writeFails' = writeFails + 1
          /\ Unwind(c, "failed")
          /\ UNCHANGED <<file, pol>>
    /\ UNCHANGED <<srv, link, sess, used, crashes, faults>>

\* A record taken for stale without trying to connect to it.
ConnectClearStaleUnchecked(c) ==
    /\ Role[c] = "connect" /\ pc[c] = "opened"
    /\ file.kind \in {"garbage", "record"}
    /\ \/ /\ file' = Empty
          /\ lock' = NoOne
          /\ pc' = [pc EXCEPT ![c] = "idle"]
          /\ pol' = [pol EXCEPT ![c] = CtxPolicy]
          /\ UNCHANGED writeFails
       \/ /\ writeFails < MaxWriteFailures
          /\ writeFails' = writeFails + 1
          /\ Unwind(c, "failed")
          /\ UNCHANGED <<file, pol>>
    /\ UNCHANGED <<srv, link, sess, used, crashes, faults>>

\* start() without the wasted initialization connection (line 204 removed).
ConnectStartNoInit(c) ==
    /\ Role[c] = "connect" /\ pc[c] = "opened"
    /\ file.kind = "empty"
    /\ StartServer(c, pol[c], "registering")
    /\ UNCHANGED <<file, pol, link, sess, crashes, writeFails, faults>>

\* drop(file) moved before the initialization connection: the lock is
\* released as soon as the server is started.
ConnectSendInitEarlyUnlock(c) ==
    /\ pc[c] = "started"
    /\ lock' = NoOne
    /\ \/ /\ \E s \in ListeningAt(srv[c].port) :
                /\ srv' = Enqueue(s, InitConn(c))
                /\ pc' = [pc EXCEPT ![c] = "registering"]
       \/ /\ ListeningAt(srv[c].port) = {}
          /\ pc' = [pc EXCEPT ![c] = "failed"]
          /\ UNCHANGED srv
    /\ UNCHANGED <<file, pol, link, sess, used, crashes, writeFails, faults>>

\* bootstrap() starting a server without probing the recorded one.
BootstrapStartNoProbe(c) ==
    /\ Role[c] = "bootstrap" /\ pc[c] = "opened"
    /\ StartServer(c, "Internal", "bstarted")
    /\ UNCHANGED <<file, pol, link, sess, crashes, writeFails, faults>>

\* The accept loop never learning that the session ended.
ServeSessionEndNoReset(s) ==
    /\ srv[s].busy # NoConn
    /\ srv[s].busy.kind \in {"probe", "init"} \/ pc[srv[s].busy.from] = "closed"
    /\ UNCHANGED vars

(* CookieFile::open: block until the exclusive lock is ours.  Only the    *)
(* holder writes the file, so the steps below see what read() returned.   *)
Open(c) ==
    /\ pc[c] = "idle"
    /\ lock = NoOne
    /\ lock' = c
    /\ pc' = [pc EXCEPT ![c] = "opened"]
    /\ UNCHANGED <<file, srv, pol, link, sess, used, crashes, writeFails, faults>>

(* Connect to the recorded address and send the cookie (do_connect); the  *)
(* lock is released when connect_with_policy returns.                     *)
ConnectReuse(c) ==
    /\ Role[c] = "connect" /\ pc[c] = "opened"
    /\ file.kind = "record"
    /\ \E s \in ListeningAt(file.port) :
          /\ srv' = Enqueue(s, [from |-> c, kind |-> "session", cookie |-> file.cookie])
          /\ link' = [link EXCEPT ![c] = [srv |-> s, cookie |-> file.cookie]]
    /\ sess' = [sess EXCEPT ![c] = "queued"]
    /\ pc' = [pc EXCEPT ![c] = "connected"]
    /\ lock' = NoOne
    /\ UNCHANGED <<file, pol, used, crashes, writeFails, faults>>

(* The rest is not an address or nothing listens there: clear the file,   *)
(* drop the lock and call self.connect(), i.e. retry with the context's   *)
(* policy.  file.clear()? (set_len(0)) may fail: the error is returned     *)
(* and the stale record stays.                                             *)
ConnectClearStale(c) ==
    /\ Role[c] = "connect" /\ pc[c] = "opened"
    /\ \/ file.kind = "garbage"
       \/ file.kind = "record" /\ ListeningAt(file.port) = {}
    /\ \/ /\ file' = Empty
          /\ lock' = NoOne
          /\ pc' = [pc EXCEPT ![c] = "idle"]
          /\ pol' = [pol EXCEPT ![c] = CtxPolicy]
          /\ UNCHANGED writeFails
       \/ /\ writeFails < MaxWriteFailures
          /\ writeFails' = writeFails + 1
          /\ Unwind(c, "failed")
          /\ UNCHANGED <<file, pol>>
    /\ UNCHANGED <<srv, link, sess, used, crashes, faults>>

(* No cookie in the file: new cookie, start(external) per the policy.     *)
(* start() binds 127.0.0.1:0 and unwraps the result: with no free port    *)
(* the call panics and unwinding releases the lock.                       *)
ConnectStart(c) ==
    /\ Role[c] = "connect" /\ pc[c] = "opened"
    /\ file.kind = "empty"
    /\ StartServer(c, pol[c], "started")
    /\ UNCHANGED <<file, pol, link, sess, crashes, writeFails, faults>>

(* The throwaway initialization connection carrying the cookie.           *)
ConnectSendInit(c) ==
    /\ pc[c] = "started"
    /\ \/ \E s \in ListeningAt(srv[c].port) :
             /\ srv' = Enqueue(s, InitConn(c))
             /\ pc' = [pc EXCEPT ![c] = "registering"]
             /\ UNCHANGED lock
       \/ /\ ListeningAt(srv[c].port) = {}
          /\ pc' = [pc EXCEPT ![c] = "failed"]
          /\ lock' = NoOne
          /\ UNCHANGED srv
    /\ UNCHANGED <<file, pol, link, sess, used, crashes, writeFails, faults>>

(* External servers are written to the file; then the lock is dropped.    *)
(* A failed write leaves the file truncated to nothing or to a cookie and *)
(* part of the address, and returns the error.                            *)
ConnectRegister(c) ==
    /\ pc[c] = "registering"
    /\ lock' = NoOne
    /\ \/ /\ ~srv[c].external
          /\ pc' = [pc EXCEPT ![c] = "session"]
          /\ UNCHANGED <<file, writeFails, faults>>
       \/ /\ srv[c].external
          /\ file' = Record(c, srv[c].port)
          /\ pc' = [pc EXCEPT ![c] = "session"]
          /\ UNCHANGED writeFails
       \/ /\ srv[c].external
          /\ writeFails < MaxWriteFailures
          /\ writeFails' = writeFails + 1
          /\ file' \in TornWrite(c)
          /\ pc' = [pc EXCEPT ![c] = "failed"]
    /\ UNCHANGED <<srv, pol, link, sess, used, crashes, faults>>

(* do_connect(cookie, TcpStream::connect(addr)?) after the lock is gone:  *)
(* whoever listens on the port now gets the session.                      *)
ConnectDoConnect(c) ==
    /\ pc[c] = "session"
    /\ \/ \E s \in ListeningAt(srv[c].port) :
             /\ srv' = Enqueue(s, [from |-> c, kind |-> "session", cookie |-> c])
             /\ link' = [link EXCEPT ![c] = [srv |-> s, cookie |-> c]]
             /\ sess' = [sess EXCEPT ![c] = "queued"]
             /\ pc' = [pc EXCEPT ![c] = "connected"]
       \/ /\ ListeningAt(srv[c].port) = {}
          /\ pc' = [pc EXCEPT ![c] = "failed"]
          /\ UNCHANGED <<srv, link, sess>>
    /\ UNCHANGED <<lock, file, pol, used, crashes, writeFails, faults>>

(* The caller drops the RpcSystem, closing the session's stream.          *)
DropSession(c) ==
    /\ pc[c] = "connected"
    /\ pc' = [pc EXCEPT ![c] = "closed"]
    /\ UNCHANGED <<lock, file, srv, pol, link, sess, used, crashes, writeFails, faults>>

-----------------------------------------------------------------------------
(* bootstrap(): a live recorded server that takes our cookie means one is *)
(* already running.                                                       *)
BootstrapProbe(c) ==
    /\ Role[c] = "bootstrap" /\ pc[c] = "opened"
    /\ file.kind = "record"
    /\ \E s \in ListeningAt(file.port) :
          srv' = Enqueue(s, [from |-> c, kind |-> "probe", cookie |-> file.cookie])
    /\ pc' = [pc EXCEPT ![c] = "done"]
    /\ lock' = NoOne
    /\ UNCHANGED <<file, pol, link, sess, used, crashes, writeFails, faults>>

(* Otherwise a new cookie and an in-process server, start(false).         *)
BootstrapStart(c) ==
    /\ Role[c] = "bootstrap" /\ pc[c] = "opened"
    /\ ~RecordLive
    /\ StartServer(c, "Internal", "bstarted")
    /\ UNCHANGED <<file, pol, link, sess, crashes, writeFails, faults>>

(* file.write(&cookie, addr)? and drop(file): the record is published and *)
(* the lock released BEFORE the server has been sent its cookie.          *)
BootstrapWrite(c) ==
    /\ pc[c] = "bstarted"
    /\ lock' = NoOne
    /\ \/ /\ file' = Record(c, srv[c].port)
          /\ pc' = [pc EXCEPT ![c] = "binit"]
          /\ UNCHANGED writeFails
       \/ /\ writeFails < MaxWriteFailures
          /\ writeFails' = writeFails + 1
          /\ file' \in TornWrite(c)
          /\ pc' = [pc EXCEPT ![c] = "failed"]
    /\ UNCHANGED <<srv, pol, link, sess, used, crashes, faults>>

(* TcpStream::connect(addr)? and cookie.send: the initialization          *)
(* connection, now outside the lock.                                      *)
BootstrapSendInit(c) ==
    /\ pc[c] = "binit"
    /\ \/ \E s \in ListeningAt(srv[c].port) :
             /\ srv' = Enqueue(s, InitConn(c))
             /\ pc' = [pc EXCEPT ![c] = "done"]
       \/ /\ ListeningAt(srv[c].port) = {}
          /\ pc' = [pc EXCEPT ![c] = "failed"]
          /\ UNCHANGED srv
    /\ UNCHANGED <<lock, file, pol, link, sess, used, crashes, writeFails, faults>>

-----------------------------------------------------------------------------
(* serve_listener: the first accepted connection's 32 bytes become the    *)
(* expected cookie and the connection is closed.                          *)
(* read_exact blocks on a silent peer; EOF (the sender died before       *)
(* sending) is an error that serve_listener returns: the server exits.    *)
ServeAcceptInit(s) ==
    /\ srv[s].status = "init"
    /\ srv[s].queue # <<>>
    /\ LET h == Head(srv[s].queue) IN
          /\ Arrived(h)
          /\ \/ /\ h.cookie # NoOne
                /\ srv' = [srv EXCEPT ![s].status = "serving", ![s].latched = h.cookie,
                                      ![s].initBy = h, ![s].queue = Tail(@)]
                /\ sess' = IF h.kind = "session" THEN [sess EXCEPT ![h.from] = "eaten"]
                                                 ELSE sess
             \/ /\ h.cookie = NoOne
                /\ Halt(s)
    /\ UNCHANGED <<lock, file, pc, pol, link, used, crashes, writeFails, faults>>

(* The accept loop: read the cookie, drop the connection on a mismatch,   *)
(* otherwise run the RPC system; spawn_local(rpc_system).await returns    *)
(* only when that session ends, so nothing else is accepted meanwhile.    *)
(* receive_async awaits the 32 bytes with no timeout: a silent peer at    *)
(* the head of the backlog stops the loop; EOF is an error, dropped.      *)
ServeAccept(s) ==
    /\ srv[s].status = "serving"
    /\ srv[s].busy = NoConn
    /\ srv[s].queue # <<>>
    /\ Arrived(Head(srv[s].queue))
    /\ LET h  == Head(srv[s].queue)
           ok == CookieEq(h.cookie, srv[s].latched)
       IN /\ srv' = [srv EXCEPT ![s].queue = Tail(@),
                                ![s].busy = IF ok THEN h ELSE NoConn]
          /\ sess' = IF h.kind = "session"
                       THEN [sess EXCEPT ![h.from] = IF ok THEN "served" ELSE "rejected"]
                       ELSE sess
    /\ UNCHANGED <<lock, file, pc, pol, link, used, crashes, writeFails, faults>>

(* The RPC system finishes when the client's end of the stream closes;    *)
(* a bootstrap probe and an initialization connection (a temporary in     *)
(* connect_with_policy, a local dropped on return in bootstrap) close      *)
(* their stream as soon as the cookie is sent.                            *)
ServeSessionEnd(s) ==
    /\ srv[s].busy # NoConn
    /\ srv[s].busy.kind \in {"probe", "init"} \/ pc[srv[s].busy.from] = "closed"
    /\ srv' = [srv EXCEPT ![s].busy = NoConn]
    /\ UNCHANGED <<lock, file, pc, pol, link, sess, used, crashes, writeFails, faults>>

(* A server process is killed or its thread returns an error (handler    *)
(* factory, accept): the listener closes, queued connections are reset.  *)
ServerExit(s) ==
    /\ s \in Live
    /\ crashes < MaxCrashes
    /\ crashes' = crashes + 1
    /\ Halt(s)
    /\ UNCHANGED <<lock, file, pc, pol, link, used, writeFails, faults>>

\* Mutant: a lock the holder's death does not release (a lock file
\* instead of flock).
ClientCrashKeepLock(c) ==
    /\ pc[c] \in InCall
    /\ faults.client < MaxClientCrashes
    /\ faults' = [faults EXCEPT !.client = @ + 1]
    /\ pc' = [pc EXCEPT ![c] = "crashed"]
    /\ \/ /\ c \notin Live \/ srv[c].external
          /\ UNCHANGED <<srv, sess>>
       \/ /\ c \in Live /\ ~srv[c].external
          /\ Halt(c)
       \/ /\ c \in Live /\ srv[c].external /\ pc[c] \in {"started", "session"}
          /\ srv' = Enqueue(c, [from |-> c, cookie |-> NoOne,
                                kind |-> IF pc[c] = "started" THEN "init" ELSE "session"])
          /\ UNCHANGED sess
    /\ UNCHANGED <<lock, file, pol, link, used, crashes, writeFails>>

(* The process running a call dies.  The kernel drops its flock; an       *)
(* in-process server (spawn, bootstrap) dies with it; a death between     *)
(* TcpStream::connect and cookie.send leaves the server a connection that *)
(* reads EOF instead of a cookie.                                          *)
ClientCrash(c) ==
    /\ pc[c] \in InCall
    /\ faults.client < MaxClientCrashes
    /\ faults' = [faults EXCEPT !.client = @ + 1]
    /\ pc' = [pc EXCEPT ![c] = "crashed"]
    /\ lock' = IF lock = c THEN NoOne ELSE lock
    /\ \/ /\ c \notin Live \/ srv[c].external
          /\ UNCHANGED <<srv, sess>>
       \/ /\ c \in Live /\ ~srv[c].external
          /\ Halt(c)
       \/ /\ c \in Live /\ srv[c].external /\ pc[c] \in {"started", "session"}
          /\ srv' = Enqueue(c, [from |-> c, cookie |-> NoOne,
                                kind |-> IF pc[c] = "started" THEN "init" ELSE "session"])
          /\ UNCHANGED sess
    /\ UNCHANGED <<file, pol, link, used, crashes, writeFails>>

(* Another local process connects to a server's port and sends nothing.   *)
SilentConnect(s) ==
    /\ s \in Live
    /\ faults.silent < MaxSilentPeers
    /\ faults' = [faults EXCEPT !.silent = @ + 1]
    /\ srv' = Enqueue(s, Silent)
    /\ UNCHANGED <<lock, file, pc, pol, link, sess, used, crashes, writeFails>>

-----------------------------------------------------------------------------
ClientStep(c) ==
    \/ Open(c)
    \/ ConnectReuse(c) \/ ConnectClearStale(c) \/ ConnectStart(c)
    \/ ConnectSendInit(c) \/ ConnectRegister(c) \/ ConnectDoConnect(c)
    \/ BootstrapProbe(c) \/ BootstrapStart(c) \/ BootstrapWrite(c)
    \/ BootstrapSendInit(c)

ServerStep(s) == ServeAcceptInit(s) \/ ServeAccept(s) \/ ServeSessionEnd(s)

Next ==
    \E c \in Clients :
        \/ ClientStep(c) \/ DropSession(c)
        \/ ServerStep(c) \/ ServerExit(c)
        \/ ClientCrash(c) \/ SilentConnect(c)

(* Every client call and every server thread runs on its own OS thread or *)
(* process and keeps taking steps; server deaths and write failures are   *)
(* environment events, never forced.  Callers eventually drop sessions.   *)
Spec ==
    /\ Init /\ [][Next]_vars
    /\ \A c \in Clients : WF_vars(ClientStep(c)) /\ WF_vars(ServerStep(c))
                          /\ WF_vars(DropSession(c))

(* The same without assuming that callers ever drop their sessions.       *)
SpecCallerHolds ==
    /\ Init /\ [][Next]_vars
    /\ \A c \in Clients : WF_vars(ClientStep(c)) /\ WF_vars(ServerStep(c))

-----------------------------------------------------------------------------
(* A server latches the cookie of the initialization connection of the    *)
(* client that started it, never another client's session: the protocol   *)
(* comment of serve_listener has the starter send the cookie before it    *)
(* unlocks the cookie file.                                               *)
InitFromStarter ==
    \A s \in Clients : srv[s].initBy \in {NoConn, InitConn(s)}

(* The flock brackets the decision: a call holds the lock from            *)
(* CookieFile::open until drop(file), which comes after the record write  *)
(* in connect_with_policy (210) and bootstrap (329), and every other exit *)
(* (an error returned by ?, a panic in bind, the process dying, the       *)
(* stale-record retry at 190) releases it.  Holding it exactly then is    *)
(* what lets only one call at a time conclude that no server is running.  *)
LockScope ==
    \A c \in Clients :
        (lock = c) <=> (pc[c] \in {"opened", "started", "registering", "bstarted"})

(* At most one start per epoch (spec: at-most-one-start, all calls reach  *)
(* the same server): a client whose session went, with that server's own  *)
(* cookie, to a live external or bootstrapped server speaks to the very   *)
(* server the rendezvous file names, so no second registered server was   *)
(* started beside it.                                                      *)
Registered(s) == srv[s].external \/ Role[s] = "bootstrap"
ClientsShareRegisteredServer ==
    \A c \in Clients :
        LET s == link[c].srv IN
        (s \in Live /\ link[c].cookie = s /\ Registered(s) /\ file.kind = "record")
            => file.cookie = s

(* Every connect_with_policy and bootstrap call returns: the lock is      *)
(* released on every path, including the stale-record retry.             *)
ConnectReturns ==
    \A c \in Clients : <>(pc[c] \in Ended)

(* A session that presents the cookie of the server it reached is         *)
(* eventually served (unless that server dies first).                     *)
SessionEventuallyServed ==
    \A c \in Clients :
        (sess[c] = "queued" /\ link[c].cookie = link[c].srv)
            ~> sess[c] \in {"served", "lost"}

(* connect_with_policy(p) starts only the kind of server p allows: an     *)
(* in-process one only under Internal/Robust, an external one only under  *)
(* External/Robust.                                                       *)
PolicyRespected ==
    \A c \in Clients :
        (Role[c] = "connect" /\ srv[c].status # "none") =>
            IF srv[c].external THEN Policy[c] # "Internal"
                               ELSE Policy[c] # "External"
-----------------------------------------------------------------------------
(***************************************************************************)
(* Refinement: the protocol implements the abstract Rendezvous.  The      *)
(* registry is the server the file records, when that server is up and is *)
(* one whose record discovery trusts (external or bootstrapped, at its    *)
(* own port); a call has returned once connect_with_policy or bootstrap   *)
(* has; its session is the server its session connection reached.        *)
(***************************************************************************)
RegistryOf ==
    IF /\ file.kind = "record" /\ file.cookie \in Live
       /\ Registered(file.cookie) /\ srv[file.cookie].port = file.port
      THEN file.cookie ELSE NoOne

Abstract == INSTANCE Rendezvous
    WITH Nobody   <- NoOne,
         registry <- RegistryOf,
         up       <- Live,
         started  <- {s \in Clients : srv[s].status # "none"},
         attached <- [c \in Clients |-> link[c].srv],
         returned <- {c \in Clients : pc[c] \in Ended}

(* The lock makes discovery behave as the abstract registry: no server is *)
(* registered while another registered one is up, every session goes to  *)
(* the caller's own server or the registered one, and every call returns. *)
RendezvousSpec == Abstract!Spec
=============================================================================
