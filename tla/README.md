# A TLA+ model of sequoia-ipc

This directory models `src/ipc/src/lib.rs`, the rendezvous, launch and
authentication layer of sequoia-ipc, and checks it with TLC. All numbers below
refer to lines of that file.

## The system

| # | Part | Code | What it does |
|---|------|------|--------------|
| C1 | Cookie | `Cookie` 470-529 | A 32-byte random token. It is written on a connection, read back, and split off the front of the rendezvous file (`extract`). |
| C2 | Rendezvous file | `CookieFile` 544-616 | `open` takes an exclusive `flock`, which is held until the handle drops. `read` splits cookie from rest. `write` is rewind, `set_len(0)`, then `write_all(cookie)` and `write_all(addr)`. `clear` is `set_len(0)`. |
| C3 | Process launcher | `Descriptor::fork` 235-276 | Spawns the server executable with the bound listener as stdin (or `SOCKET`) and an argv built from the context. |
| C4 | In-process launcher | `Descriptor::spawn` 278-289 | Runs `serve_listener` on a new thread. |
| C5 | Client | `connect_with_policy` 153-214, `start` 218-233, `bootstrap` 299-336 | Lock the file. Reuse the recorded server, or clear a stale record and retry, or start a server. Send it the cookie on an init connection, register it if external, unlock, then open the session. `bootstrap` is the daemon's variant: probe, start in-process, register, unlock, send the cookie. |
| C6 | Server | `serve_listener` 400-467, `serve` 389-398, `context` 355-380 | Latch the cookie from the first accepted connection. Then, for each connection: read its cookie, drop it on a mismatch, otherwise run the RPC session to its end (`spawn_local(..).await`). |
| C7 | Policy | 196-201 | Internal is `start(false)`. External is `start(true)`. Robust is `start(true)` or else `start(false)`. |
| C8 | Platform shim | 629-673 | `WSAStartup`/`WSACleanup` with the `WSA_INITED` flag; `new_background_command`. |

### How the parts interact

Clients, possibly in different processes, serialise on the file lock (C2).
Under the lock a client reads the file. It then either dials the recorded
address, or starts a server on a port that `bind(127.0.0.1:0)` hands out (C3,
C4, C7).

A server learns its cookie only from the first connection it accepts (C6). The
protocol therefore depends on the starter's init connection arriving before
anyone else's. Sessions flow to whichever live server listens on the port when
the client connects.

## Modules

### `IPC.tla`: the whole protocol (C2 lock, C4, C5, C6, C7, C3 as a launch)

**State.**

| Variable | Meaning |
|---|---|
| `lock` | The flock holder. |
| `file` | What `read()` plus the address parse see: `Empty`, `Garbage(k)` (a cookie and bytes that are no address), or `Record(k, p)`. |
| `srv[s]` | The server started by client `s`: status, port, external or not, latched cookie, the connection it latched from, its accept backlog (`queue`), and the session it is running (`busy`). |
| `pc[c]` | Where client `c` is. |
| `pol[c]` | The policy of `c`'s current attempt. |
| `link[c]` | The server and cookie of `c`'s session. |
| `sess[c]` | What became of the session: queued, served, rejected, eaten as an init cookie, or lost. |
| `used` | Ports bound so far. A left-over record's port counts as bound: the run that wrote it bound it, and without `PortReuse` the kernel does not issue it again. |
| `crashes`, `writeFails`, `faults` | Bounded counts of environment failures: server deaths, failed writes, client crashes and silent peers. |

**Actions.** There is one action per branch of the client code, in the code's
order:

- `Open`
- `ConnectReuse`, `ConnectClearStale` (including a failing `file.clear()`), `ConnectStart`
- `ConnectSendInit`, `ConnectRegister`, `ConnectDoConnect`, `DropSession`
- `BootstrapProbe`, `BootstrapStart`, `BootstrapWrite`, `BootstrapSendInit`

The server has `ServeAcceptInit`, `ServeAccept` and `ServeSessionEnd`. Its
death (a killed process, or an error from the handler factory or `accept`) is
`ServerExit`. `ServeSessionEnd` ends a running session when its caller has dropped it. A probe, or an init connection served in the loop because its cookie matches, ends at once: its sender closes the stream right after the cookie.

A connection is a record of its sender, its kind (init, session or probe) and
the cookie it carries. A cookie is named by the client that generated it.
`OldCookie` is one left by an earlier run.

`ConnectStart` and `BootstrapStart` share `StartServer`, which gives every
outcome of the policy match (196-201) and of `start()` (218-233):

- `bind(127.0.0.1:0).unwrap()` panics when no port is free. Unwinding drops the file handle and so the lock (`Unwind`).
- Under External, `fork` may fail and the error is returned.
- Under Robust, a failed `fork` is followed by `start(false)`. That binds a second port, and with none free it panics there.

The server side uses `Arrived`, which models `Cookie::receive` and
`receive_async`: EOF yields no cookie, and a silent peer blocks. It also uses
`CookieEq`, the cookie `PartialEq`.

`PortReuse` says whether `bind` may return a port that a dead server held.

**Fault model.** Each fault is bounded by a named constant and has no
fairness.

- `ServerExit(s)`: a server process or thread dies (`MaxCrashes`).
- A failed `write` or `clear` (`MaxWriteFailures`).
  - A failed `clear` returns the error and leaves the stale record in place (190).
  - A failed `write` leaves one of the outcomes CookieFile's byte-level model finds (`TornWrite`): the old contents unchanged (the rewind or `set_len(0)` failed), an empty file, a cookie followed by garbage, or a cookie followed by the address cut after a digit.
  - An address cut after a digit names another port. `TornPorts` holds such ports. Their text is shorter than any port in bind's ephemeral range, so no server of this crate listens there, and the next client treats the record as stale.
- `ClientCrash(c)` (`MaxClientCrashes`): the process of a call dies inside the call.
  - The kernel drops its `flock` (570, "the lock is dropped when the file is closed").
  - An in-process server it spawned dies with it.
  - If it dies after connecting to its fresh external server but before `cookie.send` (204), the server reads EOF. `Cookie::receive(..)?` at 427-428 then makes `serve_listener` return, so that server exits. This is modelled as an empty `init` connection.
- `SilentConnect(s)` (`MaxSilentPeers`): another local process connects to a live server and never writes.
  - Both reads of a cookie block without a timeout: 427 before the cookie is latched, and 443 in the loop.
  - A silent connection at the head of the backlog therefore blocks the server for good.

`Halt(s)` is the common effect of a server's end. Its backlog and running
session are dropped, and sessions still queued are lost.

### `Rendezvous.tla`: what the layer promises (abstract)

The state is:

- the registered server that is up;
- the running and ever-started servers, where a server is named by the call that started it;
- the server each call's session went to;
- the calls that have returned.

A server starts, registers only when none is registered, and dies. A call ends
in one of three ways: it attaches to its own server or to the registered one,
it fails, or its process dies. `Spec` promises that every call returns.

`IPC` implements it: `Abstract == INSTANCE Rendezvous WITH ...`, checked as the
PROPERTY `RendezvousSpec`. The refinement mapping is:

| Abstract | Defined from `IPC` |
|---|---|
| `registry` | The server that the record in the file names, when that server is live, registered, and listening on the recorded port (`RegistryOf`). |
| `up` | The live servers. |
| `started` | The servers whose status is no longer `none`. |
| `attached` | `link[c].srv`. |
| `returned` | The calls whose `pc` is a return state or `crashed`. |

### `CookieFile.tla`: the file at byte level (C1 `extract`, C2)

The state is the file's bytes and one handle's cursor.

- Each syscall of `write` is its own step (`WriteRewind`, `WriteTruncate`, `WriteCookie`, `WriteData`).
- Each syscall may fail, and `write_all` may fail after writing a prefix.
- The process may die between two steps (`Crash`).
- A write past the end leaves a hole.
- The address text is a host part followed by digits (`ParseAddr`), so a prefix of an address can still be an address.

### `Winsock.tla`: C8's Windows socket initialisation

It models the constructor, the destructor and the flag. `refs` counts
successful `WSAStartup` calls that have not yet been cleaned up.

### `ServerArgv.tla`: C3's argv and C6's `Server::context`

The parent builds the argv from a context. The child parses it back.

### `MC_IPC.tla` and `MC_CookieFile.tla`

These instantiate the specs for TLC. They set the clients, their roles and
policies, and the initial files, and model the address texts as short
sequences.

## Runs

| Run | cfg | Expect | What it shows |
|-----|-----|--------|---------------|
| connect_safety | IPC_connect.cfg | pass | Three connect calls (External, Robust, Internal) against a left-over file. The faults are one server death, one failed write or clear, and one client crash. Every server latches its starter's init cookie (`InitFromStarter`). No client talks to a registered server other than the one the file names (`ClientsShareRegisteredServer`). A call holds the lock exactly from `open` to `drop(file)`, and every early exit releases it: errors, the bind panic, process death and the stale-record retry (`LockScope`). |
| connect_progress | IPC_progress.cfg | pass | With up to one client process dying mid-call (even while it holds the lock), every call returns, the stale-record retry included (`ConnectReturns`). A session with the right cookie is eventually served unless its server dies (`SessionEventuallyServed`). |
| refines_rendezvous | IPC_refinement.cfg | pass | `bootstrap()` and two Robust clients, starting from a record of a dead server. The faults are one server death, one failed write, one client crash and one silent peer. There are only two ports, so a third start panics in `bind`. `IPC` implements `Rendezvous`. No registered server is overwritten while it is up. Every session goes to the caller's own server or the registered one. Every call ends. |
| silent_peer | IPC_silent_peer.cfg | violation | A silent peer that reaches a fresh server before its init connection hangs the server at 427. The starter still publishes the record, and the sessions of that client and of the next one are never served. Spec 4.1 counts hostile local processes as a threat, and 4.6 says trouble on one connection does not stop the loop. |
| retry_policy | IPC_policy.cfg | violation | `connect_with_policy(External)` retries via `connect()` with the context's Internal policy (191). |
| bootstrap_race | IPC_bootstrap_race.cfg | violation | `bootstrap` unlocks (329) before sending the init cookie (332-333). A client's session is latched as the cookie, and the bootstrap's own init, carrying the same cookie, is then served as an ordinary session. The server was not initialised by its starter, against the protocol comment at 411-415. |
| port_reuse | IPC_port_reuse.cfg | violation | A dead in-process server's port is reused by another client's server, and the old client's session (212) becomes that server's init connection. |
| serial_sessions | IPC_serial.cfg | violation | Without assuming callers close sessions, one held session starves every other client of that server (462). |
| cookie_file_roundtrip | CookieFile_roundtrip.cfg | pass | After a successful `write` over any earlier contents, the next read yields exactly that cookie and address (`RoundTrip`). `extract` agrees with a recursive reference definition (`ExtractCorrect`). |
| cookie_file_torn | CookieFile_torn.cfg | violation | A torn `write_all(addr)` leaves a shorter address that parses (602). This contradicts spec 4.2, which says a torn write reads as no record. |
| wsa_flag | Winsock_flag.cfg | violation | `WSA_INITED.store(ret != 0)` is inverted (644). |
| fork_argv | ServerArgv_fork.cfg | violation | `fork` passes `--socket 0` (244), and `context` wants exactly seven arguments (359). |

Every property of a passing run has a mutant in `PROJECT.json`: a copy of one
action with a plausible slip, which TLC must catch. Examples:

- the lock guard dropped from `Open`;
- `drop(file)` moved before the init connection;
- a record treated as stale without trying to connect to it;
- `drop(file)` missing before the retry;
- the init connection skipped;
- `bootstrap` starting without probing;
- the accept loop never freeing its slot;
- a dying client's lock not released;
- `set_len(0)` skipped;
- `>` instead of `>=` in `extract`.

## Bounds

**IPC.**

- Three clients are enough for the lock to matter beyond a pair, and for all three policies to start servers side by side.
- Three ports without reuse give every start a fresh port. The port_reuse run uses two ports with reuse, so a port is reused after one death.
- The safety run has one client crash but no silent peer. A silent peer cannot change who latches which cookie or who holds the lock, and adding one takes the run from 40 s to nearly three minutes.
- One client crash and one silent peer each reach their effect: a lock released by death, a server killed by EOF, and a server blocked at 427 or 443.
- The refinement run has two ports instead of three. This reaches the bind panic, and it keeps the run with every fault at about one minute. A silent peer does not break the refinement: a blocked server stays up and registered, and callers still return because `cookie.send` only fills the socket buffer.
- `TornPorts` is `{pt}` in the passing runs, so every failed write may also leave a record naming a port with nothing on it.
- One server death and one failed write are enough to reach every stale-file, lost-session and garbage-file case, since each needs one such event.
- The initial files are empty, garbage with an old cookie, or a record of a dead server. These are the three states `read()` distinguishes.

**CookieFile.**

- The cookie is 2 bytes: the boundary cases are lengths 0, 1, 2 and 3.
- Addresses are `h:1` and `h:12`, so one address is a prefix of the other. This is the case in which a torn write parses.
- Old contents include a longer record, so a missing truncate shows.
- There are two rounds of open, read and write.

## Fairness

Each client call runs on its own thread or process, and each server runs on its
own thread or process. `Spec` therefore gives weak fairness to every client's
steps and to every server's steps. Server deaths, write failures, client crashes and
silent peers are environment events and get no fairness.

`Spec` also assumes that callers eventually drop their sessions (WF on
`DropSession`). `SpecCallerHolds` drops that assumption, and the
serial_sessions run uses it to show why the assumption matters.

Deadlock checking is off in the IPC runs: once every call has returned, the
servers legitimately block in `accept()` forever. It is off in the CookieFile
runs too, because they end once the rounds are used up.

## Not modelled

- The RPC layer (capnp): sessions are abstract.
- Constant-time cookie comparison: a timing property.
- Socket hand-off through stdin or `SOCKET`, and `new_background_command`: OS plumbing with no protocol state.
- `serve()` itself: it only takes the listener from stdin or `SOCKET` and calls `serve_listener`, which is modelled.
- An empty argv at 363: this crate never produces one.
- A torn record naming a port on which an unrelated local process listens. Only this crate's servers listen in the model. The hazard is listed at 182.
- A bounded accept backlog: `listen()`'s backlog is not modelled, and connections queue without limit up to the bounds of the calls.

## Open ends

Three hazards in `PROJECT.json` have no property.

- **resource_bound at 191.** The stale-record retry recurses without a bound. Each retry needs a fresh stale record, and the faults that make one are bounded in the model. So every modelled retry chain is finite, and a peer that invalidates the file forever is beyond a finite model.
- **numeric_edge at 363.** `Server::context` formats `args[0]` in its usage error, which panics on an empty argv. Spec 6 says any deviation is a usage error. `fork()` always passes the program name, so only another launcher can produce an empty argv. Checking this would need a violation run of its own in `ServerArgv`.
- **stale_state at 182.** A torn record can name a port on which an unrelated local process listens. `ConnectReuse` trusts any record whose port accepts TCP connections. The port_reuse run already shows that trust going wrong with this crate's own servers. A foreign listener would add a process outside the protocol.

Some error returns are also left out:

- `create_dir_all`, `open` and `lock_exclusive` failing in `CookieFile::open`. The call returns before it holds the lock or reads the file.
- `read()?` failing in `connect_with_policy`. The call returns with the file untouched, and the lock is dropped with the handle, as `Unwind` models for the other error paths.
- `do_connect`'s `cookie.send` or socket setup failing after the lock is gone. The call returns an error. The server reads a short cookie and discards the connection at 443-444, just as it discards a wrong cookie.

None of these adds a step on the lock, the file or a server's latched cookie. They would add error returns to `ConnectReturns`, which every call already reaches. A `listen()` backlog bound is also left out.
