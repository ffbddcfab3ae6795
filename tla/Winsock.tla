------------------------------ MODULE Winsock ------------------------------
(***************************************************************************)
(* Process-wide Windows Sockets set-up (wsa_startup / wsa_cleanup in      *)
(* src/ipc/src/lib.rs): a constructor calls WSAStartup(2.2) before main   *)
(* and stores a flag, a destructor calls WSACleanup after main if the     *)
(* flag is set.  WSAStartup returns 0 on success and an error code        *)
(* otherwise; WSACleanup undoes one successful WSAStartup.                *)
(***************************************************************************)
EXTENDS Naturals

CONSTANTS
    StartupResults   \* what WSAStartup may return: 0 or error codes

VARIABLES
    phase,       \* "loaded", "running" (main), "unloaded"
    inited,      \* WSA_INITED
    refs,        \* successful WSAStartup calls not yet cleaned up
    badCleanup   \* WSACleanup was called with nothing to clean up

vars == <<phase, inited, refs, badCleanup>>

TypeOK ==
    /\ phase \in {"loaded", "running", "unloaded"}
    /\ inited \in BOOLEAN
    /\ refs \in Nat
    /\ badCleanup \in BOOLEAN

Init ==
    /\ phase = "loaded"
    /\ inited = FALSE
    /\ refs = 0
    /\ badCleanup = FALSE

(* #[ctor] wsa_startup: WSA_INITED.store(ret != 0).                        *)
WsaStartup ==
    /\ phase = "loaded"
    /\ \E ret \in StartupResults :
          /\ refs' = IF ret = 0 THEN refs + 1 ELSE refs
          /\ inited' = (ret # 0)
    /\ phase' = "running"
    /\ UNCHANGED badCleanup

(* #[dtor] wsa_cleanup: WSACleanup() if WSA_INITED is set.                 *)
WsaCleanup ==
    /\ phase = "running"
    /\ phase' = "unloaded"
    /\ IF inited
         THEN /\ refs' = IF refs > 0 THEN refs - 1 ELSE 0
              /\ badCleanup' = (refs = 0)
         ELSE UNCHANGED <<refs, badCleanup>>
    /\ UNCHANGED inited

Next == WsaStartup \/ WsaCleanup

Spec == Init /\ [][Next]_vars

(* Spec section 4.8: cleanup happens exactly once when startup succeeded  *)
(* and is skipped when it failed; so at unload nothing is left started    *)
(* and nothing was cleaned up that was never started.                     *)
BalancedStartup ==
    phase = "unloaded" => (refs = 0 /\ ~badCleanup)
=============================================================================
