----------------------------- MODULE ServerArgv -----------------------------
(***************************************************************************)
(* The command line of a forked server (Descriptor::fork in               *)
(* src/ipc/src/lib.rs) and its parse by the server (Server::context):     *)
(* the parent builds the argv, the child turns it back into a context.    *)
(***************************************************************************)
EXTENDS Naturals, Sequences

CONSTANTS
    Homes,   \* home directories a context may have
    Libs     \* lib directories a context may have

BoolText(b) == IF b THEN "true" ELSE "false"

(* fork(): <exe> --home H --lib L --ephemeral true|false --socket 0.       *)
ForkArgv(h, l, e) ==
    <<"exe", "--home", h, "--lib", l, "--ephemeral", BoolText(e), "--socket", "0">>

(* Server::context(): exactly 7 arguments with the three flags in place,   *)
(* and "true" or "false" after --ephemeral; the usage message formats     *)
(* args[0], which does not exist in an empty argv.                        *)
NoCtx == [home |-> "none", lib |-> "none", ephemeral |-> FALSE]
Result(status, ctx) == [status |-> status, ctx |-> ctx]
Context(args) ==
    IF Len(args) # 7 \/ args[2] # "--home" \/ args[4] # "--lib" \/ args[6] # "--ephemeral"
      THEN Result(IF Len(args) = 0 THEN "panic" ELSE "usage", NoCtx)
      ELSE IF args[7] \notin {"true", "false"} THEN Result("bad_ephemeral", NoCtx)
      ELSE Result("ok", [home |-> args[3], lib |-> args[5], ephemeral |-> args[7] = "true"])

VARIABLES
    parent,  \* the context the parent forks with, or NoCtx
    argv,    \* the child's command line
    child    \* what Server::context() returned in the child

vars == <<parent, argv, child>>

Contexts == [home : Homes, lib : Libs, ephemeral : BOOLEAN]

TypeOK ==
    /\ parent \in Contexts \cup {NoCtx}
    /\ argv \in Seq(STRING)
    /\ child \in [status : {"none", "ok", "usage", "bad_ephemeral", "panic"},
                  ctx : Contexts \cup {NoCtx}]

Init ==
    /\ parent = NoCtx
    /\ argv = <<>>
    /\ child = Result("none", NoCtx)

(* Descriptor::fork: spawn the executable with the context's arguments.   *)
Fork ==
    /\ parent = NoCtx
    /\ \E ctx \in Contexts :
          /\ parent' = ctx
          /\ argv' = ForkArgv(ctx.home, ctx.lib, ctx.ephemeral)
    /\ UNCHANGED child

(* The child's main calls Server::context() on env::args().                *)
ChildStart ==
    /\ parent # NoCtx /\ child.status = "none"
    /\ child' = Context(argv)
    /\ UNCHANGED <<parent, argv>>

Next == Fork \/ ChildStart

Spec == Init /\ [][Next]_vars

(* Spec section 6: the forked service reconstructs the context it was     *)
(* started with; any deviation would be a usage error and the child exits. *)
ChildGetsParentContext ==
    child.status # "none" => child = Result("ok", parent)
=============================================================================
