-------------------------- MODULE RuntimeLifecycle --------------------------
(***************************************************************************)
(* What the container manager promises.  svc is the runtime its durable    *)
(* state names (artifact, state generation, whether a container is on),    *)
(* route whether the relay serves it, pend whether a transaction is open.  *)
(* Runtime and route change only inside a transaction and in one order:    *)
(* a runtime is named on once the route has it and off once the route has  *)
(* left it, and a transaction closes only when the two agree.              *)
(***************************************************************************)
EXTENDS Naturals

VARIABLES svc, route, pend

vars == <<svc, route, pend>>

Init == /\ svc = [art |-> 0, gen |-> 0, on |-> FALSE]
        /\ route = "other" /\ pend = FALSE

Begin == /\ ~pend /\ pend' = TRUE
         /\ UNCHANGED <<svc, route>>

Reroute == /\ pend /\ route' \in {"apple", "other"} \ {route}
           /\ UNCHANGED <<svc, pend>>

\* A newer artifact on a fresh generation.
Install == /\ pend /\ route = "apple"
           /\ svc'.art > svc.art /\ svc'.gen = svc.gen + 1 /\ svc'.on
           /\ UNCHANGED <<route, pend>>

Restart == /\ pend /\ route = "apple" /\ svc.art # 0
           /\ svc' = [svc EXCEPT !.on = TRUE]
           /\ UNCHANGED <<route, pend>>

Halt == /\ pend /\ route = "other"
        /\ svc' = [svc EXCEPT !.on = FALSE]
        /\ UNCHANGED <<route, pend>>

Finish == /\ pend /\ svc.on = (route = "apple") /\ pend' = FALSE
          /\ UNCHANGED <<svc, route>>

Next == Begin \/ Reroute \/ Install \/ Restart \/ Halt \/ Finish

Spec == Init /\ [][Next]_vars
=============================================================================
