--------------------------- MODULE RoutingWitness ---------------------------
(***************************************************************************)
(* A routing switch watched by a client that first inspects the gateway    *)
(* and later asks for External with the generation it saw                  *)
(* (gateway.go GatewayInspect, controller.go                               *)
(* RequestBackendWithIntentAndWitness).  The inspection holds no lock: it  *)
(* reads the state and then the journal.                                   *)
(***************************************************************************)
EXTENDS RoutingSwitch

VARIABLE wit

wvars == <<vars, wit>>

NoWitness == [pc |-> "idle", s |-> NoState]

\* No request is made at the bound on generations: a state there is not
\* worth inspecting.
InspectState ==
  /\ wit.pc = "idle"
  /\ st # NoState /\ st.gen < MaxGen
  /\ wit' = [pc |-> "state", s |-> st]
  /\ UNCHANGED vars

InspectJournal ==
  /\ wit.pc = "state"
  /\ wit' = IF journal.stage = "absent" THEN [wit EXCEPT !.pc = "held"] ELSE NoWitness
  /\ UNCHANGED vars

\* The comparison under the routing lock: the generation alone.
WitnessHolds == wit.pc = "held" /\ st.gen = wit.s.gen

RequestWithWitness(intent) ==
  /\ WitnessHolds
  /\ Request("external", intent)
  /\ wit' = NoWitness

WInit == Init /\ wit = NoWitness

WNext == \/ Next /\ UNCHANGED wit
         \/ InspectState
         \/ InspectJournal
         \/ \E intent \in BOOLEAN : RequestWithWitness(intent)

WSpec == WInit /\ [][WNext]_wvars


=============================================================================
