------------------------ MODULE MC_ServerSmartRouting ------------------------
(***************************************************************************)
(* The connection manager with its security layer (MC_ConnectionManager)  *)
(* and the smart routing manager (MC_SmartRouting), in one model.  The    *)
(* server never builds a SmartRoutingManager (its only constructor call   *)
(* is in the manager's own enable_smart_routing) and the two share no     *)
(* state, so, as in MC_WireMetricsRouter, Init picks the component that   *)
(* runs (part) and the other stays at its initial state.  Each keeps its  *)
(* own fairness, stated of its steps in the composed model: a parked      *)
(* component takes no step, so no fairness is owed to it.                 *)
(***************************************************************************)
EXTENDS MC_ConnectionManager, MC_SmartRouting

VARIABLE part   \* the component whose steps this behaviour takes

SsInit ==
    /\ part \in {"server", "smart"}
    /\ Init /\ SmInit

SsNext ==
    \/ part = "server" /\ Next   /\ UNCHANGED <<part, smVars>>
    \/ part = "smart"  /\ SmNext /\ UNCHANGED <<part, vars>>

SsVars == <<part, vars, smVars>>

\* A step of the running component, as the composed model takes it.
Srv(act) == part = "server" /\ act /\ UNCHANGED <<part, smVars>>
Sm(act)  == part = "smart"  /\ act /\ UNCHANGED <<part, vars>>

\* Fairness and SmFairness, each over the steps of its own component.
SsFairness ==
    /\ WF_SsVars(Srv(SleepEnds))
    /\ \A c \in Conns :
         /\ WF_SsVars(Srv(TaskStart(c))) /\ WF_SsVars(Srv(Finish(c)))
         /\ WF_SsVars(Srv(HandshakeTimeout(c))) /\ WF_SsVars(Srv(RelayEnds(c)))
         /\ WF_SsVars(Srv(ShutdownNotice(c)))
         /\ WF_SsVars(Srv(SessionTimesOut(c)))
    /\ WF_SsVars(Srv(WaitDone)) /\ WF_SsVars(Srv(WaitTimeout))
    /\ WF_SsVars(Srv(Janitor))
    /\ \A i \in 1..MaxLoops : WF_SsVars(Sm(i <= Len(loops) /\ HealthTick(i)))
    /\ \A p \in Probe :
          WF_SsVars(Sm(\E l \in Latencies, ok \in BOOLEAN : ProbeCompletes(p, l, ok)))

SsSpec == SsInit /\ [][SsNext]_SsVars /\ SsFairness
=============================================================================
