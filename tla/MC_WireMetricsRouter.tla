------------------------- MODULE MC_WireMetricsRouter -------------------------
(***************************************************************************)
(* Three components that share no variable and no lock, in one model: the *)
(* SOCKS5 wire peers (MC_Socks5Wire), the metrics registry (Metrics) and   *)
(* router construction and routing (MC_Router).  No step of one touches   *)
(* the state of another, so each one's properties hold in every           *)
(* interleaving with the others exactly when they hold of it alone.  The  *)
(* model therefore picks in Init the component that runs (part) and keeps *)
(* the others at one initial state; every initial state of the running    *)
(* component is explored, with all of its behaviours.                     *)
(***************************************************************************)
EXTENDS MC_Socks5Wire, Metrics, MC_Router

CONSTANTS m1, m2

VARIABLE part   \* the component whose steps this behaviour takes

MCCallers == {m1, m2}

\* The first peer, and an empty configuration in a debug build, stand for
\* a component that does not run in this behaviour.
ParkedWire == WireInit /\ cli = (CHOOSE c \in ClientSpecs : TRUE)
ParkedRouter ==
    /\ RrInit
    /\ cfg = [rules |-> <<>>, ups |-> <<>>, routing |-> FALSE, aclOn |-> FALSE,
              policy |-> CHOOSE p \in PolicyNames : TRUE, acl |-> <<>>]
    /\ build = "debug" /\ pos = 1 /\ routed = None

WmrInit ==
    /\ part \in {"wire", "metrics", "router"}
    /\ IF part = "wire" THEN WireInit ELSE ParkedWire
    /\ IF part = "router" THEN RouterInit ELSE ParkedRouter
    /\ MetInit

WmrNext ==
    \/ part = "wire"    /\ WireNext   /\ UNCHANGED <<part, metVars, routerVars>>
    \/ part = "metrics" /\ MetNext    /\ UNCHANGED <<part, wireVars, routerVars>>
    \/ part = "router"  /\ RouterNext /\ UNCHANGED <<part, wireVars, metVars>>
=============================================================================
