------------------------- MODULE MC_ResourcesSecurity -------------------------
(***************************************************************************)
(* Three components that share no variable and no lock, in one model:   *)
(* the resource manager with its connection pool (MC_ResourceManager),    *)
(* the timed fail2ban detectors (MC_Fail2BanTimed) and a SecretsManager   *)
(* with its file and environment (MC_Secrets).  As in                     *)
(* MC_WireMetricsRouter, Init picks the component that runs (part); the   *)
(* other stays at its initial state, so each one's properties are checked *)
(* over all of its own behaviours.                                        *)
(***************************************************************************)
EXTENDS MC_ResourceManager, MC_Fail2BanTimed, MC_Secrets

VARIABLE part   \* the component whose steps this behaviour takes

\* The secrets manager when it is not the running part: one of its
\* initial states.
ParkedSecrets ==
    /\ env = E3 /\ settings = [encrypt |-> FALSE, useEnv |-> FALSE]
    /\ cache = <<>> /\ file = NoFileV
    /\ saved = NoneV /\ loaded = NoneV /\ lastSave = NoneV

RfInit ==
    /\ part \in {"resource", "fail2ban", "secrets"}
    /\ ResInit /\ F2tInit
    /\ IF part = "secrets" THEN SecInit ELSE ParkedSecrets

RfNext ==
    \/ part = "resource" /\ ResNext /\ UNCHANGED <<part, f2tVars, secVars>>
    \/ part = "fail2ban" /\ F2tNext /\ UNCHANGED <<part, resVars, secVars>>
    \/ part = "secrets" /\ SecNext /\ UNCHANGED <<part, resVars, f2tVars>>

\* Tasks, streams, and the two addresses off the whitelist, are each
\* interchangeable.
RfSymmetry == ResSymmetry \cup Permutations({i1, i2})
=============================================================================
