------------------------------ MODULE MC_GatesApi ------------------------------
(***************************************************************************)
(* Two security gates of the accept loop, the rate limiter                *)
(* (MC_RateLimiter) and the timed DDoS protector (DdosTimed), and the     *)
(* management API's configuration handlers (MC_ManagementApi) in one      *)
(* model.  They share no variable and no lock; as in MC_ResourcesSecurity,*)
(* Init picks the component that runs (part) and the others stay at their *)
(* initial states, so each one's properties are checked over all of its   *)
(* own behaviours.                                                         *)
(***************************************************************************)
EXTENDS MC_RateLimiter, MC_ManagementApi, TLC

VARIABLE part   \* the component whose steps this behaviour takes

VARIABLES dd, ddGlobal, ddNow, chk, task, manual, ddAdmitted, ddBlocks

\* The DDoS protector: the rate limiter's two addresses, one connection task,
\* at most one connection per IP in a window of two ticks, one-tick base
\* blocks, a per-IP limit of one and a global limit of one concurrent
\* connection, an eviction age of three ticks (above the window), two
\* manual calls of two-tick blocks, and ticks 0 to 3.
Dd == INSTANCE DdosTimed WITH Ips <- MCIps, Tasks <- {"t1"}, Threshold <- 1,
        Window <- 2, BlockBase <- 1, MaxPerIp <- 1, GlobalThreshold <- 1,
        CleanupAge <- 3, ManualDurations <- {2}, MaxManual <- 2, MaxTime <- 3,
        admitted <- ddAdmitted, blocks <- ddBlocks

ddVars == <<dd, ddGlobal, ddNow, chk, task, manual, ddAdmitted, ddBlocks>>

\* The management API when it is not the running part: the server started
\* without authentication.
ParkedApi ==
    /\ cell = MgConfig(FALSE, "none", <<>>, TRUE)
    /\ installed = <<>>

\* The two addresses are interchangeable in every part: nothing compares
\* them, and the DDoS task's ip (CHOOSEn at Init) is never read while the
\* task is free.
IpPerms == Permutations(MCIps)

GaInit ==
    /\ part \in {"rate", "api", "ddos"}
    /\ RlInit
    /\ IF part = "api" THEN ApiInit ELSE ParkedApi
    /\ Dd!DdInit

GaNext ==
    \/ part = "rate" /\ RlNext /\ UNCHANGED <<part, apiVars, ddVars>>
    \/ part = "api" /\ ApiNext /\ UNCHANGED <<part, rlVars, ddVars>>
    \/ part = "ddos" /\ Dd!DdNext /\ UNCHANGED <<part, rlVars, apiVars>>

\* Properties of the DDoS protector, stated in DdosTimed.
DdtTypeOK == Dd!DdtTypeOK
FloodBound == Dd!FloodBound
=============================================================================
