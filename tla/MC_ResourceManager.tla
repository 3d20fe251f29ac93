------------------------ MODULE MC_ResourceManager ------------------------
(* Three tasks against a budget that fits one of the larger allocations  *)
(* or two small ones, so that an add can overshoot while another caller  *)
(* rolls back; one upstream whose pool keeps two streams, and three      *)
(* streams so that a return can find the pool full.                      *)
EXTENDS ResourceManager, TLC

CONSTANTS t1, t2, t3, s1, s2, s3, k1

MCTasks == {t1, t2, t3}
MCStreams == {s1, s2, s3}
MCKeys == {k1}
ResSymmetry == Permutations(MCTasks) \cup Permutations(MCStreams)
=============================================================================
