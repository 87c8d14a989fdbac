---------------------------- MODULE MCScheduler ----------------------------
(* Instances of Scheduler: two actors and a user thread on two workers.    *)
EXTENDS Scheduler, TLC

CONSTANTS A, B, U, t1, t2, m1, m2, m3

\* U calls A.
OneCall == {<<U, A>>}
\* U calls A, whose handlers call B.
ChainCalls == {<<U, A>>, <<A, B>>}
Symmetry == Permutations(Threads) \cup Permutations(Msgs)
=============================================================================
