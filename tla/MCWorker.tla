------------------------------ MODULE MCWorker ------------------------------
EXTENDS Worker, MCReports

CONSTANTS s1, j1, j2, u1, u2, k1

MCRequirement == {<<>>, <<k1>>}
MCOwnerOf == [u \in Upload |-> s1]

\* One posting is open from the start; the other may be pending.
MCInit ==
    /\ Init
    /\ needs[j1] = <<k1>> /\ approved[j1] /\ ~approved[j2]
    /\ skills[s1] # {k1}

MCSpec == MCInit /\ [][Next]_vars
MCFairSpec == MCSpec /\ Fairness
=============================================================================
