----------------------------- MODULE MCConsumer -----------------------------
EXTENDS Consumer, TLC

CONSTANTS c1, c2, m1, m2, m3

MCConsumers == {c1, c2}
MCMsgs == {m1, m2}
MCKind == (m1 :> "job") @@ (m2 :> "plain")
MCOneConsumer == {c1}
MCOneMsg == {m1}
MCOneKind == m1 :> "job"

Symmetry == Permutations(MCConsumers)
=============================================================================
