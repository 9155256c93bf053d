------------------------- MODULE MCSchedulerApply -------------------------
EXTENDS SchedulerApply, TLC

TwoNodes == {1, 2}
TwoModels == {1, 2}

P(len, tp) == [MAX_LEN |-> len, TP |-> tp]

\* One model on each node; the second one sharded.
Spread == (1 :> (1 :> P(1, 1) @@ 2 :> None)) @@ (2 :> (1 :> None @@ 2 :> P(1, 2)))

\* The same with longer contexts and no sharding.
Grown == (1 :> (1 :> P(2, 1) @@ 2 :> None)) @@ (2 :> (1 :> None @@ 2 :> P(2, 1)))

\* Everything on the first node; the first model has two instances.
Packed == (1 :> (1 :> P(1, 2) @@ 2 :> P(1, 1))) @@ (2 :> (1 :> P(1, 1) @@ 2 :> None))

ThreePlans == {Spread, Grown, Packed}
=============================================================================
