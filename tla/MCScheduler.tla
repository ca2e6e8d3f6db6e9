---------------------------- MODULE MCScheduler ----------------------------
(* Scheduler with at most one target and three sources.                    *)
EXTENDS Scheduler, TLC

CONSTANTS t1, s1, s2, s3

OneTarget == {t1}
OneSource == {s1}
ThreeSources == {s1, s2, s3}

Order == t1 :> 1 @@ s1 :> 2 @@ s2 :> 3 @@ s3 :> 4
RankOrder == [i \in Items |-> Order[i]]

FirstTwoDue == {t1, s1} \cap Items
=============================================================================
