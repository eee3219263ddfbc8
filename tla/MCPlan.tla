------------------------------- MODULE MCPlan -------------------------------
(* Small plans for TLC: three steps, or two where two workers share the plan. *)
EXTENDS PlanEngine, TLC

CONSTANTS s1, s2, s3

PlaceIn(order) == [s \in Steps |-> CHOOSE i \in 1..Len(order) : order[i] = s]
PosInOrder == PlaceIn(<<s1, s2, s3>>)

PairDeps == s1 :> {} @@ s2 :> {s1}
JoinDeps == s1 :> {} @@ s2 :> {s1} @@ s3 :> {s1, s2}

NoRetries == [s \in Steps |-> 0]
TwoAttempts == [s \in Steps |-> IF s = s1 THEN 2 ELSE 0]

NoStages == [s \in Steps |-> 0]
TwoStages == [s \in Steps |-> IF s = s1 THEN 1 ELSE IF s = s2 THEN 2 ELSE 0]

\* Workers differ in nothing but their names.
WorkerSymmetry == Permutations(Workers)
=============================================================================
