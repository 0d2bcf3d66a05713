----------------------- MODULE MCDatasetGeneration -----------------------
EXTENDS DatasetGeneration, TLC

CONSTANTS u1, j1, j2, r1, r2, good

(* One reviewer decides; both jobs ask for the same name.          *)
MCContent == {good}
MCGrade == good :> "VALIDATED"
MCTarget == [j \in Job |-> 1]
=============================================================================
