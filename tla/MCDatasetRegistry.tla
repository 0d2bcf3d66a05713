------------------------ MODULE MCDatasetRegistry ------------------------
EXTENDS DatasetRegistry, TLC

CONSTANTS c1, c2, good, fair

(* One record set passes the gate, the other falls into the review band.      *)
MCContent == {good, fair}
MCGrade == good :> "VALIDATED" @@ fair :> "DRAFT"

(* Sound while both clients have both roles.                                  *)
ClientSymmetry == Permutations(Client)
=============================================================================
