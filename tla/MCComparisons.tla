---- MODULE MCComparisons ----
(* Three small worlds in one run. In "tabs" the sweepers of two tabs meet over  *)
(* one launch of two arms, with a lost answer and a closed tab; in "unlocked"  *)
(* they do in a browser without Web Locks, and localStorage refuses a write;    *)
(* in "launches" one tab has three launches, of which one arm each starts, and  *)
(* room for two records, and a poll fails.                                      *)
EXTENDS Comparisons, TLC

CONSTANTS FirstLaunch, SecondLaunch, OtherTab, RefusedArm
ASSUME /\ FirstLaunch \in Launch /\ SecondLaunch \in Launch \ {FirstLaunch}
       /\ OtherTab \in Tab \ Launcher /\ RefusedArm \in Arm

VARIABLE world

\* Launch ids are interchangeable: the first two to be used are called so.
InOrder(ids) ==
    /\ ids # {} => FirstLaunch \in ids
    /\ Cardinality(ids) > 1 => SecondLaunch \in ids

MCInit ==
    /\ Init /\ world \in {"tabs", "unlocked", "launches"}
    /\ \A t \in Tab : sweep[t].pc = "closed" <=> (world = "launches" /\ t = OtherTab)
    /\ \A l \in Launch : lock[l] = NoLocks <=> world = "unlocked"

\* What a world leaves out is a fault, or a way that the user or the server need
\* not go: no step that Fairness asks for is kept from taking place.
MCNext ==
    /\ Next /\ UNCHANGED world
    /\ world \in {"tabs", "unlocked"} => used' \subseteq {FirstLaunch} /\ misses' = 0
    /\ world # "unlocked" => full' = 0
    /\ world = "unlocked" => closes' = 0 /\ \A t \in Tab : screen'[t].phase # "panel"
    /\ world = "launches" =>
        /\ InOrder(used') /\ \A t \in Tab : screen'[t].phase # "panel"
        /\ \A l \in Launch : run'[l][RefusedArm] = "none" /\ lost'[l] = 0
        /\ closes' = 0 /\ sweep'[OtherTab].pc = "closed"

MCSpec == MCInit /\ [][MCNext]_<<vars, world>> /\ Fairness
====
