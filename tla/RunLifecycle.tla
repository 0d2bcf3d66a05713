----------------------------- MODULE RunLifecycle -----------------------------
(* What a user of the platform is promised about one persisted run job and     *)
(* the result published for it, with no executor, lock or session in sight:    *)
(* a job settles at most once, a result is published at most once as partial   *)
(* and then only completed, a job completes only with its result, and nothing  *)
(* is published for a job that was stopped, failed or blocked.  One step may   *)
(* move several jobs: a recovery pass does.                                    *)
CONSTANTS
    Job,
    NeedsResult   \* the kinds of job that publish an evaluation run

VARIABLES kind, status, result   \* functions of Job

lifeVars == <<kind, status, result>>

Open    == {"pending", "running", "awaiting_trace"}
Settled == {"completed", "blocked", "failed", "cancelled"}

LifeInit ==
    /\ status = [j \in Job |-> "absent"]
    /\ result = [j \in Job |-> "none"]

Create(j) ==
    status[j] = "absent" /\ status'[j] = "pending" /\ result'[j] = result[j]

Proceed(j) ==
    /\ status[j] \in Open /\ status'[j] \in Open \ {"pending"}
    /\ result'[j] = result[j] /\ kind'[j] = kind[j]

PublishPart(j) ==
    /\ status[j] \in Open /\ status'[j] = status[j]
    /\ result[j] = "none" /\ result'[j] = "partial" /\ kind'[j] = kind[j]

PublishWhole(j) ==
    /\ status[j] \in Open \cup {"completed"}
    /\ status'[j] \in {status[j], "completed"}
    /\ result'[j] = "complete" /\ kind'[j] = kind[j]

Settle(j) ==
    /\ status[j] \in Open /\ status'[j] \in Settled
    /\ status'[j] = "completed" /\ kind[j] \in NeedsResult => result[j] # "none"
    /\ result'[j] = result[j] /\ kind'[j] = kind[j]

Keep(j) == status'[j] = status[j] /\ result'[j] = result[j] /\ kind'[j] = kind[j]

LifeStep(j) ==
    Create(j) \/ Proceed(j) \/ PublishPart(j) \/ PublishWhole(j) \/ Settle(j) \/ Keep(j)

LifeNext == \A j \in Job : LifeStep(j)
LifeSpec == LifeInit /\ [][LifeNext]_lifeVars
=============================================================================
