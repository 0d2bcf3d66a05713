---------------------------- MODULE MCTemporalRuns ----------------------------
(* Small instances of TemporalRuns for TLC. *)
EXTENDS TemporalRuns

MCProc == Job \X (1..MaxAttempts)

\* For the races of attempts: each job is created, its workflow started and the
\* row stamped, as after CreateAndSubmit, StartAccepted and Stamp.
Started ==
    /\ \E kind \in [Job -> Kinds] :
         jobs = [j \in Job |-> MarkRunJobSubmitted(CreateRunJob(kind[j]))]
    /\ results = [j \in Job |-> NoResult]
    /\ stops = [j \in Job |-> "none"]
    /\ trace = [j \in Job |-> 0]
    /\ age = [j \in Job |-> "fresh"]
    /\ invocations = [j \in Job |-> 0]
    /\ procs = [p \in Proc |-> [Idle EXCEPT !.job = p[1]]]
    /\ workflow = [j \in Job |-> [phase |-> "running", attempt |-> 0, live |-> FALSE]]
    /\ submit = [j \in Job |-> [s \in Submitter |-> "idle"]]
    /\ faults = [crashes |-> 0, zombies |-> 0]

StartedSafety == Started /\ [][Next]_vars
=============================================================================
