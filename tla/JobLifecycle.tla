----------------------------- MODULE JobLifecycle -----------------------------
(***************************************************************************)
(* What a processing job promises to those who read it, whoever runs it:   *)
(* its status follows transition_processing_job, a terminal job never      *)
(* changes, and a COMPLETED job has a whole result (its result data is     *)
(* persisted before the COMPLETED transition).                             *)
(***************************************************************************)
EXTENDS Naturals

CONSTANT JobIds

VARIABLES status, stored  \* status of every job; jobs with a whole result

ProcessingJobStatus == {"PENDING", "RUNNING", "COMPLETED", "FAILED"}

\* _ALLOWED, without CANCELLED, which no code of the repository requests.
Allowed == {<<"PENDING", "RUNNING">>, <<"RUNNING", "COMPLETED">>, <<"RUNNING", "FAILED">>}

LifecycleInit ==
    /\ status = [j \in JobIds |-> "ABSENT"]
    /\ stored = {}

CreateJob(j) ==
    /\ status[j] = "ABSENT"
    /\ status' = [status EXCEPT ![j] = "PENDING"]
    /\ UNCHANGED stored

StoreResult(j) ==
    /\ status[j] = "RUNNING"
    /\ stored' = stored \cup {j}
    /\ UNCHANGED status

Transition(j, requested) ==
    /\ <<status[j], requested>> \in Allowed
    /\ requested = "COMPLETED" => j \in stored
    /\ status' = [status EXCEPT ![j] = requested]
    /\ UNCHANGED stored

LifecycleNext ==
    \E j \in JobIds :
        \/ CreateJob(j)
        \/ StoreResult(j)
        \/ \E requested \in ProcessingJobStatus : Transition(j, requested)

LifecycleSpec == LifecycleInit /\ [][LifecycleNext]_<<status, stored>>

===============================================================================
