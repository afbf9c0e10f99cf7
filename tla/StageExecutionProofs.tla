------------------------- MODULE StageExecutionProofs -------------------------
(***************************************************************************)
(* Proofs about StageExecution, for any pipeline, any number of jobs and   *)
(* faults and any edits.                                                   *)
(*                                                                         *)
(* A workflow takes results over from jobs of earlier workflows that an    *)
(* index shows it.  What makes this safe is that a job keeps its position  *)
(* and lineage, and that a COMPLETED job never changes and has a whole     *)
(* result (TablesOK): what the index says of a COMPLETED job is true       *)
(* however old it is.  RunOK says where the run of a workflow can be with  *)
(* what in its hands, ReadyInv what readiness may rely on.                 *)
(***************************************************************************)
EXTENDS StageExecution, WellFoundedInduction, TLAPS

JobExists(j) == jobs[j] # Absent
Whole(j) == results[j] # Absent /\ results[j].whole

\* The records of the tables and of the index agree.
JobsOK ==
    \A j \in JobIds : JobExists(j) =>
        /\ jobs[j].status = "PENDING" => jobs[j].version = 1
        /\ jobs[j].status = "RUNNING" => jobs[j].version = 2
        /\ jobs[j].status = "COMPLETED" => Whole(j)

ResultsOK ==
    \A j \in JobIds : results[j] # Absent => JobExists(j) /\ jobs[j].status # "PENDING"

IndexOK ==
    \A j \in JobIds : indexed[j] # Absent =>
        /\ JobExists(j)
        /\ jobs[j].position = indexed[j].position
        /\ jobs[j].lineage = indexed[j].lineage
        /\ indexed[j].status = "COMPLETED" => jobs[j].status = "COMPLETED"

TablesOK == JobsOK /\ ResultsOK /\ IndexOK

\* The steps of the service that runs a job.
Serving == {"check", "start", "store", "fail", "complete", "report"}

\* Where the run is, and that it holds nothing of the positions ahead.
RunShape ==
    /\ \A t \in Position : t >= run.position => run.ids[t] = NoJob
    /\ run.pc \in Serving \cup {"find", "load", "create"} => run.position \in JobPositions
    /\ run.pc \in {"review", "waiting"} => run.position = HUMAN_REVIEW
    /\ run.pc \in {"readiness", "apply", "mark"} => run.position = PUBLISHING_READINESS
    /\ run.pc \notin Serving \cup {"load", "failed"} => run.job = NoJob

\* A job that stands for position s in a workflow with these results.
StandsFor(j, s, ids) ==
    /\ j \in JobIds
    /\ JobExists(j)
    /\ jobs[j].position = s
    /\ jobs[j].lineage = new_lineage(s, ids)

Held ==
    \A s \in JobPositions : run.ids[s] # NoJob =>
        StandsFor(run.ids[s], s, run.ids) /\ jobs[run.ids[s]].status = "COMPLETED"

OwnJob ==
    /\ run.pc \in Serving \cup {"load"} => StandsFor(run.job, run.position, run.ids)
    /\ run.pc \in {"check", "start"} => jobs[run.job].status = "PENDING"
    /\ run.pc \in {"store", "fail", "complete"} => jobs[run.job].status = "RUNNING"
    /\ run.pc \in {"load", "report"} => jobs[run.job].status = "COMPLETED"
    /\ run.pc = "store" => results[run.job] = Absent
    /\ run.pc = "fail" => results[run.job] = Absent \/ faults > 0
    /\ run.pc = "complete" => Whole(run.job)

RunOK == RunShape /\ Held /\ OwnJob

IInv == TypeOK /\ TablesOK /\ RunOK /\ OneResultPerLineage /\ GuardLostOnlyByFault

-------------------------------------------------------------------------------
(* The next position.                                                      *)

\* A nonempty set of numbers has a least element.
LEMMA LeastElement ==
    ASSUME NEW S \in SUBSET Nat, S # {}
    PROVE  \E t \in S : \A u \in S : t <= u
<1> DEFINE R == {ss \in Nat \X Nat : ss[1] < ss[2]}
<1>1. IsWellFoundedOn(R, Nat)
  BY NatLessThanWellFounded DEF OpToRel
<1>2. PICK t \in S : \A u \in S : ~(<<u, t>> \in R)
  <2> HIDE DEF R
  <2> QED BY <1>1, WFMin
<1>3. \A u \in S : ~(u < t)
  BY <1>2
<1>4. \A u \in S : t <= u
  BY <1>3
<1> QED
  BY <1>4

\* A nonempty set of job ids has a newest one.
LEMMA LargestElement ==
    ASSUME NEW n \in Nat, NEW S \in SUBSET (1 .. n), S # {}
    PROVE  \E t \in S : \A u \in S : t >= u
<1> DEFINE T == {n - u : u \in S}
<1>1. T \in SUBSET Nat /\ T # {}
  <2>1. \A u \in S : n - u \in Nat
    OBVIOUS
  <2>2. \E u \in S : n - u \in T
    OBVIOUS
  <2> QED
    BY <2>1, <2>2
<1>2. PICK m \in T : \A k \in T : m <= k
  <2> HIDE DEF T
  <2> QED BY <1>1, LeastElement
<1>3. PICK t \in S : m = n - t
  BY <1>2
<1>4. \A u \in S : n - t <= n - u
  BY <1>2, <1>3
<1> QED
  BY <1>4

Moved == {"find", "review", "readiness", "completed"}

\* Advance: the run goes to a later position with nothing but its results.
LEMMA AdvanceRun ==
    ASSUME TypeOK, NEW s \in Position, NEW ids \in [Position -> JobIds \cup {NoJob}],
           \A t \in Position : t > s => ids[t] = NoJob,
           Advance(s, ids)
    PROVE  /\ run' \in Run
           /\ run'.ids = ids
           /\ run'.pc \in Moved
           /\ RunShape'
<1> DEFINE ahead == {t \in Position : t > s /\ ~optional_skip(t, ids)}
           least == CHOOSE t \in ahead : \A u \in ahead : t <= u
<1>1. Length \in Nat \ {0} /\ Position = 1 .. Length
  BY ExecutorAssumption DEF Position
<1>2. run \in Run
  BY DEF TypeOK
<1>3. CASE ahead = {}
  <2>1. run' = [run EXCEPT !.ids = ids, !.job = NoJob, !.position = Length + 1,
                           !.pc = "completed"]
    BY <1>3 DEF Advance
  <2>2. run' \in Run
    <3>1. "completed" \in RunStep /\ NoJob \in JobIds \cup {NoJob} /\ Length + 1 \in 1 .. Length + 1
      BY <1>1 DEF RunStep
    <3> QED
      BY <1>2, <2>1, <3>1 DEF Run
  <2>3. run'.ids = ids /\ run'.pc = "completed" /\ run'.job = NoJob /\ run'.position = Length + 1
    BY <1>2, <2>1 DEF Run
  <2>4. RunShape'
    BY <1>1, <2>3 DEF RunShape, Serving
  <2> QED
    BY <2>2, <2>3, <2>4 DEF Moved
<1>4. CASE ahead # {}
  <2>1. least \in ahead
    <3>1. ahead \in SUBSET Nat
      BY <1>1
    <3>2. \E t \in ahead : \A u \in ahead : t <= u
      <4> HIDE DEF ahead
      <4> QED BY <1>4, <3>1, LeastElement
    <3> QED
      BY <3>2
  <2>2. least \in Position /\ least > s
    BY <2>1
  <2>3. run' = [run EXCEPT !.ids = ids, !.job = NoJob, !.position = least,
                           !.pc = FirstStep(least)]
    BY <1>4 DEF Advance
  <2> HIDE DEF least, ahead
  <2>4. FirstStep(least) \in {"find", "review", "readiness"}
    BY DEF FirstStep
  <2>5. run' \in Run
    <3>1. FirstStep(least) \in RunStep /\ NoJob \in JobIds \cup {NoJob} /\ least \in 1 .. Length + 1
      BY <1>1, <2>2, <2>4 DEF RunStep
    <3> QED
      BY <1>2, <2>3, <3>1 DEF Run
  <2>6. /\ run'.ids = ids /\ run'.pc = FirstStep(least)
        /\ run'.job = NoJob /\ run'.position = least
    BY <1>2, <2>3 DEF Run
  <2>7. /\ FirstStep(least) = "find" => least \in JobPositions
        /\ FirstStep(least) = "review" => least = HUMAN_REVIEW
        /\ FirstStep(least) = "readiness" => least = PUBLISHING_READINESS
    BY <2>2 DEF FirstStep, JobPositions
  <2>8. \A t \in Position : t >= least => ids[t] = NoJob
    BY <1>1, <2>2
  <2>9. RunShape'
    BY <2>4, <2>6, <2>7, <2>8 DEF RunShape, Serving
  <2> QED
    BY <2>4, <2>5, <2>6, <2>9 DEF Moved
<1> QED
  BY <1>3, <1>4

-------------------------------------------------------------------------------
(* How the steps leave the run.                                            *)

\* No job is lost, moved or taken back from COMPLETED.
JobsKept ==
    \A j \in JobIds : JobExists(j) =>
        /\ jobs'[j] # Absent
        /\ jobs'[j].position = jobs[j].position
        /\ jobs'[j].lineage = jobs[j].lineage
        /\ jobs[j].status = "COMPLETED" => jobs'[j].status = "COMPLETED"

\* What a workflow holds is made from what it held before.
LEMMA HeldMore ==
    ASSUME TypeOK, RunOK, JobsKept, run.position \in Position,
           NEW result \in JobIds \cup {NoJob},
           run'.ids = [run.ids EXCEPT ![run.position] = result],
           run.position \in JobPositions /\ result # NoJob =>
               /\ StandsFor(result, run.position, run.ids)
               /\ jobs[result].status = "COMPLETED"
    PROVE  Held'
<1> USE DEF TypeOK
<1>1. SUFFICES ASSUME NEW s \in JobPositions, run'.ids[s] # NoJob
               PROVE  (StandsFor(run.ids[s], s, run.ids) /\ jobs[run.ids[s]].status = "COMPLETED")'
  BY DEF Held
<1>2. s \in Position /\ run.ids \in [Position -> JobIds \cup {NoJob}]
  BY DEF JobPositions, Run
<1>3. Position \subseteq Nat /\ run.position \in Nat
  BY ExecutorAssumption DEF Position
<1>4. s <= run.position
  <2>1. CASE s # run.position
    <3>1. run.ids[s] # NoJob
      BY <1>1, <1>2, <2>1
    <3> QED
      BY <1>2, <1>3, <3>1 DEF RunOK, RunShape
  <2> QED
    BY <1>3, <1>2, <2>1
<1>5. new_lineage(s, run'.ids) = new_lineage(s, run.ids)
  <2>1. \A u \in Lineage[s] : u \in Position /\ u < s
    BY <1>2, ExecutorAssumption
  <2>2. \A u \in Position : u \in Lineage[s] => run'.ids[u] = run.ids[u]
    BY <1>2, <1>3, <1>4, <2>1
  <2> QED
    BY <2>2 DEF new_lineage
<1>6. StandsFor(run'.ids[s], s, run.ids) /\ jobs[run'.ids[s]].status = "COMPLETED"
  <2>1. CASE s = run.position
    BY <1>1, <1>2, <2>1
  <2>2. CASE s # run.position
    BY <1>1, <1>2, <2>2 DEF RunOK, Held
  <2> QED
    BY <2>1, <2>2
<1> QED
  BY <1>5, <1>6 DEF StandsFor, JobsKept, JobExists, new_lineage

LEMMA HeldKept ==
    ASSUME RunOK, JobsKept, run'.ids = run.ids
    PROVE  Held'
BY DEF RunOK, Held, JobsKept, StandsFor, JobExists, new_lineage

\* The run is at a stage of its own or has ended.
LEMMA RaiseKeeps ==
    ASSUME TypeOK, RunOK, JobsKept, Raise
    PROVE  /\ run' \in Run
           /\ RunOK'
           /\ run'.pc \in Moved \cup {"failed"}
<1>1. run \in Run
  BY DEF TypeOK
<1>2. CASE run.position \in OPTIONAL_STAGES
  <2>1. Advance(run.position, run.ids)
    BY <1>2 DEF Raise
  <2>2. run.position \in Position /\ run.ids \in [Position -> JobIds \cup {NoJob}]
    BY <1>1, <1>2, ExecutorAssumption DEF JobPositions, Run
  <2>3. \A t \in Position : t > run.position => run.ids[t] = NoJob
    BY <2>2, ExecutorAssumption DEF Position, RunOK, RunShape
  <2>4. /\ run' \in Run /\ run'.ids = run.ids
        /\ run'.pc \in Moved /\ RunShape'
    BY <2>1, <2>2, <2>3, AdvanceRun
  <2>5. Held'
    BY <2>4, HeldKept
  <2> QED
    BY <2>4, <2>5 DEF RunOK, OwnJob, Moved, Serving
<1>3. CASE run.position \notin OPTIONAL_STAGES
  <2>1. run' = [run EXCEPT !.pc = "failed"]
    BY <1>3 DEF Raise, Goto
  <2>2. /\ run' \in Run /\ run'.ids = run.ids
        /\ run'.pc = "failed" /\ run'.position = run.position
    BY <1>1, <2>1 DEF Run, RunStep
  <2>3. Held'
    BY <2>2, HeldKept
  <2>4. RunShape'
    BY <2>2 DEF RunOK, RunShape, Serving
  <2> QED
    BY <2>2, <2>3, <2>4 DEF RunOK, OwnJob, Serving
<1> QED
  BY <1>2, <1>3

LEMMA CompleteKeeps ==
    ASSUME TypeOK, RunOK, JobsKept, run.position \in Position,
           NEW result \in JobIds \cup {NoJob},
           run.position \in JobPositions /\ result # NoJob =>
               /\ StandsFor(result, run.position, run.ids)
               /\ jobs[result].status = "COMPLETED",
           Complete(result)
    PROVE  /\ run' \in Run
           /\ RunOK'
           /\ run'.pc \in Moved
<1> DEFINE ids == [run.ids EXCEPT ![run.position] = result]
<1>1. run.ids \in [Position -> JobIds \cup {NoJob}] /\ ids \in [Position -> JobIds \cup {NoJob}]
  BY DEF TypeOK, Run
<1>2. \A t \in Position : t > run.position => ids[t] = NoJob
  BY <1>1, ExecutorAssumption DEF Position, RunOK, RunShape
<1>3. Advance(run.position, ids)
  BY DEF Complete
<1>4. run' \in Run /\ run'.ids = ids /\ run'.pc \in Moved /\ RunShape'
  <2> HIDE DEF ids
  <2> QED BY <1>1, <1>2, <1>3, AdvanceRun
<1>5. Held'
  BY <1>4, HeldMore
<1> QED
  BY <1>4, <1>5 DEF RunOK, OwnJob, Moved, Serving

-------------------------------------------------------------------------------
(* How the steps leave the tables.                                         *)

LEMMA TablesUnchanged ==
    ASSUME TablesOK, OneResultPerLineage, UNCHANGED <<jobs, indexed, results>>
    PROVE  TablesOK' /\ JobsKept /\ OneResultPerLineage'
BY DEF TablesOK, JobsOK, ResultsOK, IndexOK, JobExists, Whole, JobsKept, OneResultPerLineage

\* A transition of a job that JobLifecycle allows.
LEMMA JobUpdated ==
    ASSUME TypeOK, TablesOK, OneResultPerLineage,
           NEW j \in JobIds, NEW status, NEW reference \in BOOLEAN, NEW expected,
           CanUpdate(j, expected), Update(j, status, reference, expected),
           <<jobs[j].status, status, expected>> \in
               {<<"PENDING", "RUNNING", 1>>, <<"RUNNING", "COMPLETED", 2>>, <<"RUNNING", "FAILED", 2>>},
           status = "COMPLETED" => Whole(j),
           UNCHANGED <<indexed, results>>
    PROVE  /\ jobs' \in [JobIds -> ProcessingJob \cup {Absent}]
           /\ jobs'[j].status = status
           /\ jobs' = [jobs EXCEPT ![j] = jobs'[j]]
           /\ TablesOK' /\ JobsKept /\ OneResultPerLineage'
<1>1. jobs \in [JobIds -> ProcessingJob \cup {Absent}] /\ jobs[j] \in ProcessingJob
  BY DEF TypeOK, CanUpdate
<1> DEFINE new == [jobs[j] EXCEPT !.status = status, !.reference = reference,
                                  !.version = expected + 1]
<1>2. new \in ProcessingJob
  <2>1. status \in {"PENDING", "RUNNING", "COMPLETED", "FAILED"} /\ expected + 1 \in Nat
    OBVIOUS
  <2> QED
    BY <1>1, <2>1 DEF ProcessingJob
<1>3. jobs' = [jobs EXCEPT ![j] = new]
  BY <1>1 DEF Update
<1>4. /\ new.status = status /\ new.version = expected + 1
      /\ new.position = jobs[j].position /\ new.lineage = jobs[j].lineage
  BY <1>1 DEF ProcessingJob
<1>5. new # Absent
  BY <1>2 DEF ProcessingJob, Absent
<1> HIDE DEF new
<1>6. jobs'[j] = new /\ \A k \in JobIds : k # j => jobs'[k] = jobs[k]
  BY <1>1, <1>3
<1>7. JobsKept
  BY <1>4, <1>5, <1>6 DEF JobsKept, JobExists
<1>8. JobsOK'
  BY <1>4, <1>6 DEF TablesOK, JobsOK, JobExists, Whole
<1>9. ResultsOK'
  BY <1>4, <1>5, <1>6 DEF TablesOK, ResultsOK, JobExists
<1>10. IndexOK'
  BY <1>7 DEF TablesOK, IndexOK, JobsKept, JobExists
<1>11. OneResultPerLineage'
  BY <1>4, <1>6 DEF OneResultPerLineage
<1> QED
  BY <1>1, <1>2, <1>3, <1>4, <1>6, <1>7, <1>8, <1>9, <1>10, <1>11 DEF TablesOK

\* GuardLostOnlyByFault survives a step that leaves its job only if it has
\* stored nothing, is COMPLETED or met a fault.
LEMMA GuardKept ==
    ASSUME TypeOK, TablesOK, GuardLostOnlyByFault, JobsKept,
           faults' \in Nat, faults' >= faults, UNCHANGED results,
           run.pc \notin Ended /\ run.job \in JobIds =>
               \/ results[run.job] = Absent
               \/ jobs'[run.job].status = "COMPLETED"
               \/ faults' > 0
               \/ run'.pc \notin Ended /\ run'.job = run.job
    PROVE  GuardLostOnlyByFault'
<1>1. SUFFICES ASSUME NEW j \in JobIds, results[j] # Absent, jobs'[j].position \in UNIQUE,
                      jobs'[j].status # "COMPLETED", run'.pc \in Ended \/ run'.job # j
               PROVE  faults' > 0
  BY DEF GuardLostOnlyByFault
<1>2. jobs[j].position \in UNIQUE /\ jobs[j].status # "COMPLETED"
  BY <1>1 DEF TablesOK, ResultsOK, JobsKept, JobExists
<1>3. CASE run.pc \in Ended \/ run.job # j
  BY <1>1, <1>2, <1>3 DEF GuardLostOnlyByFault, TypeOK
<1>4. CASE ~(run.pc \in Ended \/ run.job # j)
  BY <1>1, <1>4
<1> QED
  BY <1>3, <1>4

LEMMA FaultsGrow ==
    ASSUME TypeOK, Fault
    PROVE  faults' \in Nat /\ faults' > 0 /\ faults' >= faults
BY DEF TypeOK, Fault

\* A step that leaves the jobs and the results alone.
LEMMA RunMoves ==
    ASSUME IInv, UNCHANGED <<jobs, indexed, results>>,
           product' \in [version : Nat, status : {"DRAFT", "REVIEW_REQUIRED", "READY_TO_PUBLISH"}],
           evidence' \in Nat, resultIndexed' \subseteq JobIds,
           reviews' \in [JobIds -> {"NONE", "OPEN", "COMPLETED"}],
           faults' \in Nat, faults' >= faults,
           run' \in Run, RunOK',
           run.pc \notin Ended /\ run.job \in JobIds =>
               \/ results[run.job] = Absent
               \/ jobs[run.job].status = "COMPLETED"
               \/ faults' > 0
               \/ run'.pc \notin Ended /\ run'.job = run.job
    PROVE  IInv'
<1>1. TablesOK' /\ JobsKept /\ OneResultPerLineage'
  BY TablesUnchanged DEF IInv
<1>2. TypeOK'
  BY DEF IInv, TypeOK
<1>3. GuardLostOnlyByFault'
  BY <1>1, GuardKept DEF IInv
<1> QED
  BY <1>1, <1>2, <1>3 DEF IInv

\* The same for a step that raises or completes the stage.
LEMMA Moves ==
    ASSUME IInv, UNCHANGED <<jobs, indexed, results, evidence, resultIndexed>>,
           product' \in [version : Nat, status : {"DRAFT", "REVIEW_REQUIRED", "READY_TO_PUBLISH"}],
           reviews' \in [JobIds -> {"NONE", "OPEN", "COMPLETED"}],
           Fault \/ UNCHANGED faults,
           \/ Raise
           \/ /\ run.position \in Position
              /\ \E result \in JobIds \cup {NoJob} :
                    /\ Complete(result)
                    /\ run.position \in JobPositions /\ result # NoJob =>
                           /\ StandsFor(result, run.position, run.ids)
                           /\ jobs[result].status = "COMPLETED",
           run.job \in JobIds =>
               \/ results[run.job] = Absent
               \/ jobs[run.job].status = "COMPLETED"
               \/ Fault
    PROVE  IInv'
<1>1. JobsKept
  BY TablesUnchanged DEF IInv
<1>2. run' \in Run /\ RunOK'
  BY <1>1, RaiseKeeps, CompleteKeeps DEF IInv
<1>3. faults' \in Nat /\ faults' >= faults /\ (Fault => faults' > 0)
  BY FaultsGrow DEF IInv, TypeOK
<1>4. evidence' \in Nat /\ resultIndexed' \subseteq JobIds
  BY DEF IInv, TypeOK
<1> QED
  BY <1>2, <1>3, <1>4, RunMoves

-------------------------------------------------------------------------------
(* The steps of execute up to the service.                                 *)

LEMMA FindStep ==
    ASSUME IInv, find_compatible_job
    PROVE  IInv'
<1>1. /\ run \in Run /\ run.pc = "find" /\ run.position \in JobPositions /\ run.job = NoJob
      /\ NoJob \notin JobIds
  BY DEF IInv, TypeOK, find_compatible_job, RunOK, RunShape, Serving, NoJob, JobIds
<1>2. /\ UNCHANGED <<product, evidence, jobs, indexed, results, resultIndexed, reviews>>
      /\ JobsKept
  BY TablesUnchanged DEF find_compatible_job, IInv
<1>3. CASE Fault /\ Raise
  BY <1>1, <1>2, <1>3, Moves DEF IInv, TypeOK
<1>4. CASE UNCHANGED faults /\ compatible = {} /\ run' = [run EXCEPT !.pc = "create"]
  <2>1. /\ run' \in Run /\ run'.pc = "create" /\ run'.ids = run.ids
        /\ run'.position = run.position /\ run'.job = NoJob
    BY <1>1, <1>4 DEF Run, RunStep
  <2>2. RunShape' /\ OwnJob'
    BY <1>1, <2>1 DEF RunShape, OwnJob, Serving, IInv, RunOK
  <2>3. Held'
    BY <1>2, <2>1, HeldKept DEF IInv
  <2> QED
    BY <1>1, <1>2, <1>4, <2>1, <2>2, <2>3, RunMoves DEF IInv, TypeOK, RunOK
<1>5. CASE /\ UNCHANGED faults
           /\ compatible # {}
           /\ run' = [run EXCEPT !.pc = "load",
                                 !.job = CHOOSE j \in compatible : \A k \in compatible : j >= k]
  <2> DEFINE newest == CHOOSE j \in compatible : \A k \in compatible : j >= k
  <2>1. newest \in compatible
    <3>1. compatible \in SUBSET (1 .. MaxJobs) /\ MaxJobs \in Nat
      BY ExecutorAssumption DEF compatible, JobIds
    <3>2. \E j \in compatible : \A k \in compatible : j >= k
      BY <1>5, <3>1, LargestElement
    <3> QED
      BY <3>2
  <2>2. StandsFor(newest, run.position, run.ids) /\ jobs[newest].status = "COMPLETED"
    BY <2>1 DEF compatible, reusable, IInv, TablesOK, IndexOK, StandsFor
  <2>3. newest \in JobIds
    BY <2>2 DEF StandsFor
  <2> HIDE DEF newest
  <2>4. /\ run' \in Run /\ run'.pc = "load" /\ run'.ids = run.ids
        /\ run'.position = run.position /\ run'.job = newest
    BY <1>1, <1>5, <2>3 DEF Run, RunStep, newest
  <2>5. RunShape'
    BY <1>1, <2>4 DEF RunShape, Serving, IInv, RunOK
  <2>6. OwnJob'
    BY <1>2, <2>2, <2>4 DEF OwnJob, Serving, StandsFor, JobExists, new_lineage
  <2>7. Held'
    BY <1>2, <2>4, HeldKept DEF IInv
  <2> QED
    BY <1>1, <1>2, <1>5, <2>4, <2>5, <2>6, <2>7, RunMoves DEF IInv, TypeOK, RunOK
<1> QED
  BY <1>3, <1>4, <1>5 DEF find_compatible_job

LEMMA LoadStep ==
    ASSUME IInv, load_result
    PROVE  IInv'
<1>1. /\ run.position \in Position /\ run.position \in JobPositions
      /\ StandsFor(run.job, run.position, run.ids) /\ jobs[run.job].status = "COMPLETED"
  BY DEF IInv, load_result, RunOK, RunShape, OwnJob, Serving, JobPositions
<1>2. /\ UNCHANGED <<product, evidence, jobs, indexed, results, resultIndexed, reviews>>
      /\ Fault \/ UNCHANGED faults
      /\ Raise \/ Complete(run.job)
  BY DEF load_result
<1> QED
  BY <1>1, <1>2, Moves DEF IInv, TypeOK, StandsFor

\* A new job has no result yet and stands for the run's position.
LEMMA JobCreated ==
    ASSUME IInv, NEW j \in JobIds, jobs[j] = Absent, run.position \in JobPositions,
           jobs' = [jobs EXCEPT ![j] = NewJob], UNCHANGED <<indexed, results>>
    PROVE  /\ jobs' \in [JobIds -> ProcessingJob \cup {Absent}]
           /\ TablesOK' /\ JobsKept /\ OneResultPerLineage'
           /\ results[j] = Absent
           /\ jobs'[j] # Absent /\ jobs'[j].status = "PENDING"
           /\ jobs'[j].position = run.position
           /\ jobs'[j].lineage = new_lineage(run.position, run.ids)
<1>1. jobs \in [JobIds -> ProcessingJob \cup {Absent}] /\ run \in Run
  BY DEF IInv, TypeOK
<1>2. NewJob \in ProcessingJob
  <2>1. new_lineage(run.position, run.ids) \in [Position -> JobIds \cup {NoJob}]
    BY <1>1 DEF new_lineage, Run
  <2> QED
    BY <2>1 DEF NewJob, ProcessingJob
<1>3. /\ NewJob.status = "PENDING" /\ NewJob.version = 1
      /\ NewJob.position = run.position
      /\ NewJob.lineage = new_lineage(run.position, run.ids)
  BY DEF NewJob
<1>4. NewJob # Absent
  BY <1>2 DEF ProcessingJob, Absent
<1>5. jobs'[j] = NewJob /\ \A k \in JobIds : k # j => jobs'[k] = jobs[k]
  BY <1>1
<1>6. JobsKept
  BY <1>5 DEF JobsKept, JobExists
<1>7. results[j] = Absent /\ indexed[j] = Absent
  BY DEF IInv, TablesOK, ResultsOK, IndexOK, JobExists
<1>8. JobsOK'
  BY <1>3, <1>5 DEF IInv, TablesOK, JobsOK, JobExists, Whole
<1>9. ResultsOK'
  BY <1>5, <1>7 DEF IInv, TablesOK, ResultsOK, JobExists
<1>10. IndexOK'
  BY <1>6 DEF IInv, TablesOK, IndexOK, JobsKept, JobExists
<1>11. OneResultPerLineage'
  BY <1>5, <1>7 DEF IInv, OneResultPerLineage
<1> QED
  BY <1>1, <1>2, <1>3, <1>4, <1>5, <1>6, <1>7, <1>8, <1>9, <1>10, <1>11 DEF TablesOK

\* A step that changes a job and at most the run and the faults.
LEMMA JobStep ==
    ASSUME IInv, jobs' \in [JobIds -> ProcessingJob \cup {Absent}],
           TablesOK', JobsKept, OneResultPerLineage', run' \in Run, RunOK',
           faults' \in Nat, faults' >= faults,
           UNCHANGED <<product, evidence, indexed, results, resultIndexed, reviews>>,
           run.pc \notin Ended /\ run.job \in JobIds =>
               \/ results[run.job] = Absent
               \/ jobs'[run.job].status = "COMPLETED"
               \/ faults' > 0
               \/ run'.pc \notin Ended /\ run'.job = run.job
    PROVE  IInv'
<1>1. TypeOK'
  BY DEF IInv, TypeOK
<1>2. GuardLostOnlyByFault'
  BY GuardKept DEF IInv
<1> QED
  BY <1>1, <1>2 DEF IInv

LEMMA CreateStep ==
    ASSUME IInv, create_job
    PROVE  IInv'
<1>1. /\ run \in Run /\ run.pc = "create" /\ run.position \in JobPositions /\ run.job = NoJob
      /\ NoJob \notin JobIds
  BY DEF IInv, TypeOK, create_job, RunOK, RunShape, Serving, NoJob, JobIds
<1>2. UNCHANGED <<product, evidence, indexed, results, resultIndexed, reviews>>
  BY DEF create_job
<1>3. PICK j \in JobIds :
         /\ jobs[j] = Absent
         /\ \/ /\ jobs' = [jobs EXCEPT ![j] = NewJob]
               /\ run' = [run EXCEPT !.pc = "check", !.job = j]
               /\ UNCHANGED faults
            \/ /\ Fault /\ Raise
               /\ jobs' = [jobs EXCEPT ![j] = NewJob] \/ UNCHANGED jobs
  BY DEF create_job
<1>4. CASE Fault /\ Raise /\ UNCHANGED jobs
  BY <1>1, <1>2, <1>4, Moves DEF IInv, TypeOK
<1>5. ASSUME jobs' = [jobs EXCEPT ![j] = NewJob]
      PROVE  /\ jobs' \in [JobIds -> ProcessingJob \cup {Absent}]
             /\ TablesOK' /\ JobsKept /\ OneResultPerLineage'
             /\ results[j] = Absent
             /\ jobs'[j] # Absent /\ jobs'[j].status = "PENDING"
             /\ jobs'[j].position = run.position
             /\ jobs'[j].lineage = new_lineage(run.position, run.ids)
  BY <1>1, <1>2, <1>3, <1>5, JobCreated
<1>6. CASE Fault /\ Raise /\ jobs' = [jobs EXCEPT ![j] = NewJob]
  <2>1. run' \in Run /\ RunOK'
    BY <1>5, <1>6, RaiseKeeps DEF IInv
  <2>2. faults' \in Nat /\ faults' >= faults
    BY <1>6, FaultsGrow DEF IInv
  <2> QED
    BY <1>1, <1>2, <1>5, <1>6, <2>1, <2>2, JobStep
<1>7. CASE /\ jobs' = [jobs EXCEPT ![j] = NewJob]
           /\ run' = [run EXCEPT !.pc = "check", !.job = j]
           /\ UNCHANGED faults
  <2>1. /\ run' \in Run /\ run'.pc = "check" /\ run'.ids = run.ids
        /\ run'.position = run.position /\ run'.job = j
    BY <1>1, <1>7 DEF Run, RunStep
  <2>2. RunShape'
    BY <1>1, <2>1 DEF RunShape, Serving, IInv, RunOK
  <2>3. OwnJob'
    BY <1>5, <1>7, <2>1 DEF OwnJob, Serving, StandsFor, JobExists, new_lineage
  <2>4. Held'
    BY <1>5, <1>7, <2>1, HeldKept DEF IInv
  <2>5. RunOK'
    BY <2>2, <2>3, <2>4 DEF RunOK
  <2>6. faults' \in Nat /\ faults' >= faults
    BY <1>7 DEF IInv, TypeOK
  <2> QED
    BY <1>1, <1>2, <1>5, <1>7, <2>1, <2>5, <2>6, JobStep
<1> QED
  BY <1>3, <1>4, <1>6, <1>7

-------------------------------------------------------------------------------
(* The steps of the service.                                               *)

LEMMA AtService ==
    ASSUME IInv, run.pc \in Serving
    PROVE  /\ run \in Run /\ run.position \in Position /\ run.position \in JobPositions
           /\ run.job \in JobIds
           /\ jobs[run.job] \in ProcessingJob
           /\ StandsFor(run.job, run.position, run.ids)
           /\ run.pc \notin Ended
           /\ jobs[run.job].status = "PENDING" => results[run.job] = Absent
BY DEF IInv, TypeOK, TablesOK, ResultsOK, RunOK, RunShape, OwnJob, StandsFor, JobExists,
       Serving, Ended, JobPositions

LEMMA CheckStep ==
    ASSUME IInv, check_job
    PROVE  IInv'
<1>1. /\ run.pc = "check" /\ run.pc \in Serving
      /\ UNCHANGED <<product, evidence, jobs, indexed, results, resultIndexed, reviews>>
  BY DEF check_job, Serving
<1>2. /\ run \in Run /\ run.position \in JobPositions /\ run.job \in JobIds
      /\ StandsFor(run.job, run.position, run.ids)
      /\ jobs[run.job].status = "PENDING" /\ results[run.job] = Absent
  BY <1>1, AtService DEF IInv, RunOK, OwnJob
<1>3. CASE Raise /\ (Fault \/ UNCHANGED faults)
  BY <1>1, <1>2, <1>3, Moves DEF IInv, TypeOK
<1>4. CASE run' = [run EXCEPT !.pc = "start", !.seen = product.version] /\ UNCHANGED faults
  <2>1. product.version \in Nat
    BY DEF IInv, TypeOK
  <2>2. /\ run' \in Run /\ run'.pc = "start" /\ run'.ids = run.ids
        /\ run'.position = run.position /\ run'.job = run.job
    BY <1>2, <1>4, <2>1 DEF Run, RunStep
  <2>3. JobsKept
    BY <1>1, TablesUnchanged DEF IInv
  <2>4. RunShape' /\ OwnJob'
    BY <1>1, <1>2, <2>2 DEF RunShape, OwnJob, Serving, IInv, RunOK, StandsFor, JobExists, new_lineage
  <2>5. Held'
    BY <2>2, <2>3, HeldKept DEF IInv
  <2> QED
    BY <1>1, <1>2, <1>4, <2>2, <2>4, <2>5, RunMoves DEF IInv, TypeOK, RunOK
<1> QED
  BY <1>3, <1>4 DEF check_job

LEMMA StartStep ==
    ASSUME IInv, start_job
    PROVE  IInv'
<1>1. /\ run.pc = "start" /\ run.pc \in Serving
      /\ UNCHANGED <<product, evidence, indexed, results, resultIndexed, reviews>>
  BY DEF start_job, Serving
<1>2. /\ run \in Run /\ run.position \in JobPositions /\ run.job \in JobIds
      /\ StandsFor(run.job, run.position, run.ids)
      /\ jobs[run.job].status = "PENDING" /\ results[run.job] = Absent
  BY <1>1, AtService DEF IInv, RunOK, OwnJob
<1>3. CASE Raise /\ UNCHANGED jobs /\ (Fault \/ UNCHANGED faults)
  BY <1>1, <1>2, <1>3, Moves DEF IInv, TypeOK
<1>4. ASSUME CanUpdate(run.job, 1), Update(run.job, "RUNNING", FALSE, 1)
      PROVE  /\ jobs' \in [JobIds -> ProcessingJob \cup {Absent}]
             /\ jobs'[run.job].status = "RUNNING"
             /\ TablesOK' /\ JobsKept /\ OneResultPerLineage'
  <2>1. <<jobs[run.job].status, "RUNNING", 1>> = <<"PENDING", "RUNNING", 1>>
    BY <1>2
  <2>2. FALSE \in BOOLEAN /\ "RUNNING" # "COMPLETED"
    OBVIOUS
  <2> QED
    BY <1>1, <1>2, <1>4, <2>1, <2>2, JobUpdated DEF IInv
<1>5. CASE Fault /\ Raise /\ CanUpdate(run.job, 1) /\ Update(run.job, "RUNNING", FALSE, 1)
  <2>1. run' \in Run /\ RunOK'
    BY <1>4, <1>5, RaiseKeeps DEF IInv
  <2>2. faults' \in Nat /\ faults' >= faults
    BY <1>5, FaultsGrow DEF IInv
  <2> QED
    BY <1>1, <1>2, <1>4, <1>5, <2>1, <2>2, JobStep
<1>6. CASE /\ UNCHANGED faults /\ CanUpdate(run.job, 1)
           /\ Update(run.job, "RUNNING", FALSE, 1) /\ Goto("store")
  <2>1. /\ run' \in Run /\ run'.pc = "store" /\ run'.ids = run.ids
        /\ run'.position = run.position /\ run'.job = run.job
    BY <1>2, <1>6 DEF Run, RunStep, Goto
  <2>2. RunShape'
    BY <1>2, <2>1 DEF RunShape, Serving, IInv, RunOK
  <2>3. StandsFor(run.job, run.position, run.ids)'
    BY <1>2, <1>4, <1>6, <2>1 DEF StandsFor, JobsKept, JobExists, new_lineage
  <2>4. OwnJob'
    BY <1>1, <1>2, <1>4, <1>6, <2>1, <2>3 DEF OwnJob, Serving
  <2>5. RunOK'
    BY <1>4, <1>6, <2>1, <2>2, <2>4, HeldKept DEF IInv, RunOK
  <2>6. faults' \in Nat /\ faults' >= faults
    BY <1>6 DEF IInv, TypeOK
  <2> QED
    BY <1>1, <1>2, <1>4, <1>6, <2>1, <2>5, <2>6, JobStep
<1> QED
  BY <1>3, <1>5, <1>6 DEF start_job, MaybeUpdate

LEMMA FailStep ==
    ASSUME IInv, fail_job
    PROVE  IInv'
<1>1. /\ run.pc = "fail" /\ run.pc \in Serving /\ Raise
      /\ UNCHANGED <<product, evidence, indexed, results, resultIndexed, reviews>>
      /\ Fault \/ UNCHANGED faults
  BY DEF fail_job, Serving
<1>2. /\ run \in Run /\ run.position \in JobPositions /\ run.job \in JobIds
      /\ jobs[run.job].status = "RUNNING"
      /\ results[run.job] = Absent \/ faults > 0
  BY <1>1, AtService DEF IInv, RunOK, OwnJob
<1>3. faults' \in Nat /\ faults' >= faults
  BY <1>1, FaultsGrow DEF IInv, TypeOK
<1>4. results[run.job] = Absent \/ faults' > 0
  BY <1>2, <1>3 DEF IInv, TypeOK
<1>5. CASE UNCHANGED jobs
  <2>1. run' \in Run /\ RunOK'
    BY <1>1, <1>5, TablesUnchanged, RaiseKeeps DEF IInv
  <2> QED
    BY <1>1, <1>3, <1>4, <1>5, <2>1, RunMoves DEF IInv, TypeOK
<1>6. CASE CanUpdate(run.job, 2) /\ Update(run.job, "FAILED", FALSE, 2)
  <2>1. /\ <<jobs[run.job].status, "FAILED", 2>> = <<"RUNNING", "FAILED", 2>>
        /\ FALSE \in BOOLEAN /\ "FAILED" # "COMPLETED"
    BY <1>2
  <2>2. /\ jobs' \in [JobIds -> ProcessingJob \cup {Absent}]
        /\ TablesOK' /\ JobsKept /\ OneResultPerLineage'
    BY <1>1, <1>2, <1>6, <2>1, JobUpdated DEF IInv
  <2>3. run' \in Run /\ RunOK'
    BY <1>1, <2>2, RaiseKeeps DEF IInv
  <2> QED
    BY <1>1, <1>3, <1>4, <2>2, <2>3, JobStep
<1> QED
  BY <1>5, <1>6 DEF fail_job, MaybeUpdate

LEMMA CompleteStep ==
    ASSUME IInv, complete_job
    PROVE  IInv'
<1>1. /\ run.pc = "complete" /\ run.pc \in Serving
      /\ UNCHANGED <<product, evidence, indexed, results, resultIndexed, reviews>>
  BY DEF complete_job, Serving
<1>2. /\ run \in Run /\ run.position \in JobPositions /\ run.job \in JobIds
      /\ StandsFor(run.job, run.position, run.ids)
      /\ jobs[run.job].status = "RUNNING" /\ Whole(run.job) /\ JobExists(run.job)
  BY <1>1, AtService DEF IInv, RunOK, OwnJob, StandsFor
<1>3. ASSUME CanUpdate(run.job, 2), Update(run.job, "COMPLETED", TRUE, 2)
      PROVE  /\ jobs' \in [JobIds -> ProcessingJob \cup {Absent}]
             /\ jobs'[run.job].status = "COMPLETED"
             /\ TablesOK' /\ JobsKept /\ OneResultPerLineage'
  <2>1. <<jobs[run.job].status, "COMPLETED", 2>> = <<"RUNNING", "COMPLETED", 2>>
    BY <1>2
  <2> QED
    BY <1>1, <1>2, <1>3, <2>1, JobUpdated DEF IInv
<1>4. CanUpdate(run.job, 2)
  BY <1>2 DEF IInv, TablesOK, JobsOK, CanUpdate, JobExists
<1>5. CASE Fault /\ Raise /\ UNCHANGED jobs
  BY <1>1, <1>5, Moves DEF IInv, TypeOK
<1>6. CASE Fault /\ Raise /\ Update(run.job, "COMPLETED", TRUE, 2)
  <2>1. run' \in Run /\ RunOK'
    BY <1>3, <1>4, <1>6, RaiseKeeps DEF IInv
  <2>2. faults' \in Nat /\ faults' >= faults
    BY <1>6, FaultsGrow DEF IInv
  <2> QED
    BY <1>1, <1>3, <1>4, <1>6, <2>1, <2>2, JobStep
<1>7. CASE UNCHANGED faults /\ Update(run.job, "COMPLETED", TRUE, 2) /\ Goto("report")
  <2>1. /\ run' \in Run /\ run'.pc = "report" /\ run'.ids = run.ids
        /\ run'.position = run.position /\ run'.job = run.job
    BY <1>2, <1>7 DEF Run, RunStep, Goto
  <2>2. RunShape'
    BY <1>2, <2>1 DEF RunShape, Serving, IInv, RunOK
  <2>3. StandsFor(run.job, run.position, run.ids)'
    BY <1>2, <1>3, <1>4, <1>7, <2>1 DEF StandsFor, JobsKept, JobExists, new_lineage
  <2>4. OwnJob'
    BY <1>3, <1>4, <1>7, <2>1, <2>3 DEF OwnJob, Serving
  <2>5. RunOK'
    BY <1>3, <1>4, <1>7, <2>1, <2>2, <2>4, HeldKept DEF IInv, RunOK
  <2>6. faults' \in Nat /\ faults' >= faults
    BY <1>7 DEF IInv, TypeOK
  <2> QED
    BY <1>1, <1>3, <1>4, <1>7, <2>1, <2>5, <2>6, JobStep
<1> QED
  BY <1>4, <1>5, <1>6, <1>7 DEF complete_job, MaybeUpdate

LEMMA ReportStep ==
    ASSUME IInv, report_result
    PROVE  IInv'
<1>1. /\ run.pc = "report" /\ run.pc \in Serving
      /\ UNCHANGED <<product, evidence, jobs, indexed, results, resultIndexed, reviews, faults>>
      /\ Raise \/ Complete(run.job)
  BY DEF report_result, Serving
<1>2. /\ run.position \in Position /\ run.job \in JobIds
      /\ StandsFor(run.job, run.position, run.ids)
      /\ jobs[run.job].status = "COMPLETED"
  BY <1>1, AtService DEF IInv, RunOK, OwnJob
<1> QED
  BY <1>1, <1>2, Moves DEF IInv, TypeOK

\* A result stored by the job of the run is the only one of its lineage.
LEMMA ResultStored ==
    ASSUME IInv, run.pc = "store", MayStore(run.job),
           NEW whole \in BOOLEAN, NEW projection \in ProjectionStatuses,
           results' = [results EXCEPT ![run.job] = NewResult(whole, projection)],
           UNCHANGED <<jobs, indexed>>
    PROVE  /\ results' \in [JobIds -> StoredResult \cup {Absent}]
           /\ TablesOK' /\ OneResultPerLineage'
           /\ results'[run.job] # Absent
           /\ results'[run.job].whole = whole
           /\ \A k \in JobIds : k # run.job => results'[k] = results[k]
<1> DEFINE new == NewResult(whole, projection)
<1>1. /\ run \in Run /\ run.job \in JobIds
      /\ StandsFor(run.job, run.position, run.ids)
      /\ jobs[run.job].status = "RUNNING"
  <2>1. run.pc \in Serving
    BY DEF Serving
  <2> QED
    BY <2>1, AtService DEF IInv, RunOK, OwnJob
<1>2. new \in StoredResult /\ new.whole = whole
  BY <1>1, ExecutorAssumption DEF NewResult, StoredResult, Run, IInv, TypeOK
<1>3. new # Absent
  BY <1>2 DEF StoredResult, Absent
<1>4. results \in [JobIds -> StoredResult \cup {Absent}]
  BY DEF IInv, TypeOK
<1> HIDE DEF new
<1>5. results' = [results EXCEPT ![run.job] = new]
  BY DEF new
<1>6. results'[run.job] = new /\ \A k \in JobIds : k # run.job => results'[k] = results[k]
  BY <1>1, <1>4, <1>5
<1>7. results' \in [JobIds -> StoredResult \cup {Absent}]
  BY <1>2, <1>4, <1>5
<1>8. JobsOK'
  BY <1>1, <1>6 DEF IInv, TablesOK, JobsOK, JobExists, Whole
<1>9. ResultsOK'
  BY <1>1, <1>6 DEF IInv, TablesOK, ResultsOK, JobExists, StandsFor
<1>10. IndexOK'
  BY DEF IInv, TablesOK, IndexOK, JobExists
<1>11. OneResultPerLineage'
  <2>1. SUFFICES ASSUME NEW j \in JobIds, NEW k \in JobIds, j # k,
                        results'[j] # Absent, results'[k] # Absent,
                        jobs[j].position \in UNIQUE, jobs[k].position = jobs[j].position
                 PROVE  jobs[j].lineage # jobs[k].lineage
    BY DEF OneResultPerLineage
  <2>2. CASE j # run.job /\ k # run.job
    BY <1>6, <2>1, <2>2 DEF IInv, OneResultPerLineage
  <2>3. ASSUME j = run.job \/ k = run.job
        PROVE  Rivals(run.job) = {}
    BY <1>1, <2>1, <2>3 DEF MayStore, StandsFor
  <2>4. CASE j = run.job
    BY <1>6, <2>1, <2>3, <2>4 DEF Rivals
  <2>5. CASE k = run.job
    BY <1>6, <2>1, <2>3, <2>5 DEF Rivals
  <2> QED
    BY <2>2, <2>4, <2>5
<1> QED
  BY <1>2, <1>3, <1>6, <1>7, <1>8, <1>9, <1>10, <1>11 DEF TablesOK

\* After the engine and the write the run completes or fails its job.
LEMMA AfterStore ==
    ASSUME IInv, run.pc = "store", NEW pc \in {"complete", "fail"}, Goto(pc),
           results' \in [JobIds -> StoredResult \cup {Absent}],
           TablesOK', OneResultPerLineage',
           \A k \in JobIds : k # run.job => results'[k] = results[k],
           pc = "complete" => results'[run.job] # Absent /\ results'[run.job].whole,
           pc = "fail" => results'[run.job] = Absent \/ faults' > 0,
           faults' \in Nat, faults' >= faults,
           UNCHANGED <<product, evidence, jobs, indexed, resultIndexed, reviews>>
    PROVE  IInv'
<1>1. run.pc \in Serving
  BY DEF Serving
<1>2. /\ run \in Run /\ run.position \in JobPositions /\ run.job \in JobIds
      /\ StandsFor(run.job, run.position, run.ids)
      /\ jobs[run.job].status = "RUNNING"
  BY <1>1, AtService DEF IInv, RunOK, OwnJob
<1>3. /\ run' \in Run /\ run'.pc = pc /\ run'.ids = run.ids
      /\ run'.position = run.position /\ run'.job = run.job
  BY <1>2 DEF Run, RunStep, Goto
<1>4. RunShape'
  BY <1>2, <1>3 DEF RunShape, Serving, IInv, RunOK
<1>5. Held'
  <2>1. JobsKept
    BY DEF JobsKept, JobExists
  <2> QED
    BY <1>3, <2>1, HeldKept DEF IInv
<1>6. OwnJob'
  BY <1>2, <1>3 DEF OwnJob, Serving, StandsFor, JobExists, new_lineage, Whole
<1>7. GuardLostOnlyByFault'
  <2>1. SUFFICES ASSUME NEW j \in JobIds, results'[j] # Absent, jobs[j].position \in UNIQUE,
                        jobs[j].status # "COMPLETED", run'.pc \in Ended \/ run'.job # j
                 PROVE  faults' > 0
    BY DEF GuardLostOnlyByFault
  <2>2. j # run.job
    BY <1>3, <2>1 DEF Ended
  <2>3. faults > 0
    BY <2>1, <2>2 DEF IInv, GuardLostOnlyByFault
  <2> QED
    BY <2>3 DEF IInv, TypeOK
<1>8. TypeOK'
  BY <1>3 DEF IInv, TypeOK
<1> QED
  BY <1>4, <1>5, <1>6, <1>7, <1>8 DEF IInv, RunOK

LEMMA StoreStep ==
    ASSUME IInv, store_result
    PROVE  IInv'
<1>1. /\ run.pc = "store" /\ results[run.job] = Absent
      /\ UNCHANGED <<product, evidence, jobs, indexed, resultIndexed, reviews>>
  BY DEF store_result, IInv, RunOK, OwnJob
<1>2. /\ results \in [JobIds -> StoredResult \cup {Absent}]
      /\ faults \in Nat
      /\ Fault => faults' \in Nat /\ faults' > 0 /\ faults' >= faults
  BY FaultsGrow DEF IInv, TypeOK
<1>3. ASSUME UNCHANGED results PROVE TablesOK' /\ OneResultPerLineage'
  BY <1>1, <1>3, TablesUnchanged DEF IInv
<1>4. PICK projection \in ProjectionStatuses :
         LET Put(whole) == /\ MayStore(run.job)
                           /\ results' = [results EXCEPT ![run.job] = NewResult(whole, projection)]
         IN  \/ Put(TRUE) /\ Goto("complete") /\ UNCHANGED faults
             \/ Goto("fail") /\ UNCHANGED <<results, faults>>
             \/ Fault /\ Goto("fail") /\ (UNCHANGED results \/ \E whole \in BOOLEAN : Put(whole))
  BY DEF store_result
<1>5. CASE /\ MayStore(run.job) /\ Goto("complete") /\ UNCHANGED faults
           /\ results' = [results EXCEPT ![run.job] = NewResult(TRUE, projection)]
  <2>1. TRUE \in BOOLEAN
    OBVIOUS
  <2>2. /\ results' \in [JobIds -> StoredResult \cup {Absent}]
        /\ TablesOK' /\ OneResultPerLineage'
        /\ results'[run.job] # Absent
        /\ results'[run.job].whole = TRUE
        /\ \A k \in JobIds : k # run.job => results'[k] = results[k]
    BY <1>1, <1>5, <2>1, ResultStored
  <2>3. results'[run.job].whole
    BY <2>2
  <2>4. faults' \in Nat /\ faults' >= faults
    BY <1>2, <1>5
  <2>5. "complete" \in {"complete", "fail"} /\ "complete" # "fail"
    OBVIOUS
  <2> QED
    BY <1>1, <1>5, <2>2, <2>3, <2>4, <2>5, AfterStore
<1>6. CASE Goto("fail") /\ UNCHANGED results /\ (Fault \/ UNCHANGED faults)
  BY <1>1, <1>2, <1>3, <1>6, AfterStore
<1>7. ASSUME NEW whole \in BOOLEAN, MayStore(run.job), Goto("fail"), Fault,
             results' = [results EXCEPT ![run.job] = NewResult(whole, projection)]
      PROVE  IInv'
  BY <1>1, <1>2, <1>7, ResultStored, AfterStore
<1> QED
  BY <1>4, <1>5, <1>6, <1>7

-------------------------------------------------------------------------------
(* The review and the readiness.                                           *)

\* The run goes to another step of the same position, without a job.
LEMMA Rests ==
    ASSUME IInv, UNCHANGED <<evidence, jobs, indexed, results, resultIndexed, faults>>,
           product' \in [version : Nat, status : {"DRAFT", "REVIEW_REQUIRED", "READY_TO_PUBLISH"}],
           reviews' \in [JobIds -> {"NONE", "OPEN", "COMPLETED"}],
           run.pc \in {"review", "waiting", "readiness", "apply", "mark"},
           run' \in Run,
           UNCHANGED <<run.position, run.ids, run.job>>,
           \/ run'.pc \in {"review", "waiting"} /\ run.pc \in {"review", "waiting"}
           \/ run'.pc \in {"apply", "mark"} /\ run.pc \in {"readiness", "apply"}
    PROVE  IInv'
<1>1. run.job = NoJob /\ NoJob \notin JobIds
  BY DEF IInv, RunOK, RunShape, Serving, NoJob, JobIds
<1>2. RunShape' /\ OwnJob'
  BY <1>1 DEF IInv, RunOK, RunShape, OwnJob, Serving
<1>3. Held'
  BY TablesUnchanged, HeldKept DEF IInv
<1> QED
  BY <1>1, <1>2, <1>3, RunMoves DEF IInv, TypeOK, RunOK

LEMMA ReviewStep ==
    ASSUME IInv, human_review
    PROVE  IInv'
<1> DEFINE selection == run.ids[ATTRIBUTE_SELECTION]
           marked == IF product.status = "REVIEW_REQUIRED" THEN product
                     ELSE [version |-> product.version + 1, status |-> "REVIEW_REQUIRED"]
<1>1. /\ run.pc = "review" /\ run \in Run /\ run.job = NoJob /\ NoJob \notin JobIds
      /\ run.position \in Position /\ run.position \notin JobPositions
      /\ UNCHANGED <<evidence, jobs, indexed, results, resultIndexed>>
  BY ExecutorAssumption
     DEF human_review, IInv, TypeOK, RunOK, RunShape, Serving, NoJob, JobIds, JobPositions
<1>2. selection \in JobIds \cup {NoJob}
  BY <1>1, ExecutorAssumption DEF Run, JobPositions
<1>3. /\ marked \in [version : Nat, status : {"DRAFT", "REVIEW_REQUIRED", "READY_TO_PUBLISH"}]
      /\ product \in [version : Nat, status : {"DRAFT", "REVIEW_REQUIRED", "READY_TO_PUBLISH"}]
      /\ marked.version \in Nat
  BY DEF IInv, TypeOK
<1>4. /\ reviews \in [JobIds -> {"NONE", "OPEN", "COMPLETED"}]
      /\ [reviews EXCEPT ![selection] = "OPEN"] \in [JobIds -> {"NONE", "OPEN", "COMPLETED"}]
  BY DEF IInv, TypeOK
<1>5. CASE Complete(selection) /\ UNCHANGED <<product, reviews, faults>>
  BY <1>1, <1>2, <1>3, <1>4, <1>5, Moves
<1>6. CASE Fault /\ Raise /\ UNCHANGED <<reviews, product>>
  BY <1>1, <1>3, <1>4, <1>6, Moves
<1>7. CASE /\ Fault /\ Raise
           /\ reviews' = [reviews EXCEPT ![selection] = "OPEN"]
           /\ product' \in {product, marked}
  BY <1>1, <1>3, <1>4, <1>7, Moves
<1>8. CASE /\ reviews' = [reviews EXCEPT ![selection] = "OPEN"]
           /\ product' = marked
           /\ run' = [run EXCEPT !.pc = "waiting", !.seen = marked.version]
           /\ UNCHANGED faults
  <2> HIDE DEF marked
  <2>1. /\ run' \in Run /\ run'.pc = "waiting"
        /\ UNCHANGED <<run.position, run.ids, run.job>>
    BY <1>1, <1>3, <1>8 DEF Run, RunStep
  <2> QED
    BY <1>1, <1>3, <1>4, <1>8, <2>1, Rests
<1> QED
  BY <1>5, <1>6, <1>7, <1>8 DEF human_review

LEMMA ResumeStep ==
    ASSUME IInv, resume
    PROVE  IInv'
<1>1. /\ run.pc = "waiting" /\ run \in Run /\ Goto("review")
      /\ UNCHANGED <<product, evidence, jobs, indexed, results, resultIndexed, reviews, faults>>
  BY DEF resume, IInv, TypeOK
<1>2. /\ run' \in Run /\ run'.pc = "review"
      /\ UNCHANGED <<run.position, run.ids, run.job>>
  BY <1>1 DEF Run, RunStep, Goto
<1> QED
  BY <1>1, <1>2, Rests DEF IInv, TypeOK

\* The steps of the readiness position.
LEMMA AtReadiness ==
    ASSUME IInv, run.pc \in {"readiness", "apply", "mark"}
    PROVE  /\ run \in Run /\ run.job = NoJob /\ NoJob \notin JobIds
           /\ run.position \in Position /\ run.position \notin JobPositions
           /\ product \in [version : Nat, status : {"DRAFT", "REVIEW_REQUIRED", "READY_TO_PUBLISH"}]
           /\ reviews \in [JobIds -> {"NONE", "OPEN", "COMPLETED"}]
BY ExecutorAssumption
   DEF IInv, TypeOK, RunOK, RunShape, Serving, NoJob, JobIds, JobPositions

LEMMA ReadinessStep ==
    ASSUME IInv, publishing_readiness
    PROVE  IInv'
<1>1. /\ run.pc = "readiness"
      /\ UNCHANGED <<product, evidence, jobs, indexed, results, resultIndexed, reviews>>
  BY DEF publishing_readiness
<1>2. CASE Raise /\ Fault
  BY <1>1, <1>2, AtReadiness, Moves
<1>3. CASE Complete(NoJob) /\ UNCHANGED faults
  BY <1>1, <1>3, AtReadiness, Moves
<1>4. CASE run' = [run EXCEPT !.pc = "apply", !.seen = product.version] /\ UNCHANGED faults
  <2>1. /\ run' \in Run /\ run'.pc = "apply"
        /\ UNCHANGED <<run.position, run.ids, run.job>>
    BY <1>1, <1>4, AtReadiness DEF Run, RunStep
  <2> QED
    BY <1>1, <1>4, <2>1, AtReadiness, Rests
<1> QED
  BY <1>2, <1>3, <1>4 DEF publishing_readiness

LEMMA ApplyStep ==
    ASSUME IInv, readiness_apply
    PROVE  IInv'
<1>1. /\ run.pc = "apply"
      /\ UNCHANGED <<product, evidence, jobs, indexed, results, resultIndexed, reviews>>
  BY DEF readiness_apply
<1>2. CASE Raise /\ (Fault \/ UNCHANGED faults)
  BY <1>1, <1>2, AtReadiness, Moves
<1>3. CASE Goto("mark") /\ UNCHANGED faults
  <2>1. /\ run' \in Run /\ run'.pc = "mark"
        /\ UNCHANGED <<run.position, run.ids, run.job>>
    BY <1>1, <1>3, AtReadiness DEF Run, RunStep, Goto
  <2> QED
    BY <1>1, <1>3, <2>1, AtReadiness, Rests
<1> QED
  BY <1>2, <1>3 DEF readiness_apply

LEMMA MarkStep ==
    ASSUME IInv, mark_ready_to_publish
    PROVE  IInv'
<1>1. /\ run.pc = "mark"
      /\ UNCHANGED <<evidence, jobs, indexed, results, resultIndexed, reviews>>
      /\ Fault \/ UNCHANGED faults
      /\ Raise \/ Complete(NoJob)
      /\ \/ UNCHANGED product
         \/ product' = [version |-> run.seen + 1, status |-> "READY_TO_PUBLISH"]
  BY DEF mark_ready_to_publish
<1>2. product' \in [version : Nat, status : {"DRAFT", "REVIEW_REQUIRED", "READY_TO_PUBLISH"}]
  BY <1>1, AtReadiness DEF Run
<1> QED
  BY <1>1, <1>2, AtReadiness, Moves

-------------------------------------------------------------------------------
(* The client, the reviewer and the indexes.                               *)

LEMMA StartWorkflow ==
    ASSUME IInv, start
    PROVE  IInv'
<1>1. /\ run.pc \in Ended
      /\ UNCHANGED <<product, evidence, jobs, indexed, results, resultIndexed, reviews, faults>>
  BY DEF start
<1>2. PICK enabled \in {OPTIONAL_STAGES \cup {PUBLISHING_READINESS}, {}} :
         run' = [pc |-> "find", position |-> 1, ids |-> NoIds, job |-> NoJob,
                 seen |-> product.version, snapshot |-> evidence, enabled |-> enabled]
  BY DEF start
<1>3. run' \in Run
  <2>1. NoIds \in [Position -> JobIds \cup {NoJob}]
    BY DEF NoIds
  <2>2. /\ "find" \in RunStep /\ 1 \in 1 .. Length + 1
        /\ NoJob \in JobIds \cup {NoJob}
        /\ product.version \in Nat /\ evidence \in Nat
        /\ enabled \in SUBSET (OPTIONAL_STAGES \cup {PUBLISHING_READINESS})
    BY ExecutorAssumption DEF RunStep, IInv, TypeOK
  <2> QED
    BY <1>2, <2>1, <2>2 DEF Run
<1>4. RunShape' /\ Held' /\ OwnJob'
  <2>1. \A t \in Position : run'.ids[t] = NoJob
    BY <1>2 DEF NoIds
  <2>2. 1 \in JobPositions
    BY ExecutorAssumption
  <2> QED
    BY <1>2, <2>1, <2>2 DEF RunShape, Held, OwnJob, Serving, JobPositions
<1> QED
  BY <1>1, <1>3, <1>4, RunMoves DEF IInv, TypeOK, RunOK

\* A step that leaves the run and what it relies on alone.
LEMMA Bystander ==
    ASSUME IInv, UNCHANGED <<jobs, results, run, faults>>,
           TypeOK', IndexOK'
    PROVE  IInv'
<1>1. TablesOK' /\ OneResultPerLineage'
  BY DEF IInv, TablesOK, JobsOK, ResultsOK, JobExists, Whole, OneResultPerLineage
<1>2. RunOK'
  BY DEF IInv, RunOK, RunShape, Held, OwnJob, StandsFor, JobExists, Whole, new_lineage
<1>3. GuardLostOnlyByFault'
  BY DEF IInv, GuardLostOnlyByFault
<1> QED
  BY <1>1, <1>2, <1>3 DEF IInv

LEMMA EnvironmentSteps ==
    ASSUME IInv,
           \/ edit_product \/ add_source
           \/ \E j \in JobIds : index_job(j) \/ index_result(j) \/ complete_review(j)
    PROVE  IInv'
<1>1. UNCHANGED <<jobs, results, run, faults>>
  BY DEF edit_product, add_source, index_job, index_result, complete_review
<1>2. ASSUME UNCHANGED indexed PROVE IndexOK'
  BY <1>1, <1>2 DEF IInv, TablesOK, IndexOK, JobExists
<1>3. CASE edit_product
  <2>1. UNCHANGED <<evidence, indexed, resultIndexed, reviews>>
    BY <1>3 DEF edit_product
  <2>2. product' \in [version : Nat, status : {"DRAFT", "REVIEW_REQUIRED", "READY_TO_PUBLISH"}]
    <3>1. PatchStatuses \cup {product.status} \subseteq
              {"DRAFT", "REVIEW_REQUIRED", "READY_TO_PUBLISH"}
      BY ExecutorAssumption DEF IInv, TypeOK
    <3> QED
      BY <1>3, <3>1 DEF edit_product, IInv, TypeOK
  <2> QED
    BY <1>1, <1>2, <2>1, <2>2, Bystander DEF IInv, TypeOK
<1>4. CASE add_source
  BY <1>1, <1>2, <1>4, Bystander DEF add_source, IInv, TypeOK
<1>5. ASSUME NEW j \in JobIds, index_job(j)
      PROVE  IInv'
  <2>1. /\ indexed' = [indexed EXCEPT ![j] = jobs[j]]
        /\ UNCHANGED <<product, evidence, resultIndexed, reviews>>
    BY <1>5 DEF index_job
  <2>2. TypeOK'
    BY <1>1, <2>1 DEF IInv, TypeOK
  <2>3. IndexOK'
    BY <1>1, <2>1 DEF IInv, TypeOK, TablesOK, IndexOK, JobExists
  <2> QED
    BY <1>1, <2>2, <2>3, Bystander
<1>6. ASSUME NEW j \in JobIds, index_result(j)
      PROVE  IInv'
  BY <1>1, <1>2, <1>6, Bystander DEF index_result, IInv, TypeOK
<1>7. ASSUME NEW j \in JobIds, complete_review(j)
      PROVE  IInv'
  BY <1>1, <1>2, <1>7, Bystander DEF complete_review, IInv, TypeOK
<1> QED
  BY <1>3, <1>4, <1>5, <1>6, <1>7

-------------------------------------------------------------------------------
(* The theorems.                                                           *)

LEMMA InitIInv ==
    ASSUME Init
    PROVE  IInv
<1>1. /\ \A j \in JobIds : jobs[j] = Absent /\ indexed[j] = Absent /\ results[j] = Absent
      /\ run.pc = "none" /\ run.ids = NoIds /\ run.job = NoJob /\ faults = 0
  BY DEF Init
<1>2. TypeOK
  <2>1. run \in Run
    <3>1. /\ "none" \in RunStep /\ 1 \in 1 .. Length + 1
          /\ NoIds \in [Position -> JobIds \cup {NoJob}]
      BY ExecutorAssumption DEF RunStep, NoIds
    <3> QED
      BY <3>1 DEF Init, Run
  <2> QED
    BY <2>1 DEF Init, TypeOK
<1>3. TablesOK
  BY <1>1 DEF TablesOK, JobsOK, ResultsOK, IndexOK, JobExists
<1>4. RunOK
  BY <1>1 DEF RunOK, RunShape, Held, OwnJob, Serving, NoIds, JobPositions
<1>5. OneResultPerLineage /\ GuardLostOnlyByFault
  BY <1>1 DEF OneResultPerLineage, GuardLostOnlyByFault
<1> QED
  BY <1>2, <1>3, <1>4, <1>5 DEF IInv

LEMMA NextIInv ==
    ASSUME IInv, [Next]_vars
    PROVE  IInv'
<1>1. CASE execute
  BY <1>1, FindStep, LoadStep, CreateStep, CheckStep, StartStep, StoreStep, FailStep,
     CompleteStep, ReportStep, ReviewStep, ReadinessStep, ApplyStep, MarkStep
     DEF execute
<1>2. CASE start
  BY <1>2, StartWorkflow
<1>3. CASE resume
  BY <1>3, ResumeStep
<1>4. CASE \/ edit_product \/ add_source
           \/ \E j \in JobIds : index_job(j) \/ index_result(j) \/ complete_review(j)
  BY <1>4, EnvironmentSteps
<1>5. CASE UNCHANGED vars
  <2>1. UNCHANGED <<jobs, results, run, faults>> /\ TypeOK'
    BY <1>5 DEF vars, IInv, TypeOK
  <2>2. IndexOK'
    BY <1>5 DEF vars, IInv, TablesOK, IndexOK, JobExists
  <2> QED
    BY <2>1, <2>2, Bystander
<1> QED
  BY <1>1, <1>2, <1>3, <1>4, <1>5 DEF Next

\* Every reachable state has the invariant that the properties rest on: the
\* tables agree with one another and with a lagging index, and the run holds
\* only results of COMPLETED jobs of its own lineage.
THEOREM StageInvariant == Spec => []IInv
<1>1. Init => IInv
  BY InitIInv
<1>2. IInv /\ [Next]_vars => IInv'
  BY NextIInv
<1> QED
  BY <1>1, <1>2, PTL DEF Spec

\* The product, the tables, the index and the run keep their types, whatever
\* the pipeline, the number of jobs and the faults.
THEOREM TypeCorrect == Spec => []TypeOK
<1>1. IInv => TypeOK
  BY DEF IInv
<1> QED
  BY <1>1, StageInvariant, PTL

\* No workflow ever holds a result that was only partly written, even if its
\* records are put one by one and any put may fail.
THEOREM WorkflowsHoldWholeResults == Spec => []HeldResultsAreWhole
<1>1. IInv => HeldResultsAreWhole
  BY DEF IInv, RunOK, Held, StandsFor, TablesOK, JobsOK, Whole, HeldResultsAreWhole
<1> QED
  BY <1>1, StageInvariant, PTL

\* The results a workflow holds were made from one another, although it may
\* take them from jobs of different earlier workflows found in a lagging index.
THEOREM ReusedResultsShareLineage == Spec => []SameLineage
<1>1. IInv => SameLineage
  BY DEF IInv, RunOK, Held, StandsFor, SameLineage
<1> QED
  BY <1>1, StageInvariant, PTL

\* Two jobs created for one lineage, because the first was not yet in the
\* index, never both store a result.
THEOREM LineagesAreUnique == Spec => []OneResultPerLineage
<1>1. IInv => OneResultPerLineage
  BY DEF IInv
<1> QED
  BY <1>1, StageInvariant, PTL

\* The GUARD of a lineage is taken for nothing only after a fault.
THEOREM GuardsAreLostOnlyByFaults == Spec => []GuardLostOnlyByFault
<1>1. IInv => GuardLostOnlyByFault
  BY DEF IInv
<1> QED
  BY <1>1, StageInvariant, PTL

\* However late the index shows a job, its lineage gets one result, and only a
\* fault makes that one useless.
THEOREM LineagesGetOneUsableResult == Spec => []OneUsableResultPerLineage
<1>1. OneResultPerLineage /\ GuardLostOnlyByFault => OneUsableResultPerLineage
  BY DEF OneUsableResultPerLineage
<1> QED
  BY <1>1, LineagesAreUnique, GuardsAreLostOnlyByFaults, PTL

-------------------------------------------------------------------------------
(* The jobs implement JobLifecycle.                                        *)

\* What a step can do to the jobs and the results.
TableStep ==
    \/ UNCHANGED <<jobs, results>>
    \/ \E j \in JobIds :
          /\ jobs[j] = Absent
          /\ jobs' = [jobs EXCEPT ![j] = NewJob]
          /\ UNCHANGED results
    \/ \E j \in JobIds, status \in {"RUNNING", "COMPLETED", "FAILED"},
          reference \in BOOLEAN, expected \in {1, 2} :
          /\ CanUpdate(j, expected)
          /\ Update(j, status, reference, expected)
          /\ <<jobs[j].status, status>> \in Lifecycle!Allowed
          /\ status = "COMPLETED" => Whole(j)
          /\ UNCHANGED results
    \/ \E j \in JobIds, whole \in BOOLEAN, projection \in ProjectionStatuses :
          /\ jobs[j].status = "RUNNING"
          /\ results[j] = Absent
          /\ results' = [results EXCEPT ![j] = NewResult(whole, projection)]
          /\ UNCHANGED jobs

LEMMA EveryStepIsATableStep ==
    ASSUME IInv, [Next]_vars
    PROVE  TableStep
<1>1. CASE create_job
  BY <1>1 DEF create_job, TableStep
<1>2. CASE start_job
  <2>1. run.pc = "start" /\ run.pc \in Serving
    BY <1>2 DEF start_job, Serving
  <2>2. run.job \in JobIds /\ jobs[run.job].status = "PENDING"
    BY <2>1, AtService DEF IInv, RunOK, OwnJob
  <2>3. CASE CanUpdate(run.job, 1) /\ Update(run.job, "RUNNING", FALSE, 1)
    <3>1. <<jobs[run.job].status, "RUNNING">> \in Lifecycle!Allowed
      BY <2>2 DEF Lifecycle!Allowed
    <3>2. FALSE \in BOOLEAN /\ "RUNNING" # "COMPLETED" /\ 1 \in {1, 2}
          /\ "RUNNING" \in {"RUNNING", "COMPLETED", "FAILED"}
      OBVIOUS
    <3> QED
      BY <1>2, <2>2, <2>3, <3>1, <3>2 DEF start_job, TableStep
  <2> QED
    BY <1>2, <2>3 DEF start_job, MaybeUpdate, TableStep
<1>3. CASE fail_job
  <2>1. run.pc = "fail" /\ run.pc \in Serving
    BY <1>3 DEF fail_job, Serving
  <2>2. run.job \in JobIds /\ jobs[run.job].status = "RUNNING"
    BY <2>1, AtService DEF IInv, RunOK, OwnJob
  <2>3. CASE CanUpdate(run.job, 2) /\ Update(run.job, "FAILED", FALSE, 2)
    <3>1. <<jobs[run.job].status, "FAILED">> \in Lifecycle!Allowed
      BY <2>2 DEF Lifecycle!Allowed
    <3>2. FALSE \in BOOLEAN /\ "FAILED" # "COMPLETED" /\ 2 \in {1, 2}
          /\ "FAILED" \in {"RUNNING", "COMPLETED", "FAILED"}
      OBVIOUS
    <3> QED
      BY <1>3, <2>2, <2>3, <3>1, <3>2 DEF fail_job, TableStep
  <2> QED
    BY <1>3, <2>3 DEF fail_job, MaybeUpdate, TableStep
<1>4. CASE complete_job
  <2>1. run.pc = "complete" /\ run.pc \in Serving
    BY <1>4 DEF complete_job, Serving
  <2>2. run.job \in JobIds /\ jobs[run.job].status = "RUNNING" /\ Whole(run.job)
    BY <2>1, AtService DEF IInv, RunOK, OwnJob
  <2>3. CASE CanUpdate(run.job, 2) /\ Update(run.job, "COMPLETED", TRUE, 2)
    <3>1. <<jobs[run.job].status, "COMPLETED">> \in Lifecycle!Allowed
      BY <2>2 DEF Lifecycle!Allowed
    <3>2. TRUE \in BOOLEAN /\ 2 \in {1, 2}
          /\ "COMPLETED" \in {"RUNNING", "COMPLETED", "FAILED"}
      OBVIOUS
    <3> QED
      BY <1>4, <2>2, <2>3, <3>1, <3>2 DEF complete_job, TableStep
  <2> QED
    BY <1>4, <2>3 DEF complete_job, MaybeUpdate, TableStep
<1>5. CASE store_result
  <2>1. run.pc = "store" /\ run.pc \in Serving /\ UNCHANGED jobs
    BY <1>5 DEF store_result, Serving
  <2>2. run.job \in JobIds /\ jobs[run.job].status = "RUNNING" /\ results[run.job] = Absent
    BY <2>1, AtService DEF IInv, RunOK, OwnJob
  <2>3. \/ UNCHANGED results
        \/ \E whole \in BOOLEAN, projection \in ProjectionStatuses :
              results' = [results EXCEPT ![run.job] = NewResult(whole, projection)]
    BY <1>5 DEF store_result
  <2> QED
    BY <2>1, <2>2, <2>3 DEF TableStep
<1>6. CASE \/ find_compatible_job \/ load_result \/ check_job \/ report_result
           \/ human_review \/ publishing_readiness \/ readiness_apply \/ mark_ready_to_publish
           \/ start \/ resume \/ edit_product \/ add_source
           \/ \E j \in JobIds : index_job(j) \/ index_result(j) \/ complete_review(j)
           \/ UNCHANGED vars
  BY <1>6 DEF find_compatible_job, load_result, check_job, report_result, human_review,
              publishing_readiness, readiness_apply, mark_ready_to_publish, start, resume,
              edit_product, add_source, index_job, index_result, complete_review, vars, TableStep
<1> QED
  BY <1>1, <1>2, <1>3, <1>4, <1>5, <1>6 DEF Next, execute

\* The status of the jobs and the jobs with a whole result, as JobLifecycle
\* sees them.
StatusOf == [j \in JobIds |-> jobs[j].status]
WithResult == {j \in JobIds : results[j] # Absent /\ results[j].whole}

LEMMA TableStepImplements ==
    ASSUME IInv, TableStep
    PROVE  [Lifecycle!LifecycleNext]_<<StatusOf, WithResult>>
<1>1. /\ jobs \in [JobIds -> ProcessingJob \cup {Absent}]
      /\ results \in [JobIds -> StoredResult \cup {Absent}]
  BY DEF IInv, TypeOK
<1>2. CASE UNCHANGED <<jobs, results>>
  BY <1>2 DEF StatusOf, WithResult
<1>3. ASSUME NEW j \in JobIds, jobs[j] = Absent, jobs' = [jobs EXCEPT ![j] = NewJob],
             UNCHANGED results
      PROVE  Lifecycle!LifecycleNext
  <2>1. StatusOf[j] = "ABSENT"
    BY <1>3 DEF StatusOf, Absent
  <2>2. StatusOf' = [StatusOf EXCEPT ![j] = "PENDING"]
    <3>1. jobs'[j].status = "PENDING" /\ \A k \in JobIds : k # j => jobs'[k] = jobs[k]
      BY <1>1, <1>3 DEF NewJob
    <3> QED
      BY <3>1 DEF StatusOf
  <2>3. UNCHANGED WithResult
    BY <1>3 DEF WithResult
  <2>4. Lifecycle!CreateJob(j)
    BY <2>1, <2>2, <2>3 DEF Lifecycle!CreateJob, StatusOf, WithResult
  <2> QED
    BY <2>4 DEF Lifecycle!LifecycleNext
<1>4. ASSUME NEW j \in JobIds, NEW status \in {"RUNNING", "COMPLETED", "FAILED"},
             NEW reference \in BOOLEAN, NEW expected \in {1, 2},
             CanUpdate(j, expected), Update(j, status, reference, expected),
             <<jobs[j].status, status>> \in Lifecycle!Allowed,
             status = "COMPLETED" => Whole(j), UNCHANGED results
      PROVE  Lifecycle!LifecycleNext
  <2>1. jobs'[j].status = status /\ \A k \in JobIds : k # j => jobs'[k] = jobs[k]
    <3>1. jobs[j] \in ProcessingJob
      BY <1>1, <1>4 DEF CanUpdate
    <3> QED
      BY <1>1, <1>4, <3>1 DEF Update, ProcessingJob
  <2>2. StatusOf' = [StatusOf EXCEPT ![j] = status]
    BY <2>1 DEF StatusOf
  <2>3. UNCHANGED WithResult /\ (status = "COMPLETED" => j \in WithResult)
    BY <1>4 DEF WithResult, Whole
  <2>4. <<StatusOf[j], status>> \in Lifecycle!Allowed
    BY <1>4 DEF StatusOf
  <2>5. Lifecycle!Transition(j, status)
    BY <2>2, <2>3, <2>4 DEF Lifecycle!Transition, StatusOf, WithResult
  <2>6. status \in Lifecycle!ProcessingJobStatus
    BY DEF Lifecycle!ProcessingJobStatus
  <2> QED
    BY <2>5, <2>6 DEF Lifecycle!LifecycleNext
<1>5. ASSUME NEW j \in JobIds, NEW whole \in BOOLEAN, NEW projection \in ProjectionStatuses,
             jobs[j].status = "RUNNING", results[j] = Absent,
             results' = [results EXCEPT ![j] = NewResult(whole, projection)], UNCHANGED jobs
      PROVE  [Lifecycle!LifecycleNext]_<<StatusOf, WithResult>>
  <2>1. /\ results'[j] = NewResult(whole, projection)
        /\ \A k \in JobIds : k # j => results'[k] = results[k]
    BY <1>1, <1>5
  <2>2. NewResult(whole, projection).whole = whole /\ NewResult(whole, projection) # Absent
    <3>1. NewResult(whole, projection).status = "STORED" /\ Absent.status = "ABSENT"
      BY DEF NewResult, Absent
    <3> QED
      BY <3>1 DEF NewResult
  <2>3. UNCHANGED StatusOf /\ StatusOf[j] = "RUNNING"
    BY <1>5 DEF StatusOf
  <2>4. CASE whole
    <3>1. WithResult' = WithResult \cup {j}
      BY <2>1, <2>2, <2>4 DEF WithResult
    <3>2. Lifecycle!StoreResult(j)
      BY <2>3, <3>1 DEF Lifecycle!StoreResult, StatusOf, WithResult
    <3> QED
      BY <3>2 DEF Lifecycle!LifecycleNext
  <2>5. CASE ~whole
    <3>1. WithResult' = WithResult
      BY <1>5, <2>1, <2>2, <2>5 DEF WithResult
    <3> QED
      BY <2>3, <3>1
  <2> QED
    BY <2>4, <2>5
<1> QED
  BY <1>2, <1>3, <1>4, <1>5 DEF TableStep

\* The jobs, run step by step by a service that crashes, fails and loses its
\* updates, are jobs as JobLifecycle promises them: no terminal job changes
\* and none is COMPLETED before its result is stored whole.
THEOREM JobsImplementLifecycle == Spec => ImplementsLifecycle
<1>1. Init => Lifecycle!LifecycleInit
  <2>1. ASSUME Init
        PROVE  /\ [j \in JobIds |-> jobs[j].status] = [j \in JobIds |-> "ABSENT"]
               /\ {j \in JobIds : results[j] # Absent /\ results[j].whole} = {}
    BY <2>1 DEF Init, Absent
  <2> QED
    BY <2>1 DEF Lifecycle!LifecycleInit
<1>2. IInv /\ [Next]_vars =>
          [Lifecycle!LifecycleNext]_<<[j \in JobIds |-> jobs[j].status],
                                      {j \in JobIds : results[j] # Absent /\ results[j].whole}>>
  BY EveryStepIsATableStep, TableStepImplements DEF StatusOf, WithResult
<1> QED
  BY <1>1, <1>2, StageInvariant, PTL DEF Spec, ImplementsLifecycle, Lifecycle!LifecycleSpec

-------------------------------------------------------------------------------
(* The product becomes ready only as projected.                            *)

\* The positions no configuration or verdict skips.
Mandatory == Position \ (OPTIONAL_STAGES \cup {PUBLISHING_READINESS})

HasMandatory == \A t \in Mandatory : t < run.position => run.ids[t] # NoJob

Reviewed ==
    run.ids[HUMAN_REVIEW] # NoJob => reviews[run.ids[HUMAN_REVIEW]] = "COMPLETED"

NotBlocked ==
    run.pc \in {"readiness", "apply", "mark"} => ~Blocked(run.ids[CATALOG_PROJECTION])

AsProjected ==
    run.pc = "mark" =>
        results[run.ids[CATALOG_PROJECTION]].product_version = run.seen

ReadyInv == HasMandatory /\ Reviewed /\ NotBlocked /\ AsProjected

ReviewsKept == \A j \in JobIds : reviews[j] = "COMPLETED" => reviews'[j] = "COMPLETED"

LEMMA AdvanceReady ==
    ASSUME TypeOK, NEW s \in Position, NEW ids \in [Position -> JobIds \cup {NoJob}],
           \A t \in Mandatory : t <= s => ids[t] # NoJob,
           ids[HUMAN_REVIEW] # NoJob => reviews'[ids[HUMAN_REVIEW]] = "COMPLETED",
           Advance(s, ids), UNCHANGED results
    PROVE  ReadyInv'
<1> DEFINE ahead == {t \in Position : t > s /\ ~optional_skip(t, ids)}
           least == CHOOSE t \in ahead : \A u \in ahead : t <= u
<1>1. Length \in Nat \ {0} /\ Position = 1 .. Length /\ run \in Run
  BY ExecutorAssumption DEF Position, TypeOK
<1>2. \A t \in Mandatory : t \in Position /\ (t > s => t \in ahead)
  BY ExecutorAssumption DEF Mandatory, optional_skip
<1>3. CASE ahead = {}
  <2>1. run' = [run EXCEPT !.ids = ids, !.job = NoJob, !.position = Length + 1,
                           !.pc = "completed"]
    BY <1>3 DEF Advance
  <2>2. run'.ids = ids /\ run'.pc = "completed"
    BY <1>1, <2>1 DEF Run
  <2>3. \A t \in Mandatory : ids[t] # NoJob
    BY <1>1, <1>2, <1>3
  <2> QED
    BY <2>2, <2>3 DEF ReadyInv, HasMandatory, Reviewed, NotBlocked, AsProjected
<1>4. CASE ahead # {}
  <2>1. least \in ahead /\ \A u \in ahead : least <= u
    <3>1. ahead \in SUBSET Nat
      BY <1>1
    <3>2. \E t \in ahead : \A u \in ahead : t <= u
      <4> HIDE DEF ahead
      <4> QED BY <1>4, <3>1, LeastElement
    <3> QED
      BY <3>2
  <2>2. run' = [run EXCEPT !.ids = ids, !.job = NoJob, !.position = least,
                           !.pc = FirstStep(least)]
    BY <1>4 DEF Advance
  <2>3. least \in Position /\ ~optional_skip(least, ids)
    BY <2>1
  <2> HIDE DEF least, ahead
  <2>4. run'.ids = ids /\ run'.position = least /\ run'.pc = FirstStep(least)
    BY <1>1, <2>2 DEF Run
  <2>5. \A t \in Mandatory : t < least => ids[t] # NoJob
    BY <1>1, <1>2, <2>1, <2>3
  <2>6. HasMandatory'
    BY <2>4, <2>5 DEF HasMandatory
  <2>7. /\ FirstStep(least) \in {"find", "review", "readiness"}
        /\ FirstStep(least) = "readiness" => least = PUBLISHING_READINESS
    BY DEF FirstStep
  <2>8. ASSUME least = PUBLISHING_READINESS
        PROVE  ~Blocked(ids[CATALOG_PROJECTION])
    <3>1. ids[CATALOG_PROJECTION] # NoJob
      <4>1. CATALOG_PROJECTION \in Mandatory /\ CATALOG_PROJECTION < least
        BY <2>8, ExecutorAssumption, PipelineAssumption DEF Mandatory, JobPositions
      <4> QED
        BY <2>5, <4>1
    <3> QED
      BY <2>3, <2>8, <3>1, PipelineAssumption DEF optional_skip
  <2>9. NotBlocked' /\ AsProjected'
    BY <2>4, <2>7, <2>8 DEF NotBlocked, AsProjected, Blocked
  <2> QED
    BY <2>4, <2>6, <2>9 DEF ReadyInv, Reviewed
<1> QED
  BY <1>3, <1>4

LEMMA RaiseReady ==
    ASSUME IInv, ReadyInv, Raise, UNCHANGED results, ReviewsKept
    PROVE  ReadyInv'
<1>1. run \in Run /\ run.ids \in [Position -> JobIds \cup {NoJob}]
  BY DEF IInv, TypeOK, Run
<1>2. run.ids[HUMAN_REVIEW] # NoJob => reviews'[run.ids[HUMAN_REVIEW]] = "COMPLETED"
  BY <1>1, ExecutorAssumption DEF ReadyInv, Reviewed, ReviewsKept
<1>3. CASE run.position \in OPTIONAL_STAGES
  <2>1. run.position \in Position /\ Advance(run.position, run.ids)
    BY <1>3, ExecutorAssumption DEF Raise, JobPositions
  <2>2. \A t \in Mandatory : t <= run.position => run.ids[t] # NoJob
    <3>1. \A t \in Mandatory : t # run.position /\ t \in Position
      BY <1>3 DEF Mandatory
    <3> QED
      BY <2>1, <3>1, ExecutorAssumption DEF ReadyInv, HasMandatory, Position
  <2> QED
    BY <1>1, <1>2, <2>1, <2>2, AdvanceReady DEF IInv
<1>4. CASE run.position \notin OPTIONAL_STAGES
  <2>1. run'.pc = "failed" /\ run'.ids = run.ids /\ run'.position = run.position
    BY <1>1, <1>4 DEF Raise, Goto, Run
  <2> QED
    BY <1>2, <2>1 DEF ReadyInv, HasMandatory, Reviewed, NotBlocked, AsProjected
<1> QED
  BY <1>3, <1>4

LEMMA CompleteReady ==
    ASSUME IInv, ReadyInv, run.position \in Position, NEW result \in JobIds \cup {NoJob},
           Complete(result), UNCHANGED results, ReviewsKept,
           run.position \in Mandatory => result # NoJob,
           run.position = HUMAN_REVIEW => reviews'[result] = "COMPLETED"
    PROVE  ReadyInv'
<1> DEFINE ids == [run.ids EXCEPT ![run.position] = result]
<1>1. run.ids \in [Position -> JobIds \cup {NoJob}] /\ ids \in [Position -> JobIds \cup {NoJob}]
  BY DEF IInv, TypeOK, Run
<1>2. \A t \in Mandatory : t <= run.position => ids[t] # NoJob
  BY <1>1, ExecutorAssumption DEF ReadyInv, HasMandatory, Mandatory, Position
<1>3. ids[HUMAN_REVIEW] # NoJob => reviews'[ids[HUMAN_REVIEW]] = "COMPLETED"
  <2>1. HUMAN_REVIEW \in Position
    BY ExecutorAssumption
  <2> QED
    BY <1>1, <2>1 DEF ReadyInv, Reviewed, ReviewsKept
<1>4. Advance(run.position, ids)
  BY DEF Complete
<1> HIDE DEF ids
<1> QED
  BY <1>1, <1>2, <1>3, <1>4, AdvanceReady DEF IInv

\* The run stays at its position.
LEMMA StayReady ==
    ASSUME IInv, ReadyInv, UNCHANGED <<run.ids, run.position>>, ReviewsKept,
           run'.pc \in {"readiness", "apply", "mark"} =>
               UNCHANGED results /\ run.pc \in {"readiness", "apply", "mark"},
           run'.pc = "mark" =>
               results'[run.ids[CATALOG_PROJECTION]].product_version = run'.seen
    PROVE  ReadyInv'
<1>1. run.ids \in [Position -> JobIds \cup {NoJob}]
  BY DEF IInv, TypeOK, Run
<1>2. Reviewed'
  BY <1>1, ExecutorAssumption DEF ReadyInv, Reviewed, ReviewsKept
<1>3. HasMandatory' /\ AsProjected'
  BY DEF ReadyInv, HasMandatory, AsProjected
<1>4. NotBlocked'
  BY DEF ReadyInv, NotBlocked, Blocked
<1> QED
  BY <1>2, <1>3, <1>4 DEF ReadyInv

\* The steps up to the service and of it.
LEMMA ServiceReady ==
    ASSUME IInv, ReadyInv,
           \/ find_compatible_job \/ load_result \/ create_job \/ check_job \/ start_job
           \/ store_result \/ fail_job \/ complete_job \/ report_result
    PROVE  ReadyInv'
<1>1. /\ run \in Run /\ run.position \in Position /\ ReviewsKept
      /\ run.pc \in Serving \cup {"find", "load", "create"}
      /\ run.position # HUMAN_REVIEW
  <2>1. run.pc \in Serving \cup {"find", "load", "create"} /\ UNCHANGED reviews
    BY DEF find_compatible_job, load_result, create_job, check_job, start_job, store_result,
           fail_job, complete_job, report_result, Serving
  <2>2. run.position \in JobPositions
    BY <2>1 DEF IInv, RunOK, RunShape
  <2> QED
    BY <2>1, <2>2 DEF IInv, TypeOK, JobPositions, ReviewsKept
<1>2. \/ Raise /\ UNCHANGED results
      \/ /\ run.pc \in {"load", "report"} /\ Complete(run.job)
         /\ UNCHANGED results
      \/ \E pc \in {"create", "load", "check", "start", "store", "complete", "fail", "report"},
            job \in {run'.job}, seen \in {run'.seen} :
            run' = [run EXCEPT !.pc = pc, !.job = job, !.seen = seen]
  <2>1. CASE find_compatible_job
    BY <1>1, <2>1 DEF find_compatible_job, Run
  <2>2. CASE load_result
    BY <2>2 DEF load_result
  <2>3. CASE create_job
    BY <1>1, <2>3 DEF create_job, Run
  <2>4. CASE check_job
    BY <1>1, <2>4 DEF check_job, Run
  <2>5. CASE start_job
    BY <1>1, <2>5 DEF start_job, Goto, Run
  <2>6. CASE store_result
    BY <1>1, <2>6 DEF store_result, Goto, Run
  <2>7. CASE fail_job
    BY <2>7 DEF fail_job
  <2>8. CASE complete_job
    BY <1>1, <2>8 DEF complete_job, Goto, Run
  <2>9. CASE report_result
    BY <2>9 DEF report_result
  <2> QED
    BY <2>1, <2>2, <2>3, <2>4, <2>5, <2>6, <2>7, <2>8, <2>9
<1>3. CASE Raise /\ UNCHANGED results
  BY <1>1, <1>3, RaiseReady
<1>4. CASE run.pc \in {"load", "report"} /\ Complete(run.job) /\ UNCHANGED results
  <2>1. run.job \in JobIds /\ run.job # NoJob
    BY <1>4 DEF IInv, RunOK, OwnJob, StandsFor, Serving, JobIds, NoJob
  <2> QED
    BY <1>1, <1>4, <2>1, CompleteReady
<1>5. ASSUME NEW pc \in {"create", "load", "check", "start", "store", "complete", "fail", "report"},
             NEW job, NEW seen,
             run' = [run EXCEPT !.pc = pc, !.job = job, !.seen = seen]
      PROVE  ReadyInv'
  <2>1. UNCHANGED <<run.ids, run.position>> /\ run'.pc = pc
    BY <1>1, <1>5 DEF Run
  <2> QED
    BY <1>1, <2>1, StayReady
<1> QED
  BY <1>2, <1>3, <1>4, <1>5

\* The steps of the review and of the readiness position.
LEMMA ReadinessReady ==
    ASSUME IInv, ReadyInv,
           \/ human_review \/ resume
           \/ publishing_readiness \/ readiness_apply \/ mark_ready_to_publish
    PROVE  ReadyInv'
<1>1. run \in Run /\ UNCHANGED results
  BY DEF IInv, TypeOK, human_review, resume, publishing_readiness, readiness_apply,
         mark_ready_to_publish
<1>2. CASE human_review
  <2> DEFINE selection == run.ids[ATTRIBUTE_SELECTION]
             marked == IF product.status = "REVIEW_REQUIRED" THEN product
                       ELSE [version |-> product.version + 1, status |-> "REVIEW_REQUIRED"]
  <2>1. run.position = HUMAN_REVIEW /\ run.position \in Position
    BY <1>2, ExecutorAssumption DEF human_review, IInv, RunOK, RunShape
  <2>2. selection \in JobIds
    <3>1. ATTRIBUTE_SELECTION \in Mandatory
      BY ExecutorAssumption, PipelineAssumption DEF Mandatory, JobPositions
    <3>2. selection # NoJob
      BY <2>1, <3>1, PipelineAssumption DEF ReadyInv, HasMandatory
    <3>3. selection \in JobIds \cup {NoJob}
      BY <1>1, <3>1 DEF Mandatory, Run
    <3> QED
      BY <3>2, <3>3
  <2>3. ReviewsKept
    <3>1. UNCHANGED reviews \/ (/\ reviews[selection] # "COMPLETED"
                                /\ reviews' = [reviews EXCEPT ![selection] = "OPEN"])
      BY <1>2 DEF human_review
    <3> QED
      BY <2>2, <3>1 DEF ReviewsKept, IInv, TypeOK
  <2>4. CASE Raise
    BY <1>1, <2>3, <2>4, RaiseReady
  <2>5. CASE Complete(selection) /\ reviews[selection] = "COMPLETED" /\ UNCHANGED reviews
    <3>1. selection # NoJob
      BY <2>2 DEF JobIds, NoJob
    <3> HIDE DEF selection
    <3> QED
      BY <1>1, <2>1, <2>2, <2>3, <2>5, <3>1, CompleteReady
  <2>6. CASE run' = [run EXCEPT !.pc = "waiting", !.seen = marked.version]
    <3> HIDE DEF marked
    <3>1. UNCHANGED <<run.ids, run.position>> /\ run'.pc = "waiting"
      BY <1>1, <2>6 DEF Run
    <3> QED
      BY <2>3, <3>1, StayReady
  <2> QED
    BY <1>2, <2>4, <2>5, <2>6 DEF human_review
<1>3. CASE resume
  <2>1. UNCHANGED <<run.ids, run.position>> /\ run'.pc = "review" /\ ReviewsKept
    BY <1>1, <1>3 DEF resume, Goto, Run, ReviewsKept
  <2> QED
    BY <2>1, StayReady
<1>4. ASSUME publishing_readiness \/ readiness_apply \/ mark_ready_to_publish
      PROVE  /\ run.position \in Position /\ run.position # HUMAN_REVIEW
             /\ run.position \notin Mandatory /\ ReviewsKept
             /\ NoJob \in JobIds \cup {NoJob}
  BY <1>4, ExecutorAssumption
     DEF publishing_readiness, readiness_apply, mark_ready_to_publish, IInv, RunOK, RunShape,
         Mandatory, ReviewsKept
<1>5. CASE publishing_readiness
  <2>1. CASE Raise
    BY <1>1, <1>4, <1>5, <2>1, RaiseReady
  <2>2. CASE Complete(NoJob)
    BY <1>1, <1>4, <1>5, <2>2, CompleteReady
  <2>3. CASE run' = [run EXCEPT !.pc = "apply", !.seen = product.version]
    <3>1. UNCHANGED <<run.ids, run.position>> /\ run'.pc = "apply" /\ run.pc = "readiness"
      BY <1>1, <1>5, <2>3 DEF publishing_readiness, Run
    <3> QED
      BY <1>1, <1>4, <1>5, <3>1, StayReady
  <2> QED
    BY <1>5, <2>1, <2>2, <2>3 DEF publishing_readiness
<1>6. CASE readiness_apply
  <2>1. CASE Raise
    BY <1>1, <1>4, <1>6, <2>1, RaiseReady
  <2>2. CASE /\ Goto("mark") /\ product.version = run.seen
             /\ results[run.ids[CATALOG_PROJECTION]].product_version = product.version
    <3>1. /\ UNCHANGED <<run.ids, run.position, run.seen>>
          /\ run'.pc = "mark" /\ run.pc = "apply"
      BY <1>1, <1>6, <2>2 DEF readiness_apply, Goto, Run
    <3> QED
      BY <1>1, <1>4, <1>6, <2>2, <3>1, StayReady
  <2> QED
    BY <1>6, <2>1, <2>2 DEF readiness_apply
<1>7. CASE mark_ready_to_publish
  BY <1>1, <1>4, <1>7, RaiseReady, CompleteReady DEF mark_ready_to_publish
<1> QED
  BY <1>2, <1>3, <1>5, <1>6, <1>7

LEMMA NextReady ==
    ASSUME IInv, ReadyInv, [Next]_vars
    PROVE  ReadyInv'
<1>1. CASE execute
  BY <1>1, ServiceReady, ReadinessReady DEF execute
<1>2. CASE resume
  BY <1>2, ReadinessReady
<1>3. CASE start
  <2>1. run'.pc = "find" /\ run'.position = 1 /\ run'.ids = NoIds
    BY <1>3 DEF start
  <2>2. \A t \in Position : ~(t < 1) /\ NoIds[t] = NoJob
    BY ExecutorAssumption DEF Position, NoIds
  <2> QED
    BY <2>1, <2>2, ExecutorAssumption
       DEF ReadyInv, HasMandatory, Reviewed, NotBlocked, AsProjected, Mandatory
<1>4. CASE \/ edit_product \/ add_source
           \/ \E j \in JobIds : index_job(j) \/ index_result(j) \/ complete_review(j)
           \/ UNCHANGED vars
  <2>1. UNCHANGED <<run, results>>
    BY <1>4 DEF edit_product, add_source, index_job, index_result, complete_review, vars
  <2>2. ReviewsKept
    BY <1>4 DEF edit_product, add_source, index_job, index_result, complete_review, vars,
                ReviewsKept, IInv, TypeOK
  <2> QED
    BY <2>1, <2>2, StayReady DEF ReadyInv, AsProjected
<1> QED
  BY <1>1, <1>2, <1>3, <1>4 DEF Next

\* The executor marks the product READY_TO_PUBLISH only for the projection of
\* the very version it marks, one that is not BLOCKED, and after the review,
\* whatever is edited in between; a PATCH may not set that status itself.
THEOREM ReadyAsProjected ==
    ASSUME "READY_TO_PUBLISH" \notin PatchStatuses
    PROVE  Spec => ReadyOnlyAsProjected
<1>1. Init => ReadyInv
  <2>1. ASSUME Init
        PROVE  run.pc = "none" /\ run.position = 1 /\ run.ids = NoIds
    BY <2>1 DEF Init
  <2>2. \A t \in Position : ~(t < 1) /\ NoIds[t] = NoJob
    BY ExecutorAssumption DEF Position, NoIds
  <2> QED
    BY <2>1, <2>2, ExecutorAssumption
       DEF ReadyInv, HasMandatory, Reviewed, NotBlocked, AsProjected, Mandatory
<1>2. IInv /\ ReadyInv /\ [Next]_vars => ReadyInv'
  BY NextReady
<1>3. IInv /\ ReadyInv /\ [Next]_vars =>
        [ product.status # "READY_TO_PUBLISH" /\ product'.status = "READY_TO_PUBLISH" =>
            /\ results[run.ids[CATALOG_PROJECTION]].product_version = product.version
            /\ results[run.ids[CATALOG_PROJECTION]].projection # "BLOCKED"
            /\ reviews[run.ids[HUMAN_REVIEW]] = "COMPLETED" ]_vars
  <2>1. SUFFICES ASSUME IInv, ReadyInv, Next,
                        product.status # "READY_TO_PUBLISH",
                        product'.status = "READY_TO_PUBLISH"
                 PROVE  /\ results[run.ids[CATALOG_PROJECTION]].product_version = product.version
                        /\ results[run.ids[CATALOG_PROJECTION]].projection # "BLOCKED"
                        /\ reviews[run.ids[HUMAN_REVIEW]] = "COMPLETED"
    OBVIOUS
  <2>2. ~UNCHANGED product
    BY <2>1
  <2>3. ~edit_product
    BY <2>1 DEF edit_product
  <2>4. ~human_review
    <3>1. ASSUME human_review
          PROVE  product'.status \in {product.status, "REVIEW_REQUIRED"}
      BY <3>1 DEF human_review
    <3> QED
      BY <2>1, <3>1
  <2>5. mark_ready_to_publish
    BY <2>1, <2>2, <2>3, <2>4
       DEF Next, execute, find_compatible_job, load_result, create_job, check_job, start_job,
           store_result, fail_job, complete_job, report_result, publishing_readiness,
           readiness_apply, start, resume, add_source, index_job, index_result, complete_review
  <2>6. run.pc = "mark" /\ product.version = run.seen
    BY <2>2, <2>5 DEF mark_ready_to_publish
  <2>7. run.ids[HUMAN_REVIEW] # NoJob
    <3>1. HUMAN_REVIEW \in Mandatory /\ HUMAN_REVIEW < PUBLISHING_READINESS
      BY ExecutorAssumption, PipelineAssumption DEF Mandatory, JobPositions, Position
    <3> QED
      BY <2>1, <2>6, <3>1 DEF ReadyInv, HasMandatory, IInv, RunOK, RunShape
  <2> QED
    BY <2>1, <2>6, <2>7 DEF ReadyInv, Reviewed, NotBlocked, AsProjected, Blocked
<1> QED
  BY <1>1, <1>2, <1>3, StageInvariant, PTL DEF Spec, ReadyOnlyAsProjected

===============================================================================
