---------------------------- MODULE StageExecution ----------------------------
(***************************************************************************)
(* How ExistingServicesCatalogWorkflowStageExecutor gets one product       *)
(* through the pipeline: a stage reuses a COMPLETED job with the same      *)
(* lineage or creates a job and has a service run it, and what the         *)
(* services leave behind (jobs, results, uniqueness guards) decides what   *)
(* the next workflow of the product can reuse.                             *)
(*                                                                         *)
(* A product has one active workflow and that has one driver (theorems     *)
(* OneActiveWorkflow and AtMostOneDriver of CatalogWorkflowProofs), so     *)
(* there is one run at a time; product edits, new sources, the reviewer    *)
(* and the catching up of the indexes interleave with its steps.  A        *)
(* crashed run keeps the guard, so no other run of the product follows it. *)
(*                                                                         *)
(* A position of the pipeline (Position) is a child job of                 *)
(* SOURCE_PROCESSING or a stage.  A job stores at most one result, which   *)
(* is known here by the id of its job; a review by its selection.          *)
(***************************************************************************)
EXTENDS Naturals, FiniteSets

CONSTANTS
    Length,          \* number of positions of the pipeline
    CHILD_JOBS,      \* the child jobs of SOURCE_PROCESSING
    Lineage,         \* position -> positions whose result ids its job carries
    UNIQUE,          \* positions whose repository keeps a GUARD per lineage
    TRANSACTED,      \* positions whose result is written in one transaction
    OPTIONAL_STAGES,
    PRODUCT_CLASSIFICATION, ATTRIBUTE_SELECTION, HUMAN_REVIEW,
    CATALOG_PROJECTION, PUBLISHING_READINESS,
    SkipIfBlocked,   \* stages skipped for a BLOCKED projection
    PatchStatuses,   \* statuses a PATCH of the product may set
    ProjectionStatuses,  \* statuses the projection engine may come to
    ClearEvidence,   \* the least evidence that can be classified
    MaxEvidence,     \* bound on the number of source additions
    MaxVersion,      \* bound on the product's version
    MaxJobs,         \* bound on the number of jobs
    MaxFaults,       \* bound on injected faults
    PatientClient    \* a workflow starts only when the indexes have caught up

Position == 1 .. Length

JobIds == 1 .. MaxJobs

NoJob == 0

JobPositions == Position \ {HUMAN_REVIEW, PUBLISHING_READINESS}

ASSUME ExecutorAssumption ==
    /\ Length \in Nat \ {0}
    /\ Lineage \in [Position -> SUBSET Position]
    /\ \A s \in Position : \A u \in Lineage[s] : u < s
    /\ CHILD_JOBS \subseteq JobPositions
    /\ OPTIONAL_STAGES \subseteq JobPositions
    /\ UNIQUE \subseteq JobPositions
    /\ TRANSACTED \subseteq JobPositions
    /\ {PRODUCT_CLASSIFICATION, ATTRIBUTE_SELECTION, CATALOG_PROJECTION} \subseteq JobPositions
    /\ {HUMAN_REVIEW, PUBLISHING_READINESS} \subseteq Position
    /\ HUMAN_REVIEW # PUBLISHING_READINESS
    /\ SkipIfBlocked \subseteq OPTIONAL_STAGES \cup {PUBLISHING_READINESS}
    /\ 1 \in JobPositions \ OPTIONAL_STAGES
    /\ PatchStatuses \subseteq {"DRAFT", "REVIEW_REQUIRED", "READY_TO_PUBLISH"}
    /\ ProjectionStatuses \subseteq {"READY", "READY_WITH_WARNINGS", "BLOCKED"}
    /\ ClearEvidence \in Nat /\ MaxEvidence \in Nat /\ MaxVersion \in Nat
    /\ MaxJobs \in Nat /\ MaxFaults \in Nat
    /\ PatientClient \in BOOLEAN

\* The order of the pipeline that readiness relies on; only export,
\* enrichment and score are optional.
ASSUME PipelineAssumption ==
    /\ ATTRIBUTE_SELECTION < HUMAN_REVIEW
    /\ HUMAN_REVIEW < CATALOG_PROJECTION
    /\ CATALOG_PROJECTION < PUBLISHING_READINESS
    /\ {ATTRIBUTE_SELECTION, CATALOG_PROJECTION} \cap OPTIONAL_STAGES = {}
    /\ PUBLISHING_READINESS \in SkipIfBlocked

VARIABLES
    product,        \* version and status of the product
    evidence,       \* how many times its sources were added to
    jobs,           \* the jobs table
    indexed,        \* what the index behind list_by_product returns
    results,        \* the result tables
    resultIndexed,  \* results that get_by_job_id and the like find
    reviews,        \* status of the review of every selection
    run,            \* the workflow being driven
    faults

vars == <<product, evidence, jobs, indexed, results, resultIndexed, reviews, run, faults>>

Absent == [status |-> "ABSENT"]

ProcessingJob ==
    [ position  : JobPositions,
      lineage   : [Position -> JobIds \cup {NoJob}],
      status    : {"PENDING", "RUNNING", "COMPLETED", "FAILED"},
      reference : BOOLEAN,    \* result_reference is set
      version   : Nat ]

\* whole: all records are there, not only META (and GUARD).  resolved: the
\* classification came to a category.
StoredResult ==
    [ status          : {"STORED"},
      whole           : BOOLEAN,
      resolved        : BOOLEAN,
      projection      : {"READY", "READY_WITH_WARNINGS", "BLOCKED"},
      product_version : Nat ]

RunStep ==
    {"none", "failed", "completed",                  \* no active workflow
     "find", "load", "create",                       \* execute
     "check", "start", "store", "fail", "complete",  \* the service
     "report",                                       \* execute, after the service
     "review", "waiting", "readiness", "apply", "mark"}

Ended == {"none", "failed", "completed"}

Run ==
    [ pc       : RunStep,
      position : 1 .. Length + 1,
      ids      : [Position -> JobIds \cup {NoJob}],  \* result ids of the workflow
      job      : JobIds \cup {NoJob},
      seen     : Nat,                                \* product version read last
      snapshot : Nat,                                \* sources at the start
      enabled  : SUBSET (OPTIONAL_STAGES \cup {PUBLISHING_READINESS}) ]

TypeOK ==
    /\ product \in [version : Nat, status : {"DRAFT", "REVIEW_REQUIRED", "READY_TO_PUBLISH"}]
    /\ evidence \in Nat
    /\ jobs \in [JobIds -> ProcessingJob \cup {Absent}]
    /\ indexed \in [JobIds -> ProcessingJob \cup {Absent}]
    /\ results \in [JobIds -> StoredResult \cup {Absent}]
    /\ resultIndexed \subseteq JobIds
    /\ reviews \in [JobIds -> {"NONE", "OPEN", "COMPLETED"}]
    /\ run \in Run
    /\ faults \in Nat

NoIds == [s \in Position |-> NoJob]

Init ==
    /\ product = [version |-> 1, status |-> "DRAFT"]
    /\ evidence = 0
    /\ jobs = [j \in JobIds |-> Absent]
    /\ indexed = jobs
    /\ results = [j \in JobIds |-> Absent]
    /\ resultIndexed = {}
    /\ reviews = [j \in JobIds |-> "NONE"]
    /\ run = [pc |-> "none", position |-> 1, ids |-> NoIds, job |-> NoJob,
              seen |-> 1, snapshot |-> 0, enabled |-> {}]
    /\ faults = 0

-------------------------------------------------------------------------------

Fault ==
    /\ faults < MaxFaults
    /\ faults' = faults + 1

Goto(pc) == run' = [run EXCEPT !.pc = pc]

Blocked(projection) == results[projection].projection = "BLOCKED"

\* A stage is skipped if the configuration disables it or the projection
\* it needs is BLOCKED.
optional_skip(s, ids) ==
    \/ s \in (OPTIONAL_STAGES \cup {PUBLISHING_READINESS}) \ run.enabled
    \/ /\ s \in SkipIfBlocked
       /\ ids[CATALOG_PROJECTION] # NoJob
       /\ Blocked(ids[CATALOG_PROJECTION])

FirstStep(s) ==
    CASE s = HUMAN_REVIEW         -> "review"
      [] s = PUBLISHING_READINESS -> "readiness"
      [] OTHER                    -> "find"

\* The workflow goes on after position s: to the next position that is not
\* skipped, or to its end.
Advance(s, ids) ==
    LET ahead == {t \in Position : t > s /\ ~optional_skip(t, ids)}
    IN  run' = [run EXCEPT
                 !.ids = ids,
                 !.job = NoJob,
                 !.position = IF ahead = {} THEN Length + 1
                              ELSE CHOOSE t \in ahead : \A u \in ahead : t <= u,
                 !.pc = IF ahead = {} THEN "completed"
                        ELSE FirstStep(CHOOSE t \in ahead : \A u \in ahead : t <= u)]

\* An exception of the stage: the workflow fails, unless the stage is
\* optional (and the workflow not strict).
Raise ==
    IF run.position \in OPTIONAL_STAGES THEN Advance(run.position, run.ids) ELSE Goto("failed")

Complete(result) == Advance(run.position, [run.ids EXCEPT ![run.position] = result])

-------------------------------------------------------------------------------
(* execute: find a compatible job or create one.                           *)

\* The lineage identifiers _new_job gives a job of position s.
new_lineage(s, ids) == [u \in Position |-> IF u \in Lineage[s] THEN ids[u] ELSE NoJob]

\* Mutant: the type of the job is not looked at.
reusable_any_type(job, s) == job # Absent /\ job.status = "COMPLETED" /\ job.reference

reusable(job, s) ==
    /\ job # Absent
    /\ job.position = s
    /\ job.status = "COMPLETED"
    /\ job.reference

\* Mutant: the status is not looked at.
compatible_any_status ==
    {j \in JobIds : /\ indexed[j] # Absent
                    /\ indexed[j].position = run.position
                    /\ indexed[j].lineage = new_lineage(run.position, run.ids)}

\* Mutant: the identifiers of all stages are compared, not the job's own.
compatible_all_ids ==
    {j \in JobIds : reusable(indexed[j], run.position) /\ indexed[j].lineage = run.ids}

compatible == {j \in JobIds : /\ reusable(indexed[j], run.position)
                              /\ indexed[j].lineage = new_lineage(run.position, run.ids)}

\* The listing is newest first; job ids are given out in order of creation.
find_compatible_job ==
    /\ run.pc = "find"
    /\ \/ /\ run' = IF compatible = {} THEN [run EXCEPT !.pc = "create"]
                    ELSE [run EXCEPT !.pc = "load",
                                     !.job = CHOOSE j \in compatible :
                                                 \A k \in compatible : j >= k]
          /\ UNCHANGED faults
       \/ Fault /\ Raise
    /\ UNCHANGED <<product, evidence, jobs, indexed, results, resultIndexed, reviews>>

\* The result of a reused job is looked up by job id in an index.
Usable(s, result) == s = PRODUCT_CLASSIFICATION => results[result].resolved

load_result ==
    /\ run.pc = "load"
    /\ \/ /\ IF run.job \in resultIndexed /\ Usable(run.position, run.job)
             THEN Complete(run.job) ELSE Raise
          /\ UNCHANGED faults
       \/ Fault /\ Raise
    /\ UNCHANGED <<product, evidence, jobs, indexed, results, resultIndexed, reviews>>

NewJob ==
    [ position  |-> run.position,
      lineage   |-> new_lineage(run.position, run.ids),
      status    |-> "PENDING",
      reference |-> FALSE,
      version   |-> 1 ]

create_job ==
    /\ run.pc = "create"
    /\ \E j \in JobIds :
        /\ jobs[j] = Absent
        /\ \A k \in JobIds : k < j => jobs[k] # Absent
        /\ LET Put == jobs' = [jobs EXCEPT ![j] = NewJob]
           IN  \/ Put /\ run' = [run EXCEPT !.pc = "check", !.job = j] /\ UNCHANGED faults
               \/ Fault /\ Raise /\ (Put \/ UNCHANGED jobs)
    /\ UNCHANGED <<product, evidence, indexed, results, resultIndexed, reviews>>

-------------------------------------------------------------------------------
(* The service that runs a job: all of them have the same control.         *)

\* update(job, expected_version) of the job repository.
CanUpdate(j, expected) == jobs[j] # Absent /\ jobs[j].version = expected

Update(j, status, reference, expected) ==
    jobs' = [jobs EXCEPT ![j].status = status,
                         ![j].reference = reference,
                         ![j].version = expected + 1]

\* An update that raised, applied or not.
MaybeUpdate(j, status, reference, expected) ==
    \/ UNCHANGED jobs
    \/ CanUpdate(j, expected) /\ Update(j, status, reference, expected)

\* The upstream artifacts the service reads by the job's lineage.
UpstreamUsable(s, ids) ==
    \A u \in {v \in Lineage[s] : ids[v] # NoJob} :
        IF u = HUMAN_REVIEW THEN reviews[ids[u]] = "COMPLETED"
        ELSE results[ids[u]] # Absent /\ results[ids[u]].whole

\* Results whose GUARD has the lineage of job j.
Rivals(j) ==
    {k \in JobIds : /\ results[k] # Absent
                    /\ jobs[k].position = jobs[j].position
                    /\ jobs[k].lineage = jobs[j].lineage}

\* The reads of the service before it starts the job; an error leaves the
\* job PENDING.
check_job ==
    /\ run.pc = "check"
    /\ LET j == run.job
           ok == /\ jobs[j].status = "PENDING"
                 /\ UpstreamUsable(run.position, run.ids)
                 /\ run.position \in UNIQUE => Rivals(j) \cap resultIndexed = {}
       IN  \/ ok /\ run' = [run EXCEPT !.pc = "start", !.seen = product.version] /\ UNCHANGED faults
           \/ ~ok /\ Raise /\ UNCHANGED faults
           \/ Fault /\ Raise
    /\ UNCHANGED <<product, evidence, jobs, indexed, results, resultIndexed, reviews>>

start_job ==
    /\ run.pc = "start"
    /\ \/ /\ UNCHANGED faults
          /\ IF CanUpdate(run.job, 1)
             THEN Update(run.job, "RUNNING", FALSE, 1) /\ Goto("store")
             ELSE Raise /\ UNCHANGED jobs
       \/ Fault /\ Raise /\ MaybeUpdate(run.job, "RUNNING", FALSE, 1)
    /\ UNCHANGED <<product, evidence, indexed, results, resultIndexed, reviews>>

\* The engine's result.  Classification reads the sources as they are now;
\* the projection carries the product version read by check_job.
NewResult(whole, projection) ==
    [ status |-> "STORED", whole |-> whole, resolved |-> evidence >= ClearEvidence,
      projection |-> projection, product_version |-> run.seen ]

\* Mutant: META is put without the GUARD.
MayStore_no_guard(j) == results[j] = Absent

\* META and GUARD are put in one transaction, so a GUARD of this lineage
\* makes the whole write fail.
MayStore(j) ==
    /\ results[j] = Absent
    /\ run.position \in UNIQUE => Rivals(j) = {}

\* Mutant: an incomplete write is not noticed.
store_result_ignores_errors ==
    /\ run.pc = "store"
    /\ \E projection \in ProjectionStatuses, whole \in BOOLEAN :
        /\ MayStore(run.job)
        /\ results' = [results EXCEPT ![run.job] = NewResult(whole, projection)]
        /\ Goto("complete")
        /\ IF whole THEN UNCHANGED faults ELSE Fault
    /\ UNCHANGED <<product, evidence, jobs, indexed, resultIndexed, reviews>>

\* The engine and results.create.  An error of either leads to _fail: of
\* the engine with nothing written, of a put after META with part written.
store_result ==
    /\ run.pc = "store"
    /\ \E projection \in ProjectionStatuses :
        LET Put(whole) == /\ MayStore(run.job)
                          /\ results' = [results EXCEPT ![run.job] = NewResult(whole, projection)]
        IN  \/ Put(TRUE) /\ Goto("complete") /\ UNCHANGED faults
            \/ ~MayStore(run.job) /\ Goto("fail") /\ UNCHANGED <<results, faults>>
            \/ /\ Fault
               /\ Goto("fail")
               /\ \/ UNCHANGED results
                  \/ Put(TRUE)
                  \/ run.position \notin TRANSACTED /\ Put(FALSE)
    /\ UNCHANGED <<product, evidence, jobs, indexed, resultIndexed, reviews>>

\* _fail: an error of its own update is logged, not raised.
fail_job ==
    /\ run.pc = "fail"
    /\ Raise
    /\ \/ /\ UNCHANGED faults
          /\ IF CanUpdate(run.job, 2)
             THEN Update(run.job, "FAILED", FALSE, 2)
             ELSE UNCHANGED jobs
       \/ Fault /\ MaybeUpdate(run.job, "FAILED", FALSE, 2)
    /\ UNCHANGED <<product, evidence, indexed, results, resultIndexed, reviews>>

\* An error here is the "completion consistency risk": the result is
\* stored and the job may stay RUNNING.
complete_job ==
    /\ run.pc = "complete"
    /\ \/ /\ UNCHANGED faults
          /\ IF CanUpdate(run.job, 2)
             THEN Update(run.job, "COMPLETED", TRUE, 2) /\ Goto("report")
             ELSE Raise /\ UNCHANGED jobs
       \/ Fault /\ Raise /\ MaybeUpdate(run.job, "COMPLETED", TRUE, 2)
    /\ UNCHANGED <<product, evidence, indexed, results, resultIndexed, reviews>>

\* execute goes on with the job that create returned, which it does not
\* read again: NewJob, whose result_reference is not set.  The child jobs
\* of SOURCE_PROCESSING are not asked for it.
completed_reference(job) == run.position \in CHILD_JOBS \/ job.reference

report_result ==
    /\ run.pc = "report"
    /\ IF Usable(run.position, run.job) /\ completed_reference(NewJob)
       THEN Complete(run.job) ELSE Raise
    /\ UNCHANGED <<product, evidence, jobs, indexed, results, resultIndexed, reviews, faults>>

-------------------------------------------------------------------------------
(* HUMAN_REVIEW and PUBLISHING_READINESS; CatalogWorkflow has their calls  *)
(* as steps of their own, here what they leave is enough.                  *)

human_review ==
    /\ run.pc = "review"
    /\ LET selection == run.ids[ATTRIBUTE_SELECTION]
           marked == IF product.status = "REVIEW_REQUIRED" THEN product
                     ELSE [version |-> product.version + 1, status |-> "REVIEW_REQUIRED"]
       IN  \/ /\ reviews[selection] = "COMPLETED"
               /\ Complete(selection)
               /\ UNCHANGED <<product, reviews, faults>>
           \/ /\ reviews[selection] # "COMPLETED"
               /\ reviews' = [reviews EXCEPT ![selection] = "OPEN"]
               /\ product' = marked
               /\ run' = [run EXCEPT !.pc = "waiting", !.seen = marked.version]
               /\ UNCHANGED faults
           \/ /\ Fault
               /\ Raise
               /\ \/ UNCHANGED <<reviews, product>>
                  \/ /\ reviews[selection] # "COMPLETED"
                     /\ reviews' = [reviews EXCEPT ![selection] = "OPEN"]
                     /\ product' \in {product, marked}
    /\ UNCHANGED <<evidence, jobs, indexed, results, resultIndexed>>

resume ==
    /\ run.pc = "waiting"
    /\ product.version = run.seen
    /\ evidence = run.snapshot
    /\ reviews[run.ids[ATTRIBUTE_SELECTION]] = "COMPLETED"
    /\ Goto("review")
    /\ UNCHANGED <<product, evidence, jobs, indexed, results, resultIndexed, reviews, faults>>

\* The executor's own read of the product.
publishing_readiness ==
    /\ run.pc = "readiness"
    /\ \/ /\ product.status = "READY_TO_PUBLISH"
          /\ Complete(NoJob)
          /\ UNCHANGED faults
       \/ /\ product.status # "READY_TO_PUBLISH"
          /\ run' = [run EXCEPT !.pc = "apply", !.seen = product.version]
          /\ UNCHANGED faults
       \/ Fault /\ Raise
    /\ UNCHANGED <<product, evidence, jobs, indexed, results, resultIndexed, reviews>>

\* Mutant: the projection's product version is not compared.
readiness_apply_any_projection ==
    /\ run.pc = "apply"
    /\ \/ /\ product.version = run.seen
          /\ product.status = "REVIEW_REQUIRED"
          /\ Goto("mark")
          /\ UNCHANGED faults
       \/ product.status # "REVIEW_REQUIRED" /\ Raise /\ UNCHANGED faults
    /\ UNCHANGED <<product, evidence, jobs, indexed, results, resultIndexed, reviews>>

readiness_apply ==
    /\ run.pc = "apply"
    /\ LET ok == /\ product.version = run.seen
                 /\ results[run.ids[CATALOG_PROJECTION]].product_version = product.version
                 /\ product.status = "REVIEW_REQUIRED"
       IN  \/ ok /\ Goto("mark") /\ UNCHANGED faults
           \/ ~ok /\ Raise /\ UNCHANGED faults
           \/ Fault /\ Raise
    /\ UNCHANGED <<product, evidence, jobs, indexed, results, resultIndexed, reviews>>

mark_ready_to_publish ==
    /\ run.pc = "mark"
    /\ LET ok == product.version = run.seen /\ product.status = "REVIEW_REQUIRED"
           Put == ok /\ product' = [version |-> run.seen + 1, status |-> "READY_TO_PUBLISH"]
       IN  \/ Put /\ Complete(NoJob) /\ UNCHANGED faults
           \/ ~ok /\ Raise /\ UNCHANGED <<product, faults>>
           \/ Fault /\ Raise /\ (Put \/ UNCHANGED product)
    /\ UNCHANGED <<evidence, jobs, indexed, results, resultIndexed, reviews>>

-------------------------------------------------------------------------------
(* The client, the reviewer and the indexes.                               *)

CaughtUp ==
    /\ indexed = jobs
    /\ resultIndexed = {j \in JobIds : results[j] # Absent}

\* A new workflow, once the last one has ended (the active guard).  The
\* bound leaves it a job for every position.
start ==
    /\ run.pc \in Ended
    /\ Cardinality({j \in JobIds : jobs[j] = Absent}) >= Cardinality(JobPositions)
    /\ PatientClient => CaughtUp
    /\ \E enabled \in {OPTIONAL_STAGES \cup {PUBLISHING_READINESS}, {}} :
        run' = [pc |-> "find", position |-> 1, ids |-> NoIds, job |-> NoJob,
                seen |-> product.version, snapshot |-> evidence, enabled |-> enabled]
    /\ UNCHANGED <<product, evidence, jobs, indexed, results, resultIndexed, reviews, faults>>

complete_review(selection) ==
    /\ reviews[selection] = "OPEN"
    /\ reviews' = [reviews EXCEPT ![selection] = "COMPLETED"]
    /\ UNCHANGED <<product, evidence, jobs, indexed, results, resultIndexed, run, faults>>

edit_product ==
    /\ product.version < MaxVersion
    /\ \E status \in PatchStatuses \cup {product.status} :
        product' = [version |-> product.version + 1, status |-> status]
    /\ UNCHANGED <<evidence, jobs, indexed, results, resultIndexed, reviews, run, faults>>

add_source ==
    /\ evidence < MaxEvidence
    /\ evidence' = evidence + 1
    /\ UNCHANGED <<product, jobs, indexed, results, resultIndexed, reviews, run, faults>>

index_job(j) ==
    /\ indexed[j] # jobs[j]
    /\ indexed' = [indexed EXCEPT ![j] = jobs[j]]
    /\ UNCHANGED <<product, evidence, jobs, results, resultIndexed, reviews, run, faults>>

index_result(j) ==
    /\ results[j] # Absent
    /\ j \notin resultIndexed
    /\ resultIndexed' = resultIndexed \cup {j}
    /\ UNCHANGED <<product, evidence, jobs, indexed, results, reviews, run, faults>>

execute ==
    \/ find_compatible_job \/ load_result \/ create_job
    \/ check_job \/ start_job \/ store_result \/ fail_job \/ complete_job
    \/ report_result
    \/ human_review
    \/ publishing_readiness \/ readiness_apply \/ mark_ready_to_publish

Next ==
    \/ execute
    \/ start
    \/ resume
    \/ edit_product
    \/ add_source
    \/ \E j \in JobIds : index_job(j) \/ index_result(j) \/ complete_review(j)

Spec == Init /\ [][Next]_vars

\* A request is served to its end, the indexes catch up, and a client and a
\* reviewer who do not give up start, complete and resume.
Persistent ==
    /\ Spec
    /\ WF_vars(execute)
    /\ WF_vars(start)
    /\ WF_vars(resume)
    /\ \A j \in JobIds : /\ WF_vars(index_job(j))
                         /\ WF_vars(index_result(j))
                         /\ WF_vars(complete_review(j))

-------------------------------------------------------------------------------
(* Properties.                                                             *)

\* The results a workflow holds belong together: each was made from exactly
\* the upstream results that the same workflow holds, although they may
\* stem from jobs of different earlier workflows found in a lagging index
\* ("every downstream job receives exact identifiers persisted by its
\* predecessor", _find_compatible_job).
SameLineage ==
    \A s \in JobPositions :
        run.ids[s] # NoJob =>
            /\ jobs[run.ids[s]].position = s
            /\ jobs[run.ids[s]].lineage = new_lineage(s, run.ids)

\* A workflow holds no result that was only partly written, although the
\* records of a result are put one by one (the repositories' create).
HeldResultsAreWhole ==
    \A s \in JobPositions :
        run.ids[s] # NoJob => results[run.ids[s]] # Absent /\ results[run.ids[s]].whole

\* One materialization per review, one projection per materialization, and
\* so on: two jobs of one lineage, created because the first was not yet
\* in the index, do not both store a result (the GUARD records).
OneResultPerLineage ==
    \A j, k \in JobIds :
        /\ j # k
        /\ results[j] # Absent /\ results[k] # Absent
        /\ jobs[j].position \in UNIQUE
        /\ jobs[k].position = jobs[j].position
        => jobs[j].lineage # jobs[k].lineage

\* A lineage whose GUARD is taken by a job that will never be COMPLETED can
\* get no result any more; only an injected fault does that.
GuardLostOnlyByFault ==
    \A j \in JobIds :
        /\ results[j] # Absent
        /\ jobs[j].position \in UNIQUE
        /\ jobs[j].status # "COMPLETED"
        /\ run.pc \in Ended \/ run.job # j
        => faults > 0

\* A guarded lineage gets at most one result and, but for a fault, one that
\* later workflows can use, although jobs of one lineage are created whenever
\* the index has not shown the first.
OneUsableResultPerLineage == OneResultPerLineage /\ GuardLostOnlyByFault

\* The product becomes READY_TO_PUBLISH only for the projection of the very
\* version that is marked, whatever was edited between the projection, the
\* two reads of the product and the conditional write.
ReadyOnlyAsProjected ==
    [][ product.status # "READY_TO_PUBLISH" /\ product'.status = "READY_TO_PUBLISH" =>
          /\ results[run.ids[CATALOG_PROJECTION]].product_version = product.version
          /\ results[run.ids[CATALOG_PROJECTION]].projection # "BLOCKED"
          /\ reviews[run.ids[HUMAN_REVIEW]] = "COMPLETED" ]_vars

\* What the jobs promise (JobLifecycle).
Lifecycle == INSTANCE JobLifecycle WITH
    status <- [j \in JobIds |-> jobs[j].status],
    stored <- {j \in JobIds : results[j] # Absent /\ results[j].whole}

ImplementsLifecycle == Lifecycle!LifecycleSpec

\* Without faults and edits, a client who starts a new workflow whenever the
\* last one failed gets one to its end: every attempt leaves a COMPLETED job
\* that the next one reuses.
PersistenceCompletes == <>(run.pc = "completed")

\* The executor fails a workflow only if the stage failed: not when its job
\* is COMPLETED with a result that can be used.
FreshStageCompletes ==
    run.pc = "failed" /\ run.job # NoJob =>
        ~(jobs[run.job].status = "COMPLETED" /\ Usable(run.position, run.job))

===============================================================================
