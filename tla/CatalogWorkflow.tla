---------------------------- MODULE CatalogWorkflow ----------------------------
(***************************************************************************)
(* The workflow orchestrator (CatalogIntelligenceWorkflowService), its     *)
(* DynamoDB repository, and the two stages of the executor that touch the  *)
(* product: HUMAN_REVIEW and PUBLISHING_READINESS.  All other stages are   *)
(* seen as the orchestrator sees them, through the executor protocol: they *)
(* report an outcome or raise.                                             *)
(*                                                                         *)
(* A handler is one HTTP request being served.  Every call on a repository *)
(* is one step, so requests interleave between any two calls; what a       *)
(* handler read earlier stays in mem and may be stale when it is used.     *)
(* A fault is an outage of one call, a write that was applied although the *)
(* client saw an error, or the death of the process serving the request.   *)
(***************************************************************************)
EXTENDS WorkflowStateMachine

CONSTANTS
    WorkflowIds, Handlers,
    PUBLISHING_READINESS,  \* the stage that marks the product ready
    MayBeSkipped,          \* other stages the executor may skip
    MAX_SOURCES,           \* max_sources of the orchestrator
    PatchStatuses,         \* statuses a PATCH of the product may set
    MaxProductVersion,     \* bound on product edits
    MaxFaults,             \* bound on injected faults
    None

ProductStatus == {"DRAFT", "PROCESSING", "REVIEW_REQUIRED", "READY_TO_PUBLISH", "FAILED"}

ASSUME OrchestratorAssumption ==
    /\ PUBLISHING_READINESS \in Stage \ OPTIONAL_STAGES
    /\ HUMAN_REVIEW < PUBLISHING_READINESS
    /\ MayBeSkipped \subseteq Stage \ {HUMAN_REVIEW, PUBLISHING_READINESS}
    /\ MAX_SOURCES \in Nat
    /\ PatchStatuses \subseteq ProductStatus
    /\ MaxProductVersion \in Nat
    /\ MaxFaults \in Nat
    /\ None \notin CatalogIntelligenceWorkflow
    /\ None \notin WorkflowIds

VARIABLES
    workflows,    \* META and STAGE records of every workflow, by id
    guard,        \* ACTIVE_PRODUCT record of every product: a workflow id or None
    product,      \* version (0 once deleted) and status of every product
    sourceIndex,  \* what the index that lists a product's sources returns
    review,       \* status of the review session of every selection
    pc, target, mem, pending,  \* per handler: step, workflow id, workflow, outcome
    faults

handlerVars == <<pc, target, mem, pending>>
vars == <<workflows, guard, product, sourceIndex, review, handlerVars, faults>>

ReviewStatus == {"NONE", "OPEN", "COMPLETED"}

Step == {"idle",
         "snapshot", "create", "begin",                        \* start
         "resume_sources", "resume_product", "resume_review", "resume_save",
         "run", "execute", "apply", "fail",                    \* _run
         "create_review", "confirm", "pause", "mark",          \* _human_review
         "ready"}                                              \* readiness.apply

NoOutcome == [status |-> "COMPLETED", selection_id |-> NoSelection, product_version |-> 0]

Outcome(status, selection, productVersion) ==
    [status |-> status, selection_id |-> selection, product_version |-> productVersion]

TypeOK ==
    /\ workflows \in [WorkflowIds -> CatalogIntelligenceWorkflow \cup {None}]
    /\ guard \in [Products -> WorkflowIds \cup {None}]
    /\ product \in [Products -> [version : Nat, status : ProductStatus]]
    /\ sourceIndex \in [Products -> SUBSET SourceIds]
    /\ review \in [Products -> [Selections -> ReviewStatus]]
    /\ pc \in [Handlers -> Step]
    /\ target \in [Handlers -> WorkflowIds \cup {None}]
    /\ mem \in [Handlers -> CatalogIntelligenceWorkflow \cup {None}]
    /\ pending \in [Handlers -> CatalogWorkflowStageOutcome]
    /\ faults \in Nat

Init ==
    /\ workflows = [w \in WorkflowIds |-> None]
    /\ guard = [p \in Products |-> None]
    /\ product = [p \in Products |-> [version |-> 1, status |-> "DRAFT"]]
    /\ sourceIndex \in [Products -> SUBSET SourceIds]
    /\ review = [p \in Products |-> [s \in Selections |-> "NONE"]]
    /\ pc = [h \in Handlers |-> "idle"]
    /\ target = [h \in Handlers |-> None]
    /\ mem = [h \in Handlers |-> None]
    /\ pending = [h \in Handlers |-> NoOutcome]
    /\ faults = 0

-------------------------------------------------------------------------------
(* Handlers and calls on the repository.                                   *)

Goto(h, step) ==
    /\ pc' = [pc EXCEPT ![h] = step]
    /\ UNCHANGED <<target, mem, pending>>

\* The request ends, with a response or an error.
Return(h) ==
    /\ pc' = [pc EXCEPT ![h] = "idle"]
    /\ target' = [target EXCEPT ![h] = None]
    /\ mem' = [mem EXCEPT ![h] = None]
    /\ pending' = [pending EXCEPT ![h] = NoOutcome]

Report(h, outcome) ==
    /\ pc' = [pc EXCEPT ![h] = "apply"]
    /\ pending' = [pending EXCEPT ![h] = outcome]
    /\ UNCHANGED <<target, mem>>

\* An exception: inside _run's try it leads to fail_stage, elsewhere it ends
\* the request.
Raise(h, step) == IF step = "idle" THEN Return(h) ELSE Goto(h, step)

Fault ==
    /\ faults < MaxFaults
    /\ faults' = faults + 1

Terminal(w) == w.status \in TERMINAL_WORKFLOW_STATUSES

\* Mutant: the version is not compared.
CanSave_any_version(h, new) ==
    /\ workflows[target[h]] # None
    /\ Terminal(new) => guard[new.product] = target[h]

\* Mutant: any version that is not older will do.
CanSave_newer_version(h, new) ==
    /\ workflows[target[h]] # None
    /\ workflows[target[h]].version >= mem[h].version
    /\ Terminal(new) => guard[new.product] = target[h]

\* The condition of save_state's transaction: META has the version the
\* handler read and, when the guard is to be deleted, the guard names this
\* workflow.
CanSave(h, new) ==
    /\ workflows[target[h]] # None
    /\ workflows[target[h]].version = mem[h].version
    /\ Terminal(new) => guard[new.product] = target[h]

\* Mutant: a failed workflow keeps its guard.
Write_keeps_guard(h, new) ==
    /\ workflows' = [workflows EXCEPT ![target[h]] = new]
    /\ guard' = IF new.status \in {"COMPLETED", "COMPLETED_WITH_WARNINGS"}
                THEN [guard EXCEPT ![new.product] = None] ELSE guard

Write(h, new) ==
    /\ workflows' = [workflows EXCEPT ![target[h]] = new]
    /\ guard' = IF Terminal(new) THEN [guard EXCEPT ![new.product] = None] ELSE guard

\* save_state(new, expected_version=mem.version), going on at next with the
\* saved workflow, or raising to onError with the one the handler had.
save_state(h, new, next, onError) ==
    /\ UNCHANGED <<product, sourceIndex, review>>
    /\ \/ /\ CanSave(h, new)
          /\ Write(h, new)
          /\ IF next = "idle" THEN Return(h)
             ELSE /\ pc' = [pc EXCEPT ![h] = next]
                  /\ mem' = [mem EXCEPT ![h] = new]
                  /\ pending' = [pending EXCEPT ![h] = NoOutcome]
                  /\ UNCHANGED target
          /\ UNCHANGED faults
       \/ /\ ~CanSave(h, new)          \* CatalogWorkflowVersionConflictError
          /\ Raise(h, onError)
          /\ UNCHANGED <<workflows, guard, faults>>
       \/ /\ Fault                     \* CatalogWorkflowRepositoryError
          /\ Raise(h, onError)
          /\ \/ UNCHANGED <<workflows, guard>>
             \/ CanSave(h, new) /\ Write(h, new)

-------------------------------------------------------------------------------
(* start                                                                   *)

start(h, p, strict) ==
    /\ pc[h] = "idle"
    /\ product[p].version # 0
    /\ pc' = [pc EXCEPT ![h] = "snapshot"]
    /\ mem' = [mem EXCEPT ![h] = create(p, product[p].version, strict, {})]
    /\ UNCHANGED <<workflows, guard, product, sourceIndex, review, target, pending, faults>>

\* _source_snapshot raises for a product with no sources or too many.
HasSnapshot(p) ==
    /\ sourceIndex[p] # {}
    /\ Cardinality(sourceIndex[p]) <= MAX_SOURCES

source_snapshot(h) ==
    /\ pc[h] = "snapshot"
    /\ LET p == mem[h].product
       IN  IF HasSnapshot(p)
           THEN /\ pc' = [pc EXCEPT ![h] = "create"]
                /\ mem' = [mem EXCEPT ![h].snapshot = sourceIndex[p]]
                /\ UNCHANGED <<target, pending>>
           ELSE Return(h)
    /\ UNCHANGED <<workflows, guard, product, sourceIndex, review, faults>>

\* The transaction of the repository's create: all records or none.
create_workflow(h) ==
    /\ pc[h] = "create"
    /\ UNCHANGED <<product, sourceIndex, review>>
    /\ \E w \in WorkflowIds :
        /\ workflows[w] = None
        /\ \A k \in Handlers : target[k] # w
        /\ LET p == mem[h].product
               Put == /\ guard[p] = None
                      /\ guard' = [guard EXCEPT ![p] = w]
                      /\ workflows' = [workflows EXCEPT ![w] = mem[h]]
           IN  \/ /\ Put
                  /\ pc' = [pc EXCEPT ![h] = "begin"]
                  /\ target' = [target EXCEPT ![h] = w]
                  /\ UNCHANGED <<mem, pending, faults>>
               \/ /\ guard[p] # None   \* CatalogWorkflowAlreadyActiveError
                  /\ Return(h)
                  /\ UNCHANGED <<workflows, guard, faults>>
               \/ /\ Fault
                  /\ Return(h)
                  /\ Put \/ UNCHANGED <<workflows, guard>>

begin_workflow(h) ==
    /\ pc[h] = "begin"
    /\ save_state(h, begin(mem[h]), "run", "idle")

-------------------------------------------------------------------------------
(* resume: the caller sends the version it last read, so a request with    *)
(* any other version is refused at once and changes nothing.               *)

resume(h, w) ==
    /\ pc[h] = "idle"
    /\ workflows[w] # None
    /\ workflows[w].status = "WAITING_FOR_REVIEW"
    /\ pc' = [pc EXCEPT ![h] = "resume_sources"]
    /\ target' = [target EXCEPT ![h] = w]
    /\ mem' = [mem EXCEPT ![h] = workflows[w]]
    /\ UNCHANGED <<workflows, guard, product, sourceIndex, review, pending, faults>>

resume_check(h, step, condition, next) ==
    /\ pc[h] = step
    /\ IF condition THEN Goto(h, next) ELSE Return(h)
    /\ UNCHANGED <<workflows, guard, product, sourceIndex, review, faults>>

resume_sources(h) ==
    resume_check(h, "resume_sources",
                 /\ HasSnapshot(mem[h].product)
                 /\ sourceIndex[mem[h].product] = mem[h].snapshot,
                 "resume_product")

resume_product(h) ==
    resume_check(h, "resume_product",
                 /\ product[mem[h].product].version # 0
                 /\ product[mem[h].product].version = mem[h].product_version,
                 "resume_review")

\* Mutant: any completed review of the product counts.
review_is_completed_any(w) ==
    \E s \in Selections : review[w.product][s] = "COMPLETED"

review_is_completed(w) ==
    /\ w.selection_id # NoSelection
    /\ review[w.product][w.selection_id] = "COMPLETED"

resume_review_completed(h) ==
    resume_check(h, "resume_review", review_is_completed(mem[h]), "resume_save")

resume_save(h) ==
    /\ pc[h] = "resume_save"
    /\ save_state(h, resume_review(mem[h]), "execute", "idle")

-------------------------------------------------------------------------------
(* _run                                                                    *)

run_start_stage(h) ==
    /\ pc[h] = "run"
    /\ mem[h].current_stage # NoStage
    /\ mem[h].stages[mem[h].current_stage] = "NOT_STARTED"
    /\ save_state(h, start_stage(mem[h], mem[h].current_stage), "execute", "idle")

\* completion_has_warnings reads the projection; its answer is the
\* executor's.
run_finish(h) ==
    /\ pc[h] = "run"
    /\ mem[h].current_stage = NoStage
    /\ \/ /\ may_finish(mem[h])
          /\ \E projectionWarns \in BOOLEAN :
                save_state(h,
                           finish(mem[h], \/ projectionWarns
                                          \/ \E s \in Stage : mem[h].stages[s] = "FAILED"),
                           "idle", "idle")
       \/ /\ \/ ~may_finish(mem[h]) /\ UNCHANGED faults
             \/ Fault
          /\ Return(h)
          /\ UNCHANGED <<workflows, guard, product, sourceIndex, review>>

\* A stage whose control is the executor's own; ATTRIBUTE_SELECTION reports
\* the selection that the review will be about, a new or a reused one.
execute_stage(h) ==
    /\ pc[h] = "execute"
    /\ mem[h].current_stage \notin {HUMAN_REVIEW, PUBLISHING_READINESS}
    /\ LET s == mem[h].current_stage
       IN  \/ \E sel \in IF s = ATTRIBUTE_SELECTION THEN Selections ELSE {NoSelection} :
                Report(h, Outcome("COMPLETED", sel, 0))
           \/ s \in MayBeSkipped /\ Report(h, Outcome("SKIPPED", NoSelection, 0))
           \/ Goto(h, "fail")
    /\ UNCHANGED <<workflows, guard, product, sourceIndex, review, faults>>

run_apply_outcome(h) ==
    /\ pc[h] = "apply"
    /\ save_state(h, apply_outcome(mem[h], mem[h].current_stage, pending[h]),
                  IF pending[h].status = "WAITING" THEN "idle" ELSE "run", "fail")

\* Mutant: fail_on_optional_stage_error is forgotten.
run_fail_stage_not_strict(h) ==
    /\ pc[h] = "fail"
    /\ LET s == mem[h].current_stage
           terminal == s \notin OPTIONAL_STAGES
       IN  save_state(h, fail_stage(mem[h], s, terminal),
                      IF terminal THEN "idle" ELSE "run", "idle")

run_fail_stage(h) ==
    /\ pc[h] = "fail"
    /\ LET s == mem[h].current_stage
           terminal == s \notin OPTIONAL_STAGES \/ mem[h].strict
       IN  save_state(h, fail_stage(mem[h], s, terminal),
                      IF terminal THEN "idle" ELSE "run", "idle")

-------------------------------------------------------------------------------
(* _human_review                                                           *)

\* Mutant: a session that exists is taken to be completed.
human_review_trusts_session(h) ==
    /\ pc[h] = "execute"
    /\ mem[h].current_stage = HUMAN_REVIEW
    /\ Goto(h, IF mem[h].selection_id = NoSelection THEN "fail"
               ELSE IF review[mem[h].product][mem[h].selection_id] = "NONE" THEN "create_review"
               ELSE "confirm")
    /\ UNCHANGED <<workflows, guard, product, sourceIndex, review, faults>>

human_review(h) ==
    /\ pc[h] = "execute"
    /\ mem[h].current_stage = HUMAN_REVIEW
    /\ Goto(h, IF mem[h].selection_id = NoSelection THEN "fail"
               ELSE CASE review[mem[h].product][mem[h].selection_id] = "NONE" -> "create_review"
                      [] review[mem[h].product][mem[h].selection_id] = "OPEN" -> "pause"
                      [] OTHER -> "confirm")
    /\ UNCHANGED <<workflows, guard, product, sourceIndex, review, faults>>

\* create_review refuses a selection that has a session by now, and a
\* selection or product it cannot use.
create_review(h) ==
    /\ pc[h] = "create_review"
    /\ LET p == mem[h].product
           s == mem[h].selection_id
       IN  \/ /\ product[p].version # 0
              /\ review[p][s] = "NONE"
              /\ review' = [review EXCEPT ![p][s] = "OPEN"]
              /\ Goto(h, "pause")
           \/ Goto(h, "fail") /\ UNCHANGED review
    /\ UNCHANGED <<workflows, guard, product, sourceIndex, faults>>

confirm_review(h) ==
    /\ pc[h] = "confirm"
    /\ LET p == mem[h].product
       IN  IF product[p].version = 0 THEN Goto(h, "fail")
           ELSE Report(h, Outcome("COMPLETED", NoSelection, product[p].version))
    /\ UNCHANGED <<workflows, guard, product, sourceIndex, review, faults>>

pause_for_review(h) ==
    /\ pc[h] = "pause"
    /\ LET p == mem[h].product
           seen == Outcome("WAITING", NoSelection, product[p].version)
       IN  CASE product[p].version = 0 -> Goto(h, "fail")
             [] product[p].version # 0 /\ product[p].status = "REVIEW_REQUIRED" -> Report(h, seen)
             [] OTHER -> /\ pc' = [pc EXCEPT ![h] = "mark"]
                         /\ pending' = [pending EXCEPT ![h] = seen]
                         /\ UNCHANGED <<target, mem>>
    /\ UNCHANGED <<workflows, guard, product, sourceIndex, review, faults>>

\* products.update / mark_ready_to_publish, conditional on the version that
\* was read before; on success the outcome carries the new version.
UpdateProduct(h, p, seen, status, outcome) ==
    /\ \/ /\ product[p].version = seen
          /\ product' = [product EXCEPT ![p] = [version |-> seen + 1, status |-> status]]
          /\ \/ Report(h, outcome) /\ UNCHANGED faults
             \/ Goto(h, "fail") /\ Fault
       \/ /\ \/ product[p].version # seen /\ UNCHANGED faults
             \/ Fault
          /\ UNCHANGED product
          /\ Goto(h, "fail")
    /\ UNCHANGED <<workflows, guard, sourceIndex, review>>

mark_review_required(h) ==
    /\ pc[h] = "mark"
    /\ LET seen == pending[h].product_version
       IN  UpdateProduct(h, mem[h].product, seen, "REVIEW_REQUIRED",
                         Outcome("WAITING", NoSelection, seen + 1))

-------------------------------------------------------------------------------
(* _publishing_readiness: whether it is enabled, and what the projection    *)
(* says, is the executor's; the product is read, then marked.              *)

publishing_readiness(h) ==
    /\ pc[h] = "execute"
    /\ mem[h].current_stage = PUBLISHING_READINESS
    /\ LET p == mem[h].product
       IN  \/ Report(h, Outcome("SKIPPED", NoSelection, 0))
           \/ Goto(h, "fail")
           \/ /\ product[p].version # 0
              /\ product[p].status = "REVIEW_REQUIRED"
              /\ pc' = [pc EXCEPT ![h] = "ready"]
              /\ pending' = [pending EXCEPT ![h].product_version = product[p].version]
              /\ UNCHANGED <<target, mem>>
    /\ UNCHANGED <<workflows, guard, product, sourceIndex, review, faults>>

\* The workflow keeps the product version of the review.
mark_ready_to_publish(h) ==
    /\ pc[h] = "ready"
    /\ UpdateProduct(h, mem[h].product, pending[h].product_version, "READY_TO_PUBLISH", NoOutcome)

-------------------------------------------------------------------------------
(* The rest of the system, and crashes.                                    *)

edit_product(p, status) ==
    /\ product[p].version \in 1 .. MaxProductVersion - 1
    /\ product' = [product EXCEPT ![p] = [version |-> product[p].version + 1,
                                          status |-> status]]
    /\ UNCHANGED <<workflows, guard, sourceIndex, review, handlerVars, faults>>

delete_product(p) ==
    /\ product[p].version # 0
    /\ product' = [product EXCEPT ![p].version = 0]
    /\ UNCHANGED <<workflows, guard, sourceIndex, review, handlerVars, faults>>

change_sources(p) ==
    /\ \E S \in SUBSET SourceIds : sourceIndex' = [sourceIndex EXCEPT ![p] = S]
    /\ UNCHANGED <<workflows, guard, product, review, handlerVars, faults>>

review_api(p, s) ==
    /\ \/ review[p][s] = "NONE" /\ review' = [review EXCEPT ![p][s] = "OPEN"]
       \/ review[p][s] = "OPEN" /\ review' = [review EXCEPT ![p][s] = "COMPLETED"]
    /\ UNCHANGED <<workflows, guard, product, sourceIndex, handlerVars, faults>>

crash(h) ==
    /\ pc[h] # "idle"
    /\ Fault
    /\ Return(h)
    /\ UNCHANGED <<workflows, guard, product, sourceIndex, review>>

HandlerStep(h) ==
    \/ source_snapshot(h) \/ create_workflow(h) \/ begin_workflow(h)
    \/ resume_sources(h) \/ resume_product(h) \/ resume_review_completed(h) \/ resume_save(h)
    \/ run_start_stage(h) \/ execute_stage(h) \/ run_apply_outcome(h) \/ run_fail_stage(h)
    \/ run_finish(h)
    \/ human_review(h) \/ create_review(h) \/ confirm_review(h) \/ pause_for_review(h)
    \/ mark_review_required(h)
    \/ publishing_readiness(h) \/ mark_ready_to_publish(h)

Next ==
    \/ \E h \in Handlers :
        \/ HandlerStep(h)
        \/ \E p \in Products, strict \in BOOLEAN : start(h, p, strict)
        \/ \E w \in WorkflowIds : resume(h, w)
        \/ crash(h)
    \/ \E p \in Products :
        \/ \E status \in PatchStatuses : edit_product(p, status)
        \/ delete_product(p)
        \/ change_sources(p)
        \/ \E s \in Selections : review_api(p, s)

Spec == Init /\ [][Next]_vars

FairSpec == Spec /\ \A h \in Handlers : WF_vars(HandlerStep(h))

-------------------------------------------------------------------------------
(* Properties.                                                             *)

Stored(w) == workflows[w] # None

\* The ACTIVE_PRODUCT guard names exactly the workflow of the product that
\* is not terminal: at most one workflow per product is ever active, and a
\* product is never locked by a workflow that has ended, whatever calls
\* fail, are applied behind an error, or are cut off by a crash.
GuardIsTheActiveWorkflow ==
    /\ \A w \in WorkflowIds :
        Stored(w) /\ ~Terminal(workflows[w]) => guard[workflows[w].product] = w
    /\ \A p \in Products :
        guard[p] # None =>
            /\ Stored(guard[p])
            /\ workflows[guard[p]].product = p
            /\ ~Terminal(workflows[guard[p]])

\* A handler that is between two saves of _run.
Driving(h) == pc[h] \in {"begin", "run", "execute", "apply", "create_review", "confirm",
                         "pause", "mark", "ready"}

\* While a handler executes a stage, nobody else executes a stage of that
\* workflow, and what it holds in memory is what is stored: two requests
\* that resume one workflow never both run it.
OneDriver ==
    /\ \A h \in Handlers : Driving(h) => workflows[target[h]] = mem[h]
    /\ \A h, k \in Handlers :
        Driving(h) /\ Driving(k) /\ target[h] = target[k] => h = k

\* Stages run in the fixed order: a stage leaves NOT_STARTED only after every
\* earlier one has ended, and current_stage is where _run has to go on.
FixedOrder ==
    \A w \in WorkflowIds : Stored(w) =>
        LET m == workflows[w]
        IN  /\ \A s, t \in Stage :
                s < t /\ m.stages[t] # "NOT_STARTED" => m.stages[s] \in TERMINAL_STAGE_STATUSES
            /\ m.current_stage # NoStage =>
                m.stages[m.current_stage] \in {"NOT_STARTED", "RUNNING", "WAITING"}
            /\ m.status = "RUNNING" /\ m.current_stage = NoStage => may_finish(m)

\* The review session of the workflow's own selection was completed.
Reviewed(w) ==
    \E s \in Selections :
        /\ workflows[w].selection_id = s
        /\ review[workflows[w].product][s] = "COMPLETED"

\* No workflow gets past HUMAN_REVIEW unless the review session of its own
\* selection was completed, whatever the reviewers of other selections do.
NoReviewBypass ==
    \A w \in WorkflowIds : Stored(w) =>
        \A s \in HUMAN_REVIEW .. StageCount :
            workflows[w].stages[s] \in {"COMPLETED", "SKIPPED"} => Reviewed(w)

\* A waiting workflow is only ever taken up again once the review session of
\* its own selection, not of some other one of the product, is completed.
ResumedAfterReview ==
    [][\A w \in WorkflowIds :
        /\ Stored(w)
        /\ workflows[w].status = "WAITING_FOR_REVIEW"
        /\ workflows'[w] # workflows[w]
        => Reviewed(w)]_workflows

\* The verdict follows from the stages: FAILED has a failed stage that may
\* fail a workflow, COMPLETED has no failed stage at all, and a workflow
\* that completed under strict configuration had no failed stage either.
VerdictMatchesStages ==
    \A w \in WorkflowIds : Stored(w) =>
        LET m == workflows[w]
            failed == {s \in Stage : m.stages[s] = "FAILED"}
        IN  /\ m.status = "FAILED" <=> (failed \ OPTIONAL_STAGES # {} \/ (m.strict /\ failed # {}))
            /\ m.status = "COMPLETED" => failed = {}
            /\ m.status \in {"COMPLETED", "COMPLETED_WITH_WARNINGS"} =>
                    m.progress = 100 /\ may_finish(m)

\* A workflow is left PENDING or RUNNING with nobody driving it only by a
\* fault: such a workflow holds its product's guard for ever, since only a
\* waiting workflow can be resumed.
OrphanedOnlyByFault ==
    \A w \in WorkflowIds :
        Stored(w) /\ workflows[w].status \in {"PENDING", "RUNNING"} =>
            \/ faults > 0
            \/ \E h \in Handlers : target[h] = w /\ (Driving(h) \/ pc[h] = "fail")

\* Whoever keeps the guard of a product is an active workflow that somebody
\* attends to or that waits for its review: only a fault locks a product.
GuardIsAccountedFor == GuardIsTheActiveWorkflow /\ OrphanedOnlyByFault

\* What a workflow says of itself, its verdict and the stage it is at, follows
\* from the statuses of its stages, which have ended in the fixed order.
StagesTellTheVerdict == FixedOrder /\ VerdictMatchesStages

\* What a persisted transition may do: it increments the version once, never
\* touches a terminal workflow or the outcome of an ended stage, and never
\* lets progress go back.
LegalTransition(old, new) ==
    /\ ~Terminal(old)
    /\ new.version = old.version + 1
    /\ new.product = old.product
    /\ new.snapshot = old.snapshot
    /\ new.strict = old.strict
    /\ new.progress >= old.progress
    /\ \A s \in Stage :
        old.stages[s] \in TERMINAL_STAGE_STATUSES => new.stages[s] = old.stages[s]

PersistedHistory ==
    [][\A w \in WorkflowIds :
        workflows[w] # None /\ workflows'[w] # workflows[w] =>
            workflows'[w] # None /\ LegalTransition(workflows[w], workflows'[w])]_workflows

\* Without faults a started workflow always comes to rest: it waits for
\* review or ends, so that the product is not locked.
WorkflowSettles ==
    \A w \in WorkflowIds :
        Stored(w) /\ workflows[w].status \in {"PENDING", "RUNNING"}
            ~> Stored(w) /\ workflows[w].status \notin {"PENDING", "RUNNING"}

\* The stored workflows and the sessions, without the requests that drive them.
Lifecycle == INSTANCE WorkflowLifecycle

\* Whoever only reads the workflows cannot tell the racing requests, with
\* their stale copies, failed and ambiguous saves and crashes, from one driver
\* that takes each workflow through its transitions one after the other.
ImplementsWorkflowLifecycle == Lifecycle!LifecycleSpec

-------------------------------------------------------------------------------
(* The inductive invariant behind the safety properties.                   *)

\* Stage c is the only one that is neither ended nor still to come.
At(m, c) ==
    /\ \A s \in Stage : s < c => m.stages[s] \in TERMINAL_STAGE_STATUSES
    /\ \A s \in Stage : s > c => m.stages[s] = "NOT_STARTED"

\* What every workflow the state machine builds looks like.
WorkflowShape(m) ==
    /\ m.version >= 1
    /\ \A s, t \in Stage :
        s < t /\ m.stages[t] # "NOT_STARTED" => m.stages[s] \in TERMINAL_STAGE_STATUSES
    /\ m.status = "PENDING" =>
        m.current_stage = 1 /\ \A s \in Stage : m.stages[s] = "NOT_STARTED"
    /\ m.status = "RUNNING" =>
        IF m.current_stage = NoStage
        THEN \A s \in Stage : m.stages[s] \in TERMINAL_STAGE_STATUSES
        ELSE /\ At(m, m.current_stage)
             /\ m.stages[m.current_stage] \in {"NOT_STARTED", "RUNNING"}
    /\ m.status = "WAITING_FOR_REVIEW" =>
        /\ m.current_stage = HUMAN_REVIEW
        /\ At(m, HUMAN_REVIEW)
        /\ m.stages[HUMAN_REVIEW] = "WAITING"
    /\ Terminal(m) => m.current_stage = NoStage
    /\ m.status # "FAILED" => \A s \in Stage \ OPTIONAL_STAGES : m.stages[s] # "FAILED"

Resuming == {"resume_sources", "resume_product", "resume_review", "resume_save"}

Reviewing == {"create_review", "confirm", "pause", "mark"}

Executing == {"execute", "apply", "fail", "ready"} \cup Reviewing

\* What a handler knows: a copy of the workflow that is not newer than the
\* stored one, and is the stored one if the versions agree.
HandlerView(h) ==
    /\ pc[h] = "idle" => target[h] = None
    /\ pc[h] \in {"snapshot", "create"} =>
        /\ target[h] = None
        /\ mem[h] # None
        /\ mem[h].status = "PENDING"
        /\ mem[h].version = 1
        /\ WorkflowShape(mem[h])
    /\ pc[h] \notin {"idle", "snapshot", "create"} =>
        /\ target[h] # None
        /\ mem[h] # None
        /\ workflows[target[h]] # None
        /\ workflows[target[h]].product = mem[h].product
        /\ WorkflowShape(mem[h])
        /\ mem[h].version <= workflows[target[h]].version
        /\ mem[h].version = workflows[target[h]].version => mem[h] = workflows[target[h]]
    /\ Driving(h) => mem[h] = workflows[target[h]]
    /\ pc[h] \in Resuming => mem[h].status = "WAITING_FOR_REVIEW"
    /\ pc[h] = "begin" => mem[h].status = "PENDING"
    /\ pc[h] \in Executing \cup {"run"} => mem[h].status = "RUNNING"
    /\ pc[h] \in Executing =>
        mem[h].current_stage # NoStage /\ mem[h].stages[mem[h].current_stage] = "RUNNING"
    /\ pc[h] \in Reviewing => mem[h].current_stage = HUMAN_REVIEW
    /\ pc[h] = "apply" /\ pending[h].status = "WAITING" => mem[h].current_stage = HUMAN_REVIEW

\* A handler whose next save would succeed.
Owner(h) ==
    /\ pc[h] \in Executing \cup {"begin", "run"}
    /\ mem[h].version = workflows[target[h]].version

OneOwner ==
    \A h, k \in Handlers : Owner(h) /\ Owner(k) /\ target[h] = target[k] => h = k

IInv ==
    /\ TypeOK
    /\ \A w \in WorkflowIds : Stored(w) => WorkflowShape(workflows[w])
    /\ GuardIsTheActiveWorkflow
    /\ \A h \in Handlers : HandlerView(h)
    /\ OneOwner

===============================================================================
