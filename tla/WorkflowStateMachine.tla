------------------------- MODULE WorkflowStateMachine -------------------------
(***************************************************************************)
(* The pure transitions of a catalog intelligence workflow: the entity of  *)
(* domain/catalog_workflow and CatalogWorkflowStateMachine.  A stage is    *)
(* its position in the fixed pipeline, so that the enum's order is the     *)
(* order of the numbers; 0 stands for "no current stage" (None).           *)
(*                                                                         *)
(* Abstracted: timestamps, error texts, job and result references.  Of the *)
(* lineage identifiers only selection_id is kept, the one the orchestrator *)
(* uses to find the review it waits for.                                   *)
(***************************************************************************)
EXTENDS Integers, FiniteSets

CONSTANTS
    StageCount,           \* number of stages of the fixed pipeline
    OPTIONAL_STAGES,      \* stages whose failure need not fail the workflow
    ATTRIBUTE_SELECTION,  \* the stage that sets selection_id
    HUMAN_REVIEW,         \* the stage that may wait
    Products, Selections, \* identifiers
    SourceIds,            \* source identifiers
    NoSelection           \* selection_id is None

Stage == 1 .. StageCount

NoStage == 0

ASSUME PipelineAssumption ==
    /\ StageCount \in Nat \ {0}
    /\ OPTIONAL_STAGES \subseteq Stage
    /\ ATTRIBUTE_SELECTION \in Stage
    /\ HUMAN_REVIEW \in Stage
    /\ ATTRIBUTE_SELECTION < HUMAN_REVIEW
    /\ HUMAN_REVIEW \notin OPTIONAL_STAGES
    /\ NoSelection \notin Selections

CatalogWorkflowStatus ==
    {"PENDING", "RUNNING", "WAITING_FOR_REVIEW", "FAILED", "COMPLETED",
     "COMPLETED_WITH_WARNINGS"}

TERMINAL_WORKFLOW_STATUSES == {"FAILED", "COMPLETED", "COMPLETED_WITH_WARNINGS"}

CatalogWorkflowStageStatus ==
    {"NOT_STARTED", "RUNNING", "COMPLETED", "SKIPPED", "WAITING", "FAILED"}

TERMINAL_STAGE_STATUSES == {"COMPLETED", "SKIPPED", "FAILED"}

CatalogIntelligenceWorkflow ==
    [ product         : Products,
      status          : CatalogWorkflowStatus,
      version         : Nat,
      product_version : Nat,
      strict          : BOOLEAN,  \* configuration.fail_on_optional_stage_error
      snapshot        : SUBSET SourceIds,
      selection_id    : Selections \cup {NoSelection},
      current_stage   : 0 .. StageCount,
      progress        : Nat,
      stages          : [Stage -> CatalogWorkflowStageStatus] ]

\* What an executor may report of a stage; 0 and NoSelection are fields it
\* leaves at None.
CatalogWorkflowStageOutcome ==
    [ status          : {"COMPLETED", "SKIPPED", "WAITING"},
      selection_id    : Selections \cup {NoSelection},
      product_version : Nat ]

-------------------------------------------------------------------------------

progress(stages) ==
    (Cardinality({s \in Stage : stages[s] \in {"COMPLETED", "SKIPPED"}}) * 100)
        \div StageCount

\* The first later stage that has not started, if there is one.
next_stage(w, s) ==
    LET later == {t \in (s + 1) .. StageCount : w.stages[t] = "NOT_STARTED"}
    IN  IF later = {} THEN NoStage
        ELSE CHOOSE t \in later : \A u \in later : t <= u

replace_stage(w, s, stageStatus, status, current) ==
    LET stages == [w.stages EXCEPT ![s] = stageStatus]
    IN  [w EXCEPT !.stages = stages,
                  !.progress = progress(stages),
                  !.version = w.version + 1,
                  !.status = status,
                  !.current_stage = current]

create(p, productVersion, strict, snapshot) ==
    [ product         |-> p,
      status          |-> "PENDING",
      version         |-> 1,
      product_version |-> productVersion,
      strict          |-> strict,
      snapshot        |-> snapshot,
      selection_id    |-> NoSelection,
      current_stage   |-> 1,
      progress        |-> 0,
      stages          |-> [s \in Stage |-> "NOT_STARTED"] ]

begin(w) == [w EXCEPT !.status = "RUNNING", !.version = w.version + 1]

start_stage(w, s) == replace_stage(w, s, "RUNNING", "RUNNING", s)

apply_outcome(w, s, outcome) ==
    LET waiting == outcome.status = "WAITING"
        moved   == replace_stage(w, s, outcome.status,
                                 IF waiting THEN "WAITING_FOR_REVIEW" ELSE "RUNNING",
                                 IF waiting THEN s ELSE next_stage(w, s))
    IN  [moved EXCEPT
            !.selection_id = IF outcome.selection_id = NoSelection
                             THEN w.selection_id ELSE outcome.selection_id,
            !.product_version = IF outcome.product_version = 0
                                THEN w.product_version ELSE outcome.product_version]

resume_review(w) == replace_stage(w, HUMAN_REVIEW, "RUNNING", "RUNNING", HUMAN_REVIEW)

fail_stage(w, s, terminal) ==
    replace_stage(w, s, "FAILED",
                  IF terminal THEN "FAILED" ELSE "RUNNING",
                  IF terminal THEN NoStage ELSE next_stage(w, s))

\* Mutant: a skipped or failed optional stage is not accepted.
may_finish_only_completed(w) == \A s \in Stage : w.stages[s] = "COMPLETED"

\* finish raises ValueError unless this holds.
may_finish(w) ==
    /\ \A s \in Stage : w.stages[s] \in TERMINAL_STAGE_STATUSES
    /\ \A s \in Stage \ OPTIONAL_STAGES : w.stages[s] # "FAILED"

finish(w, withWarnings) ==
    [w EXCEPT !.status = IF withWarnings THEN "COMPLETED_WITH_WARNINGS" ELSE "COMPLETED",
              !.version = w.version + 1,
              !.current_stage = NoStage,
              !.progress = 100]

===============================================================================
