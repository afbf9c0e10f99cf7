------------------------- MODULE CatalogWorkflowProofs -------------------------
(***************************************************************************)
(* IInv is an inductive invariant of CatalogWorkflow, and the safety       *)
(* properties that follow from it, for every pipeline, every number of     *)
(* requests, workflows and products, and every bound on the faults.        *)
(*                                                                         *)
(* First what the transitions of the state machine do to the shape of a    *)
(* workflow; then the steps that write none; then save_state; then one     *)
(* lemma per group of actions; then the theorems.  The second part is      *)
(* about the history of a workflow, the third about WorkflowLifecycle.     *)
(***************************************************************************)
EXTENDS CatalogWorkflow, FiniteSetTheorems, TLAPS

\* The progress that the state machine computes is a number (_progress).
LEMMA ProgressType ==
    ASSUME NEW stages
    PROVE  progress(stages) \in Nat
<1> DEFINE done == {s \in Stage : stages[s] \in {"COMPLETED", "SKIPPED"}}
<1>1. IsFiniteSet(Stage)
  BY PipelineAssumption, FS_Interval DEF Stage
<1>2. done \subseteq Stage
  OBVIOUS
<1>3. IsFiniteSet(done)
  BY <1>1, <1>2, FS_Subset
<1>4. Cardinality(done) \in Nat
  BY <1>3, FS_CardinalityType
<1>5. \A a \in Nat : \A b \in Nat \ {0} : (a * 100) \div b \in Nat
  OBVIOUS
<1> QED
  BY <1>4, <1>5, PipelineAssumption DEF progress

\* What _replace_stage changes of a workflow, and that the result is one.
LEMMA ReplaceStage ==
    ASSUME NEW w \in CatalogIntelligenceWorkflow, NEW s \in Stage,
           NEW stageStatus \in CatalogWorkflowStageStatus,
           NEW status \in CatalogWorkflowStatus, NEW current \in 0 .. StageCount
    PROVE  LET new == replace_stage(w, s, stageStatus, status, current)
           IN  /\ new \in CatalogIntelligenceWorkflow
               /\ new.version = w.version + 1
               /\ new.product = w.product
               /\ new.status = status
               /\ new.current_stage = current
               /\ new.stages = [w.stages EXCEPT ![s] = stageStatus]
<1> DEFINE stages == [w.stages EXCEPT ![s] = stageStatus]
           new == replace_stage(w, s, stageStatus, status, current)
<1>1. stages \in [Stage -> CatalogWorkflowStageStatus]
  BY DEF CatalogIntelligenceWorkflow
<1>2. progress(stages) \in Nat
  BY ProgressType
<1>3. w.version + 1 \in Nat
  BY DEF CatalogIntelligenceWorkflow
<1>4. new = [w EXCEPT !.stages = stages, !.progress = progress(stages),
                      !.version = w.version + 1, !.status = status,
                      !.current_stage = current]
  BY DEF replace_stage
<1> HIDE DEF stages, new
<1>5. new \in CatalogIntelligenceWorkflow
  BY <1>1, <1>2, <1>3, <1>4 DEF CatalogIntelligenceWorkflow
<1>6. /\ new.version = w.version + 1
      /\ new.product = w.product
      /\ new.status = status
      /\ new.current_stage = current
      /\ new.stages = stages
  BY <1>4 DEF CatalogIntelligenceWorkflow
<1> QED
  BY <1>5, <1>6 DEF new, stages

\* In a workflow at stage s, _next_stage is the stage that follows it.
LEMMA NextStage ==
    ASSUME NEW w \in CatalogIntelligenceWorkflow, NEW s \in Stage, At(w, s)
    PROVE  next_stage(w, s) = IF s = StageCount THEN NoStage ELSE s + 1
<1> DEFINE later == {t \in (s + 1) .. StageCount : w.stages[t] = "NOT_STARTED"}
<1>1. later = (s + 1) .. StageCount
  BY PipelineAssumption DEF At, Stage
<1>2. CASE s = StageCount
  <2>1. later = {}
    BY <1>1, <1>2, PipelineAssumption DEF Stage
  <2> QED
    BY <1>2, <2>1 DEF next_stage
<1>3. CASE s # StageCount
  <2>1. s + 1 \in later /\ \A u \in later : s + 1 <= u
    BY <1>1, <1>3, PipelineAssumption DEF Stage
  <2>2. \A t \in later : (\A u \in later : t <= u) => t = s + 1
    BY <1>1, <2>1, PipelineAssumption DEF Stage
  <2>3. next_stage(w, s) = CHOOSE t \in later : \A u \in later : t <= u
    BY <2>1 DEF next_stage
  <2> HIDE DEF later
  <2> QED
    BY <1>3, <2>1, <2>2, <2>3
<1> QED
  BY <1>2, <1>3

\* create builds a PENDING workflow before its first stage.
LEMMA CreateShape ==
    ASSUME NEW p \in Products, NEW v \in Nat, NEW strict \in BOOLEAN,
           NEW S \in SUBSET SourceIds
    PROVE  LET new == create(p, v, strict, S)
           IN  /\ new \in CatalogIntelligenceWorkflow
               /\ new.status = "PENDING"
               /\ new.version = 1
               /\ new.product = p
               /\ WorkflowShape(new)
<1>1. create(p, v, strict, S) \in CatalogIntelligenceWorkflow
  BY PipelineAssumption
     DEF create, CatalogIntelligenceWorkflow, CatalogWorkflowStatus, CatalogWorkflowStageStatus
<1> QED
  BY <1>1 DEF create, WorkflowShape, Terminal, TERMINAL_WORKFLOW_STATUSES

\* begin makes a PENDING workflow a RUNNING one at its first stage.
LEMMA BeginShape ==
    ASSUME NEW w \in CatalogIntelligenceWorkflow, WorkflowShape(w), w.status = "PENDING"
    PROVE  LET new == begin(w)
           IN  /\ new \in CatalogIntelligenceWorkflow
               /\ new.status = "RUNNING"
               /\ new.version = w.version + 1
               /\ new.product = w.product
               /\ WorkflowShape(new)
<1> DEFINE new == begin(w)
<1>a. new = [w EXCEPT !.status = "RUNNING", !.version = w.version + 1]
  BY DEF begin
<1>b. "RUNNING" \in CatalogWorkflowStatus /\ w.version + 1 \in Nat
  BY DEF CatalogWorkflowStatus, CatalogIntelligenceWorkflow
<1> HIDE DEF new
<1>c. new \in CatalogIntelligenceWorkflow
  BY <1>a, <1>b DEF CatalogIntelligenceWorkflow
<1>1. /\ new \in CatalogIntelligenceWorkflow
      /\ new.status = "RUNNING"
      /\ new.version = w.version + 1
      /\ new.product = w.product
      /\ new.current_stage = w.current_stage
      /\ new.stages = w.stages
  BY <1>a, <1>c DEF CatalogIntelligenceWorkflow
<1>2. WorkflowShape(new)
  BY <1>1, PipelineAssumption
     DEF WorkflowShape, At, Terminal, TERMINAL_WORKFLOW_STATUSES, Stage, NoStage,
         CatalogIntelligenceWorkflow
<1> QED
  BY <1>1, <1>2 DEF new

\* start_stage sets the current stage RUNNING and nothing else.
LEMMA StartShape ==
    ASSUME NEW w \in CatalogIntelligenceWorkflow, WorkflowShape(w), w.status = "RUNNING",
           w.current_stage # NoStage, w.stages[w.current_stage] = "NOT_STARTED"
    PROVE  LET new == start_stage(w, w.current_stage)
           IN  /\ new \in CatalogIntelligenceWorkflow
               /\ new.status = "RUNNING"
               /\ new.version = w.version + 1
               /\ new.product = w.product
               /\ new.current_stage = w.current_stage
               /\ new.stages[new.current_stage] = "RUNNING"
               /\ WorkflowShape(new)
<1> DEFINE c == w.current_stage
           new == start_stage(w, c)
<1>0. c \in Stage
  BY PipelineAssumption DEF CatalogIntelligenceWorkflow, NoStage, Stage
<1>1. /\ new \in CatalogIntelligenceWorkflow
      /\ new.status = "RUNNING"
      /\ new.version = w.version + 1
      /\ new.product = w.product
      /\ new.current_stage = c
      /\ new.stages = [w.stages EXCEPT ![c] = "RUNNING"]
  <2>1. c \in 0 .. StageCount
    BY DEF CatalogIntelligenceWorkflow
  <2>2. "RUNNING" \in CatalogWorkflowStageStatus /\ "RUNNING" \in CatalogWorkflowStatus
    BY DEF CatalogWorkflowStageStatus, CatalogWorkflowStatus
  <2>3. new = replace_stage(w, c, "RUNNING", "RUNNING", c)
    BY DEF start_stage
  <2> HIDE DEF new, c
  <2> QED
    BY <1>0, <2>1, <2>2, <2>3, ReplaceStage
<1> HIDE DEF new
<1>2. new.stages[c] = "RUNNING" /\ \A s \in Stage : s # c => new.stages[s] = w.stages[s]
  BY <1>0, <1>1 DEF CatalogIntelligenceWorkflow
<1>3. WorkflowShape(new)
  BY <1>0, <1>1, <1>2, PipelineAssumption
     DEF WorkflowShape, At, Terminal, TERMINAL_WORKFLOW_STATUSES, Stage, NoStage,
         CatalogIntelligenceWorkflow
<1> QED
  BY <1>1, <1>2, <1>3 DEF new

\* A stage ends or waits while it is the current, running one: what is left
\* of the pipeline keeps its shape.
LEMMA MoveShape ==
    ASSUME NEW w \in CatalogIntelligenceWorkflow, WorkflowShape(w), w.status = "RUNNING",
           NEW s \in Stage, s = w.current_stage, w.stages[s] = "RUNNING",
           NEW new \in CatalogIntelligenceWorkflow, new.version = w.version + 1,
           NEW stageStatus \in CatalogWorkflowStageStatus,
           new.stages = [w.stages EXCEPT ![s] = stageStatus],
           \/ /\ stageStatus = "WAITING" /\ s = HUMAN_REVIEW
              /\ new.status = "WAITING_FOR_REVIEW" /\ new.current_stage = s
           \/ /\ stageStatus \in TERMINAL_STAGE_STATUSES
              /\ stageStatus = "FAILED" => s \in OPTIONAL_STAGES
              /\ new.status = "RUNNING" /\ new.current_stage = next_stage(w, s)
           \/ /\ stageStatus = "FAILED"
              /\ new.status = "FAILED" /\ new.current_stage = NoStage
    PROVE  WorkflowShape(new)
<1>1. At(w, s) /\ s # NoStage
  BY PipelineAssumption DEF WorkflowShape, Stage, NoStage
<1>2. new.stages[s] = stageStatus /\ \A t \in Stage : t # s => new.stages[t] = w.stages[t]
  BY DEF CatalogIntelligenceWorkflow
<1>3. At(new, s)
  BY <1>1, <1>2 DEF At, Stage
<1>4. next_stage(w, s) = IF s = StageCount THEN NoStage ELSE s + 1
  BY <1>1, NextStage
<1>5. /\ new.version >= 1
      /\ \A t, u \in Stage :
            t < u /\ new.stages[u] # "NOT_STARTED" => new.stages[t] \in TERMINAL_STAGE_STATUSES
  <2>1. new.version >= 1
    BY DEF WorkflowShape, CatalogIntelligenceWorkflow
  <2>2. \A t, u \in Stage :
            t < u /\ new.stages[u] # "NOT_STARTED" => new.stages[t] \in TERMINAL_STAGE_STATUSES
    BY <1>3, PipelineAssumption DEF At, Stage
  <2> QED
    BY <2>1, <2>2
<1>6. \A t \in Stage \ OPTIONAL_STAGES : w.stages[t] # "FAILED"
  BY DEF WorkflowShape
<1>7. CASE /\ stageStatus = "WAITING" /\ s = HUMAN_REVIEW
           /\ new.status = "WAITING_FOR_REVIEW" /\ new.current_stage = s
  BY <1>2, <1>3, <1>5, <1>6, <1>7 DEF WorkflowShape, Terminal, TERMINAL_WORKFLOW_STATUSES
<1>8. CASE /\ stageStatus \in TERMINAL_STAGE_STATUSES
           /\ stageStatus = "FAILED" => s \in OPTIONAL_STAGES
           /\ new.status = "RUNNING" /\ new.current_stage = next_stage(w, s)
  <2>1. \A t \in Stage \ OPTIONAL_STAGES : new.stages[t] # "FAILED"
    BY <1>2, <1>6, <1>8
  <2>2. CASE s = StageCount
    <3>1. \A t \in Stage : new.stages[t] \in TERMINAL_STAGE_STATUSES
      BY <1>2, <1>3, <1>8, <2>2, PipelineAssumption DEF At, Stage
    <3> QED
      BY <1>4, <1>5, <1>8, <2>1, <2>2, <3>1
         DEF WorkflowShape, Terminal, TERMINAL_WORKFLOW_STATUSES
  <2>3. CASE s # StageCount
    <3>1. s + 1 \in Stage /\ s + 1 # NoStage
      BY <2>3, PipelineAssumption DEF Stage, NoStage
    <3>2. new.stages[s + 1] = "NOT_STARTED"
      BY <1>3, <3>1 DEF At, Stage
    <3>3. At(new, s + 1)
      BY <1>2, <1>3, <1>8, <3>1, PipelineAssumption DEF At, Stage
    <3>4. new.current_stage = s + 1
      BY <1>4, <1>8, <2>3
    <3> QED
      BY <1>5, <1>8, <2>1, <3>1, <3>2, <3>3, <3>4
         DEF WorkflowShape, Terminal, TERMINAL_WORKFLOW_STATUSES
  <2> QED
    BY <2>2, <2>3
<1>9. CASE /\ stageStatus = "FAILED"
           /\ new.status = "FAILED" /\ new.current_stage = NoStage
  BY <1>5, <1>9 DEF WorkflowShape
<1> QED
  BY <1>7, <1>8, <1>9

\* fail_stage ends the workflow or, for an optional stage, moves on.
LEMMA FailShape ==
    ASSUME NEW w \in CatalogIntelligenceWorkflow, WorkflowShape(w), w.status = "RUNNING",
           w.current_stage # NoStage, w.stages[w.current_stage] = "RUNNING",
           NEW terminal \in BOOLEAN, ~terminal => w.current_stage \in OPTIONAL_STAGES
    PROVE  LET new == fail_stage(w, w.current_stage, terminal)
           IN  /\ new \in CatalogIntelligenceWorkflow
               /\ new.status = IF terminal THEN "FAILED" ELSE "RUNNING"
               /\ new.version = w.version + 1
               /\ new.product = w.product
               /\ WorkflowShape(new)
<1> DEFINE c == w.current_stage
           next == IF terminal THEN NoStage ELSE next_stage(w, c)
           status == IF terminal THEN "FAILED" ELSE "RUNNING"
           new == fail_stage(w, c, terminal)
<1>1. c \in Stage /\ At(w, c)
  BY PipelineAssumption DEF CatalogIntelligenceWorkflow, NoStage, Stage, WorkflowShape
<1>2. next \in 0 .. StageCount
  BY <1>1, NextStage, PipelineAssumption DEF Stage, NoStage
<1>3. status \in CatalogWorkflowStatus /\ "FAILED" \in CatalogWorkflowStageStatus
  BY DEF CatalogWorkflowStatus, CatalogWorkflowStageStatus
<1>4. new = replace_stage(w, c, "FAILED", status, next)
  BY DEF fail_stage
<1>5. status = (IF terminal THEN "FAILED" ELSE "RUNNING")
      /\ next = (IF terminal THEN NoStage ELSE next_stage(w, c))
  OBVIOUS
<1> HIDE DEF new, status, next
<1>6. /\ new \in CatalogIntelligenceWorkflow
      /\ new.version = w.version + 1
      /\ new.product = w.product
      /\ new.status = status
      /\ new.current_stage = next
      /\ new.stages = [w.stages EXCEPT ![c] = "FAILED"]
  BY <1>1, <1>2, <1>3, <1>4, ReplaceStage
<1>7. "FAILED" \in TERMINAL_STAGE_STATUSES
  BY DEF TERMINAL_STAGE_STATUSES
<1>8. WorkflowShape(new)
  <2>1. CASE terminal
    BY <1>1, <1>3, <1>5, <1>6, <2>1, MoveShape
  <2>2. CASE ~terminal
    BY <1>1, <1>3, <1>5, <1>6, <1>7, <2>2, MoveShape
  <2> QED
    BY <2>1, <2>2
<1> QED
  BY <1>5, <1>6, <1>8 DEF new

\* apply_outcome ends the current stage or, for HUMAN_REVIEW, waits.
LEMMA ApplyShape ==
    ASSUME NEW w \in CatalogIntelligenceWorkflow, WorkflowShape(w), w.status = "RUNNING",
           w.current_stage # NoStage, w.stages[w.current_stage] = "RUNNING",
           NEW outcome \in CatalogWorkflowStageOutcome,
           outcome.status = "WAITING" => w.current_stage = HUMAN_REVIEW
    PROVE  LET new == apply_outcome(w, w.current_stage, outcome)
           IN  /\ new \in CatalogIntelligenceWorkflow
               /\ new.status = IF outcome.status = "WAITING" THEN "WAITING_FOR_REVIEW"
                               ELSE "RUNNING"
               /\ new.version = w.version + 1
               /\ new.product = w.product
               /\ WorkflowShape(new)
<1> DEFINE c == w.current_stage
           waiting == outcome.status = "WAITING"
           next == IF waiting THEN c ELSE next_stage(w, c)
           status == IF waiting THEN "WAITING_FOR_REVIEW" ELSE "RUNNING"
           moved == replace_stage(w, c, outcome.status, status, next)
           sel == IF outcome.selection_id = NoSelection
                  THEN w.selection_id ELSE outcome.selection_id
           ver == IF outcome.product_version = 0
                  THEN w.product_version ELSE outcome.product_version
           new == apply_outcome(w, c, outcome)
<1>1. c \in Stage /\ At(w, c)
  BY PipelineAssumption DEF CatalogIntelligenceWorkflow, NoStage, Stage, WorkflowShape
<1>2. next \in 0 .. StageCount
  BY <1>1, NextStage, PipelineAssumption DEF Stage, NoStage
<1>3. status \in CatalogWorkflowStatus
  BY DEF CatalogWorkflowStatus
<1>4. outcome.status \in CatalogWorkflowStageStatus
      /\ (outcome.status = "WAITING" \/ outcome.status \in TERMINAL_STAGE_STATUSES \ {"FAILED"})
  BY DEF CatalogWorkflowStageOutcome, CatalogWorkflowStageStatus, TERMINAL_STAGE_STATUSES
<1>5. sel \in Selections \cup {NoSelection} /\ ver \in Nat
  BY DEF CatalogWorkflowStageOutcome, CatalogIntelligenceWorkflow
<1>6. new = [moved EXCEPT !.selection_id = sel, !.product_version = ver]
  BY DEF apply_outcome
<1>7. /\ waiting => status = "WAITING_FOR_REVIEW" /\ next = c
      /\ ~waiting => status = "RUNNING" /\ next = next_stage(w, c)
  OBVIOUS
<1> HIDE DEF new, status, next, sel, ver
<1>8. /\ moved \in CatalogIntelligenceWorkflow
      /\ moved.version = w.version + 1
      /\ moved.product = w.product
      /\ moved.status = status
      /\ moved.current_stage = next
      /\ moved.stages = [w.stages EXCEPT ![c] = outcome.status]
  BY <1>1, <1>2, <1>3, <1>4, ReplaceStage
<1> HIDE DEF moved
<1>9. new \in CatalogIntelligenceWorkflow
  BY <1>5, <1>6, <1>8 DEF CatalogIntelligenceWorkflow
<1>10. /\ new.version = w.version + 1
       /\ new.product = w.product
       /\ new.status = status
       /\ new.current_stage = next
       /\ new.stages = [w.stages EXCEPT ![c] = outcome.status]
  BY <1>6, <1>8 DEF CatalogIntelligenceWorkflow
<1>11. WorkflowShape(new)
  <2>1. CASE waiting
    BY <1>1, <1>4, <1>7, <1>9, <1>10, <2>1, MoveShape
  <2>2. CASE ~waiting
    BY <1>1, <1>4, <1>7, <1>9, <1>10, <2>2, MoveShape
  <2> QED
    BY <2>1, <2>2
<1> QED
  BY <1>7, <1>9, <1>10, <1>11 DEF new

\* resume_review takes a waiting workflow back into HUMAN_REVIEW.
LEMMA ResumeShape ==
    ASSUME NEW w \in CatalogIntelligenceWorkflow, WorkflowShape(w),
           w.status = "WAITING_FOR_REVIEW"
    PROVE  LET new == resume_review(w)
           IN  /\ new \in CatalogIntelligenceWorkflow
               /\ new.status = "RUNNING"
               /\ new.version = w.version + 1
               /\ new.product = w.product
               /\ new.current_stage = HUMAN_REVIEW
               /\ new.stages[HUMAN_REVIEW] = "RUNNING"
               /\ WorkflowShape(new)
<1> DEFINE new == resume_review(w)
<1>1. /\ HUMAN_REVIEW \in Stage /\ HUMAN_REVIEW \in 0 .. StageCount /\ HUMAN_REVIEW # NoStage
      /\ "RUNNING" \in CatalogWorkflowStageStatus /\ "RUNNING" \in CatalogWorkflowStatus
  BY PipelineAssumption DEF Stage, NoStage, CatalogWorkflowStageStatus, CatalogWorkflowStatus
<1>2. new = replace_stage(w, HUMAN_REVIEW, "RUNNING", "RUNNING", HUMAN_REVIEW)
  BY DEF resume_review
<1> HIDE DEF new
<1>3. /\ new \in CatalogIntelligenceWorkflow
      /\ new.version = w.version + 1
      /\ new.product = w.product
      /\ new.status = "RUNNING"
      /\ new.current_stage = HUMAN_REVIEW
      /\ new.stages = [w.stages EXCEPT ![HUMAN_REVIEW] = "RUNNING"]
  BY <1>1, <1>2, ReplaceStage
<1>4. /\ new.stages[HUMAN_REVIEW] = "RUNNING"
      /\ \A s \in Stage : s # HUMAN_REVIEW => new.stages[s] = w.stages[s]
  BY <1>1, <1>3 DEF CatalogIntelligenceWorkflow
<1>5. WorkflowShape(new)
  BY <1>1, <1>3, <1>4, PipelineAssumption
     DEF WorkflowShape, At, Terminal, TERMINAL_WORKFLOW_STATUSES, Stage, NoStage,
         CatalogIntelligenceWorkflow
<1> QED
  BY <1>3, <1>4, <1>5 DEF new

\* finish makes a workflow with no stage left a terminal one.
LEMMA FinishShape ==
    ASSUME NEW w \in CatalogIntelligenceWorkflow, WorkflowShape(w), w.status = "RUNNING",
           may_finish(w), NEW warn \in BOOLEAN
    PROVE  LET new == finish(w, warn)
           IN  /\ new \in CatalogIntelligenceWorkflow
               /\ Terminal(new)
               /\ new.version = w.version + 1
               /\ new.product = w.product
               /\ WorkflowShape(new)
<1> DEFINE status == IF warn THEN "COMPLETED_WITH_WARNINGS" ELSE "COMPLETED"
           new == finish(w, warn)
<1>1. /\ status \in CatalogWorkflowStatus /\ status \in TERMINAL_WORKFLOW_STATUSES
      /\ status \notin {"PENDING", "RUNNING", "WAITING_FOR_REVIEW", "FAILED"}
      /\ w.version + 1 \in Nat /\ NoStage \in 0 .. StageCount /\ 100 \in Nat
  BY PipelineAssumption
     DEF CatalogWorkflowStatus, TERMINAL_WORKFLOW_STATUSES, CatalogIntelligenceWorkflow, NoStage
<1>2. new = [w EXCEPT !.status = status, !.version = w.version + 1,
                      !.current_stage = NoStage, !.progress = 100]
  BY DEF finish
<1> HIDE DEF new, status
<1>3. new \in CatalogIntelligenceWorkflow
  BY <1>1, <1>2 DEF CatalogIntelligenceWorkflow
<1>4. /\ new.version = w.version + 1
      /\ new.product = w.product
      /\ new.status = status
      /\ new.current_stage = NoStage
      /\ new.stages = w.stages
  BY <1>2 DEF CatalogIntelligenceWorkflow
<1>5. new.version >= 1
  BY <1>4 DEF WorkflowShape, CatalogIntelligenceWorkflow
<1>6. WorkflowShape(new) /\ Terminal(new)
  BY <1>1, <1>4, <1>5 DEF WorkflowShape, Terminal
<1> QED
  BY <1>3, <1>4, <1>6 DEF new

-------------------------------------------------------------------------------
(* Steps that write no workflow.                                           *)

EnvType ==
    /\ product \in [Products -> [version : Nat, status : ProductStatus]]
    /\ sourceIndex \in [Products -> SUBSET SourceIds]
    /\ review \in [Products -> [Selections -> ReviewStatus]]
    /\ faults \in Nat

HandlerType ==
    /\ pc \in [Handlers -> Step]
    /\ target \in [Handlers -> WorkflowIds \cup {None}]
    /\ mem \in [Handlers -> CatalogIntelligenceWorkflow \cup {None}]
    /\ pending \in [Handlers -> CatalogWorkflowStageOutcome]

\* Handler h is the only one whose request moves.
OnlyMoves(h) ==
    \A k \in Handlers \ {h} :
        pc'[k] = pc[k] /\ target'[k] = target[k] /\ mem'[k] = mem[k] /\ pending'[k] = pending[k]

\* A step of one handler that writes nothing keeps the invariant if its own
\* view stays right and it does not become an owner.
LEMMA LocalStep ==
    ASSUME IInv, NEW h \in Handlers, UNCHANGED <<workflows, guard>>,
           EnvType', HandlerType', OnlyMoves(h), HandlerView(h)',
           Owner(h)' => Owner(h) /\ target'[h] = target[h]
    PROVE  IInv'
<1>1. TypeOK'
  BY DEF IInv, TypeOK, EnvType, HandlerType
<1>2. (\A w \in WorkflowIds : Stored(w) => WorkflowShape(workflows[w]))'
  BY DEF IInv, Stored, WorkflowShape, At, Terminal
<1>3. GuardIsTheActiveWorkflow'
  BY DEF IInv, GuardIsTheActiveWorkflow, Stored, Terminal
<1>4. ASSUME NEW k \in Handlers, k # h
      PROVE  HandlerView(k)' /\ (Owner(k)' <=> Owner(k)) /\ target'[k] = target[k]
  BY <1>4 DEF IInv, OnlyMoves, HandlerView, Owner, Driving, WorkflowShape, At, Terminal
<1>5. OneOwner'
  BY <1>4 DEF IInv, OneOwner
<1> QED
  BY <1>1, <1>2, <1>3, <1>4, <1>5 DEF IInv

\* The end of a request.
LEMMA ReturnStep ==
    ASSUME IInv, NEW h \in Handlers, UNCHANGED <<workflows, guard>>, EnvType', Return(h)
    PROVE  IInv'
<1>1. HandlerType'
  BY DEF IInv, TypeOK, HandlerType, Return, Step, NoOutcome, CatalogWorkflowStageOutcome
<1>2. OnlyMoves(h) /\ pc'[h] = "idle" /\ target'[h] = None
  BY DEF IInv, TypeOK, OnlyMoves, Return
<1>3. HandlerView(h)' /\ ~Owner(h)'
  BY <1>2 DEF HandlerView, Owner, Driving, Resuming, Executing, Reviewing
<1> QED
  BY <1>1, <1>2, <1>3, LocalStep

\* A step inside the execution of a stage, which goes on or turns into an error.
LEMMA ExecutingStep ==
    ASSUME IInv, NEW h \in Handlers, UNCHANGED <<workflows, guard>>, EnvType',
           pc[h] \in Executing \ {"fail"},
           NEW step \in Executing, pc' = [pc EXCEPT ![h] = step],
           NEW outcome \in CatalogWorkflowStageOutcome,
           pending' = [pending EXCEPT ![h] = outcome],
           UNCHANGED <<target, mem>>,
           step \in Reviewing => mem[h].current_stage = HUMAN_REVIEW,
           step = "apply" /\ outcome.status = "WAITING" => mem[h].current_stage = HUMAN_REVIEW
    PROVE  IInv'
<1>1. HandlerType'
  BY DEF IInv, TypeOK, HandlerType, Step, Executing, Reviewing
<1>2. OnlyMoves(h) /\ pc'[h] = step /\ pending'[h] = outcome
  BY DEF IInv, TypeOK, OnlyMoves
<1>3. /\ pc[h] \notin {"idle", "snapshot", "create", "begin"} /\ pc[h] \notin Resuming
      /\ step \notin {"idle", "snapshot", "create", "begin"} /\ step \notin Resuming
      /\ Driving(h)
  BY DEF Executing, Reviewing, Resuming, Driving
<1>4. HandlerView(h)
  BY DEF IInv
<1>5. HandlerView(h)'
  BY <1>2, <1>3, <1>4 DEF HandlerView, Driving, WorkflowShape, At, Terminal
<1>6. Owner(h)' => Owner(h)
  BY <1>2, <1>3 DEF Owner
<1> QED
  BY <1>1, <1>2, <1>5, <1>6, LocalStep

\* A check of resume that holds.
LEMMA ResumingStep ==
    ASSUME IInv, NEW h \in Handlers, UNCHANGED <<workflows, guard>>, EnvType',
           pc[h] \in Resuming, NEW step \in Resuming, Goto(h, step)
    PROVE  IInv'
<1>1. HandlerType'
  BY DEF IInv, TypeOK, HandlerType, Step, Resuming, Goto
<1>2. OnlyMoves(h) /\ pc'[h] = step
  BY DEF IInv, TypeOK, OnlyMoves, Goto
<1>3. /\ pc[h] \notin {"idle", "snapshot", "create"}
      /\ step \notin {"idle", "snapshot", "create", "begin", "run"} /\ step \notin Executing
      /\ ~Driving(h)'
  BY <1>2 DEF Executing, Reviewing, Resuming, Driving
<1>4. HandlerView(h)
  BY DEF IInv
<1>5. HandlerView(h)'
  BY <1>2, <1>3, <1>4 DEF HandlerView, WorkflowShape, At, Terminal, Goto, Reviewing, Executing
<1>6. ~Owner(h)'
  BY <1>2, <1>3 DEF Owner
<1> QED
  BY <1>1, <1>2, <1>5, <1>6, LocalStep

-------------------------------------------------------------------------------
(* Steps that write a workflow.                                            *)

\* A handler that is about to save: what it knows of the stored workflow.
LEMMA SaverView ==
    ASSUME IInv, NEW h \in Handlers, pc[h] \in Executing \cup {"begin", "run", "resume_save"}
    PROVE  /\ target[h] \in WorkflowIds
           /\ Stored(target[h])
           /\ workflows[target[h]] \in CatalogIntelligenceWorkflow
           /\ mem[h] \in CatalogIntelligenceWorkflow
           /\ WorkflowShape(mem[h])
           /\ workflows[target[h]].product = mem[h].product
           /\ mem[h].version = workflows[target[h]].version => mem[h] = workflows[target[h]]
           /\ pc[h] = "begin" => mem[h].status = "PENDING"
           /\ pc[h] = "resume_save" => mem[h].status = "WAITING_FOR_REVIEW"
           /\ pc[h] \notin {"begin", "resume_save"} => mem[h].status = "RUNNING"
           /\ ~Terminal(mem[h])
<1>1. HandlerView(h) /\ TypeOK
  BY DEF IInv
<1>2. pc[h] \notin {"idle", "snapshot", "create"}
  BY DEF Executing, Reviewing
<1>3. /\ target[h] # None /\ mem[h] # None /\ workflows[target[h]] # None
      /\ workflows[target[h]].product = mem[h].product
      /\ WorkflowShape(mem[h])
      /\ mem[h].version = workflows[target[h]].version => mem[h] = workflows[target[h]]
  BY <1>1, <1>2 DEF HandlerView
<1>4. /\ pc[h] = "begin" => mem[h].status = "PENDING"
      /\ pc[h] = "resume_save" => mem[h].status = "WAITING_FOR_REVIEW"
      /\ pc[h] \notin {"begin", "resume_save"} => mem[h].status = "RUNNING"
  BY <1>1 DEF HandlerView, Resuming
<1> QED
  BY <1>1, <1>3, <1>4 DEF TypeOK, Stored, Terminal, TERMINAL_WORKFLOW_STATUSES

\* A write keeps the stored workflows and the guards right, and makes every
\* other copy of the workflow an outdated one: nobody else owns it.
LEMMA WriteStep ==
    ASSUME IInv, NEW h \in Handlers,
           pc[h] \in Executing \cup {"begin", "run", "resume_save"},
           NEW new \in CatalogIntelligenceWorkflow, WorkflowShape(new),
           new.version = mem[h].version + 1, new.product = mem[h].product,
           CanSave(h, new), Write(h, new), OnlyMoves(h)
    PROVE  /\ workflows' \in [WorkflowIds -> CatalogIntelligenceWorkflow \cup {None}]
           /\ guard' \in [Products -> WorkflowIds \cup {None}]
           /\ (\A w \in WorkflowIds : Stored(w) => WorkflowShape(workflows[w]))'
           /\ GuardIsTheActiveWorkflow'
           /\ workflows'[target[h]] = new
           /\ \A k \in Handlers \ {h} :
                /\ HandlerView(k)'
                /\ Owner(k)' => Owner(k) /\ target[k] # target[h]
<1> DEFINE t == target[h]
           old == workflows[t]
<1>1. /\ t \in WorkflowIds /\ old # None /\ old \in CatalogIntelligenceWorkflow
      /\ mem[h] = old /\ ~Terminal(old) /\ mem[h] \in CatalogIntelligenceWorkflow
  BY SaverView DEF CanSave, Stored
<1>2. /\ workflows' = [workflows EXCEPT ![t] = new]
      /\ guard' = IF Terminal(new) THEN [guard EXCEPT ![new.product] = None] ELSE guard
      /\ new.product = old.product /\ new.version = old.version + 1
  BY <1>1 DEF Write
<1>3. /\ workflows \in [WorkflowIds -> CatalogIntelligenceWorkflow \cup {None}]
      /\ guard \in [Products -> WorkflowIds \cup {None}]
      /\ old.product \in Products /\ old.version \in Nat
      /\ None \notin CatalogIntelligenceWorkflow /\ None \notin WorkflowIds
      /\ guard[old.product] = t
  BY <1>1, OrchestratorAssumption
     DEF IInv, TypeOK, CatalogIntelligenceWorkflow, GuardIsTheActiveWorkflow, Stored
<1> HIDE DEF t, old
<1>4. /\ workflows'[t] = new
      /\ \A w \in WorkflowIds \ {t} : workflows'[w] = workflows[w]
  BY <1>1, <1>2, <1>3
<1>5. /\ workflows' \in [WorkflowIds -> CatalogIntelligenceWorkflow \cup {None}]
      /\ guard' \in [Products -> WorkflowIds \cup {None}]
  BY <1>1, <1>2, <1>3
<1>6. (\A w \in WorkflowIds : Stored(w) => WorkflowShape(workflows[w]))'
  <2> SUFFICES ASSUME NEW w \in WorkflowIds, workflows'[w] # None
               PROVE  WorkflowShape(workflows'[w])
    BY DEF Stored, WorkflowShape, At, Terminal
  <2>1. CASE w = t
    BY <1>4, <2>1
  <2>2. CASE w # t
    BY <1>4, <2>2 DEF IInv, Stored
  <2> QED
    BY <2>1, <2>2
<1>7. GuardIsTheActiveWorkflow'
  <2> DEFINE G == guard'
             W == workflows'
  <2>1. /\ \A w \in WorkflowIds :
              workflows[w] # None /\ ~Terminal(workflows[w]) => guard[workflows[w].product] = w
        /\ \A p \in Products :
              guard[p] # None => /\ workflows[guard[p]] # None
                                 /\ workflows[guard[p]].product = p
                                 /\ ~Terminal(workflows[guard[p]])
    BY DEF IInv, GuardIsTheActiveWorkflow, Stored
  <2>2. \A w \in WorkflowIds :
            workflows[w] # None => workflows[w].product \in Products
    BY <1>3 DEF CatalogIntelligenceWorkflow
  <2>3. CASE Terminal(new)
    <3>1. /\ G[old.product] = None
          /\ \A p \in Products \ {old.product} : G[p] = guard[p]
      BY <1>2, <1>3, <2>3
    <3>2. ASSUME NEW w \in WorkflowIds, W[w] # None, ~Terminal(W[w])
          PROVE  G[W[w].product] = w
      BY <1>3, <1>4, <2>1, <2>2, <2>3, <3>1, <3>2
    <3>3. ASSUME NEW p \in Products, G[p] # None
          PROVE  W[G[p]] # None /\ W[G[p]].product = p /\ ~Terminal(W[G[p]])
      <4>1. p # old.product /\ G[p] = guard[p] /\ guard[p] # t /\ guard[p] \in WorkflowIds
        BY <1>1, <1>3, <2>1, <3>1, <3>3 DEF old
      <4> QED
        BY <1>4, <2>1, <3>3, <4>1
    <3> QED
      BY <3>2, <3>3 DEF GuardIsTheActiveWorkflow, Stored, Terminal
  <2>4. CASE ~Terminal(new)
    <3>1. G = guard
      BY <1>2, <2>4
    <3>2. ASSUME NEW w \in WorkflowIds, W[w] # None, ~Terminal(W[w])
          PROVE  G[W[w].product] = w
      BY <1>2, <1>3, <1>4, <2>1, <3>1, <3>2
    <3>3. ASSUME NEW p \in Products, G[p] # None
          PROVE  W[G[p]] # None /\ W[G[p]].product = p /\ ~Terminal(W[G[p]])
      <4>1. CASE guard[p] = t
        BY <1>1, <1>2, <1>3, <1>4, <2>1, <2>4, <3>1, <4>1 DEF old
      <4>2. CASE guard[p] # t
        BY <1>3, <1>4, <2>1, <3>1, <3>3, <4>2
      <4> QED
        BY <4>1, <4>2
    <3> QED
      BY <3>2, <3>3 DEF GuardIsTheActiveWorkflow, Stored, Terminal
  <2> QED
    BY <2>3, <2>4
<1>8. ASSUME NEW k \in Handlers, k # h
      PROVE  /\ HandlerView(k)'
             /\ Owner(k)' => Owner(k) /\ target[k] # t
  <2>1. pc'[k] = pc[k] /\ target'[k] = target[k] /\ mem'[k] = mem[k] /\ pending'[k] = pending[k]
    BY <1>8 DEF OnlyMoves
  <2>2. HandlerView(k)
    BY DEF IInv
  <2>3. CASE target[k] # t \/ pc[k] \in {"idle", "snapshot", "create"}
    <3>1. target[k] # t /\ (workflows'[target[k]] = workflows[target[k]] \/ target[k] = None)
      BY <1>1, <1>3, <1>4, <2>2, <2>3 DEF HandlerView, IInv, TypeOK
    <3>2. CASE target[k] = None
      <4>1. pc[k] \in {"idle", "snapshot", "create"}
        BY <2>2, <3>2 DEF HandlerView
      <4> QED
        BY <2>1, <2>2, <3>1, <4>1
           DEF HandlerView, Owner, Driving, Executing, Reviewing, Resuming, WorkflowShape, At,
               Terminal
    <3>3. CASE target[k] # None
      BY <2>1, <2>2, <3>1, <3>3
         DEF HandlerView, Owner, Driving, WorkflowShape, At, Terminal
    <3> QED
      BY <3>2, <3>3
  <2>4. CASE target[k] = t /\ pc[k] \notin {"idle", "snapshot", "create"}
    <3>1. /\ mem[k].version <= old.version /\ mem[k] \in CatalogIntelligenceWorkflow
          /\ mem[k].version = old.version => mem[k] = old
      BY <2>2, <2>4 DEF HandlerView, IInv, TypeOK, old
    <3>2. mem[k].version \in Nat /\ mem[k].version < new.version
      BY <1>2, <1>3, <3>1 DEF CatalogIntelligenceWorkflow
    <3>3. ~Driving(k)
      <4> SUFFICES ASSUME Driving(k) PROVE FALSE
        OBVIOUS
      <4>1. mem[k] = old
        BY <2>2, <2>4 DEF HandlerView, old
      <4>2. pc[k] \in Executing \cup {"begin", "run"}
        BY DEF Driving, Executing, Reviewing
      <4>3. Owner(k)
        BY <2>4, <4>1, <4>2 DEF Owner, old
      <4>4. mem[k].status # "WAITING_FOR_REVIEW"
        BY <2>2, <4>2 DEF HandlerView
      <4>5. Owner(h)
        BY <1>1, <4>1, <4>4, SaverView DEF Owner, old, t
      <4> QED
        BY <1>8, <2>4, <4>3, <4>5 DEF IInv, OneOwner, t
    <3>4. HandlerView(k)'
      BY <1>1, <1>2, <1>3, <1>4, <2>1, <2>2, <2>4, <3>1, <3>2, <3>3
         DEF HandlerView, Driving, WorkflowShape, At, Terminal, old
    <3>5. ~Owner(k)'
      BY <1>4, <2>1, <2>4, <3>2 DEF Owner
    <3> QED
      BY <3>4, <3>5
  <2> QED
    BY <2>3, <2>4
<1> QED
  BY <1>4, <1>5, <1>6, <1>7, <1>8 DEF t

\* Every outcome of save_state keeps the invariant: saved, refused, failed
\* with the write applied, failed without it.
LEMMA SaveStep ==
    ASSUME IInv, NEW h \in Handlers,
           pc[h] \in Executing \cup {"begin", "run", "resume_save"},
           NEW new \in CatalogIntelligenceWorkflow, WorkflowShape(new),
           new.version = mem[h].version + 1, new.product = mem[h].product,
           NEW next \in {"idle", "run", "execute"}, NEW onError \in {"idle", "fail"},
           next # "idle" => new.status = "RUNNING",
           next = "execute" =>
               new.current_stage # NoStage /\ new.stages[new.current_stage] = "RUNNING",
           onError = "fail" => pc[h] \in Executing \ {"fail"},
           save_state(h, new, next, onError)
    PROVE  IInv'
<1>1. HandlerView(h) /\ TypeOK
  BY DEF IInv
<1>2. /\ target[h] \in WorkflowIds /\ mem[h] \in CatalogIntelligenceWorkflow
      /\ Stored(target[h])
      /\ workflows[target[h]] \in CatalogIntelligenceWorkflow
      /\ workflows[target[h]].product = mem[h].product
      /\ WorkflowShape(mem[h])
      /\ None \notin CatalogIntelligenceWorkflow /\ None \notin WorkflowIds
  BY SaverView, OrchestratorAssumption
<1>3. EnvType'
  BY <1>1 DEF save_state, EnvType, TypeOK, Fault
<1>4. ASSUME UNCHANGED <<workflows, guard>>, Raise(h, onError)
      PROVE  IInv'
  <2>1. CASE onError = "idle"
    BY <1>3, <1>4, <2>1, ReturnStep DEF Raise
  <2>2. CASE onError = "fail"
    <3>1. /\ pc' = [pc EXCEPT ![h] = "fail"] /\ UNCHANGED <<target, mem>>
          /\ pending' = [pending EXCEPT ![h] = pending[h]]
          /\ pending[h] \in CatalogWorkflowStageOutcome
      BY <1>1, <1>4, <2>2 DEF Raise, Goto, TypeOK
    <3>2. "fail" \in Executing /\ "fail" \notin Reviewing
      BY DEF Executing, Reviewing
    <3> QED
      BY <1>3, <1>4, <2>2, <3>1, <3>2, ExecutingStep
  <2> QED
    BY <2>1, <2>2
\* It remains to see what h knows after a write.
<1>5. ASSUME CanSave(h, new), Write(h, new), HandlerType', OnlyMoves(h),
             HandlerView(h)'
      PROVE  IInv'
  <2>1. /\ workflows' \in [WorkflowIds -> CatalogIntelligenceWorkflow \cup {None}]
        /\ guard' \in [Products -> WorkflowIds \cup {None}]
        /\ (\A w \in WorkflowIds : Stored(w) => WorkflowShape(workflows[w]))'
        /\ GuardIsTheActiveWorkflow'
        /\ \A k \in Handlers \ {h} :
             HandlerView(k)' /\ (Owner(k)' => Owner(k) /\ target[k] # target[h])
    BY <1>5, WriteStep
  <2>2. TypeOK'
    BY <1>3, <1>5, <2>1 DEF TypeOK, EnvType, HandlerType
  <2>3. target'[h] = target[h] \/ ~Owner(h)'
    <3>1. pc'[h] = "idle" => ~Owner(h)'
      BY DEF Owner, Executing, Reviewing
    <3>2. pc'[h] # "idle" => target'[h] = target[h]
      BY <1>1, <3>1 DEF save_state, Return, Raise, Goto, TypeOK
    <3> QED
      BY <3>1, <3>2
  <2>4. ASSUME NEW k \in Handlers \ {h}, NEW l \in Handlers \ {h},
               Owner(k)', Owner(l)', target'[k] = target'[l]
        PROVE  k = l
    <3>1. Owner(k) /\ Owner(l)
      BY <2>1, <2>4
    <3>2. target[k] = target[l]
      BY <1>5, <2>4 DEF OnlyMoves
    <3> QED
      BY <3>1, <3>2 DEF IInv, OneOwner
  <2>5. ASSUME NEW k \in Handlers \ {h}, Owner(k)', Owner(h)', target'[k] = target'[h]
        PROVE  FALSE
    <3>1. target[k] # target[h] /\ target'[h] = target[h]
      BY <2>1, <2>3, <2>5
    <3> QED
      BY <1>5, <2>5, <3>1 DEF OnlyMoves
  <2>6. OneOwner'
    BY <2>4, <2>5 DEF OneOwner
  <2>7. \A k \in Handlers : HandlerView(k)'
    BY <1>5, <2>1
  <2> QED
    BY <2>1, <2>2, <2>6, <2>7 DEF IInv
<1>6. ASSUME CanSave(h, new), Write(h, new), Return(h)
      PROVE  IInv'
  <2>1. HandlerType'
    BY <1>1, <1>6 DEF TypeOK, HandlerType, Return, Step, NoOutcome, CatalogWorkflowStageOutcome,
       WorkflowShape
  <2>2. OnlyMoves(h) /\ pc'[h] = "idle" /\ target'[h] = None
    BY <1>1, <1>6 DEF TypeOK, OnlyMoves, Return
  <2>3. HandlerView(h)'
    BY <2>2 DEF HandlerView, Driving, Resuming, Executing, Reviewing
  <2> QED
    BY <1>5, <1>6, <2>1, <2>2, <2>3
<1>7. ASSUME CanSave(h, new), Write(h, new), next # "idle",
             pc' = [pc EXCEPT ![h] = next], mem' = [mem EXCEPT ![h] = new],
             pending' = [pending EXCEPT ![h] = NoOutcome], UNCHANGED target
      PROVE  IInv'
  <2>1. NoOutcome \in CatalogWorkflowStageOutcome
    BY DEF NoOutcome, CatalogWorkflowStageOutcome
  <2>2. HandlerType'
    BY <1>1, <1>7, <2>1 DEF TypeOK, HandlerType, Step
  <2>3. OnlyMoves(h) /\ pc'[h] = next /\ mem'[h] = new /\ target'[h] = target[h]
    BY <1>1, <1>7 DEF TypeOK, OnlyMoves
  <2>4. workflows'[target[h]] = new
    BY <1>7, <2>3, WriteStep
  <2>5. new # None /\ target[h] # None
    BY <1>2
  <2>6. HandlerView(h)'
    <3>1. new.version \in Nat
      BY DEF CatalogIntelligenceWorkflow
    <3>2. /\ next \notin {"idle", "snapshot", "create", "begin", "apply"}
          /\ next \notin Resuming /\ next \notin Reviewing
          /\ next \in Executing => next = "execute"
      BY <1>7 DEF Resuming, Reviewing, Executing
    <3> QED
      BY <1>7, <2>3, <2>4, <2>5, <3>1, <3>2
         DEF HandlerView, Driving, WorkflowShape, At, Terminal
  <2> QED
    BY <1>5, <1>7, <2>2, <2>3, <2>6
<1>8. ASSUME CanSave(h, new), Write(h, new), Goto(h, "fail"), pc[h] \in Executing \ {"fail"}
      PROVE  IInv'
  <2>1. HandlerType'
    BY <1>1, <1>8 DEF TypeOK, HandlerType, Goto, Step
  <2>2. OnlyMoves(h) /\ pc'[h] = "fail" /\ mem'[h] = mem[h] /\ target'[h] = target[h]
    BY <1>1, <1>8 DEF TypeOK, OnlyMoves, Goto
  <2>3. workflows'[target[h]] = new
    BY <1>8, <2>2, WriteStep
  <2>4. mem[h].version \in Nat /\ new # None /\ mem[h] # None /\ target[h] # None
    BY <1>2 DEF CatalogIntelligenceWorkflow
  <2>5. /\ "fail" \notin Resuming /\ "fail" \notin Reviewing /\ "fail" \in Executing
        /\ ~Driving(h)'
    BY <2>2 DEF Resuming, Reviewing, Executing, Driving
  <2>6. mem[h].version < new.version /\ new.product = mem[h].product
    BY <2>4
  <2>7. mem[h].status = "RUNNING" /\ mem[h].current_stage # NoStage
        /\ mem[h].stages[mem[h].current_stage] = "RUNNING"
    BY <1>1, <1>8 DEF HandlerView
  <2>8. HandlerView(h)'
    BY <1>2, <2>2, <2>3, <2>4, <2>5, <2>6, <2>7
       DEF HandlerView, WorkflowShape, At, Terminal
  <2> QED
    BY <1>5, <1>8, <2>1, <2>2, <2>8
<1> QED
  BY <1>4, <1>6, <1>7, <1>8 DEF save_state, Raise

-------------------------------------------------------------------------------
(* The actions.                                                            *)

\* The product cannot do anything to the workflows by itself.
LEMMA EnvStep ==
    ASSUME IInv, UNCHANGED <<workflows, guard, handlerVars>>, EnvType'
    PROVE  IInv'
<1>1. TypeOK'
  BY DEF IInv, TypeOK, EnvType, handlerVars
<1> QED
  BY <1>1 DEF IInv, handlerVars, GuardIsTheActiveWorkflow, Stored, HandlerView, OneOwner, Owner,
              Driving, WorkflowShape, At, Terminal

\* Setting the status of one review session.
LEMMA ReviewType ==
    ASSUME NEW R \in [Products -> [Selections -> ReviewStatus]], NEW p \in Products, NEW s,
           NEW status \in ReviewStatus
    PROVE  [R EXCEPT ![p][s] = status] \in [Products -> [Selections -> ReviewStatus]]
<1> DEFINE row == [R[p] EXCEPT ![s] = status]
<1>1. row \in [Selections -> ReviewStatus]
  OBVIOUS
<1>2. [R EXCEPT ![p][s] = status] = [R EXCEPT ![p] = row]
  OBVIOUS
<1> HIDE DEF row
<1> QED
  BY <1>1, <1>2

\* The initial states, with no workflow and no request, satisfy IInv.
LEMMA InitInv ==
    ASSUME Init PROVE IInv
<1>1. TypeOK
  BY DEF Init, TypeOK, ProductStatus, ReviewStatus, Step, NoOutcome, CatalogWorkflowStageOutcome
<1>2. \A h \in Handlers : HandlerView(h) /\ ~Owner(h)
  BY DEF Init, HandlerView, Owner, Driving, Resuming, Executing, Reviewing
<1> QED
  BY <1>1, <1>2 DEF Init, IInv, Stored, GuardIsTheActiveWorkflow, OneOwner

\* start only remembers a new workflow.
LEMMA StartStep ==
    ASSUME IInv, NEW h \in Handlers, NEW p \in Products, NEW strict \in BOOLEAN,
           start(h, p, strict)
    PROVE  IInv'
<1> DEFINE new == create(p, product[p].version, strict, {})
<1>1. TypeOK /\ HandlerView(h) /\ product[p].version \in Nat
  BY DEF IInv, TypeOK
<1>2. /\ new \in CatalogIntelligenceWorkflow /\ new.status = "PENDING" /\ new.version = 1
      /\ WorkflowShape(new)
  BY <1>1, CreateShape
<1>3. pc' = [pc EXCEPT ![h] = "snapshot"] /\ mem' = [mem EXCEPT ![h] = new]
  BY DEF start
<1> HIDE DEF new
<1>4. HandlerType' /\ EnvType'
  BY <1>1, <1>2, <1>3 DEF start, TypeOK, HandlerType, EnvType, Step
<1>5. OnlyMoves(h) /\ pc'[h] = "snapshot" /\ mem'[h] = new /\ target'[h] = target[h]
  BY <1>1, <1>3 DEF start, TypeOK, OnlyMoves
<1>6. target[h] = None /\ new # None
  BY <1>1, <1>2, OrchestratorAssumption DEF start, HandlerView
<1>7. HandlerView(h)' /\ ~Owner(h)'
  BY <1>2, <1>5, <1>6
     DEF HandlerView, Owner, Driving, Resuming, Executing, Reviewing, WorkflowShape, At, Terminal
<1> QED
  BY <1>4, <1>5, <1>7, LocalStep DEF start

\* source_snapshot ends the request or remembers the sources.
LEMMA SnapshotStep ==
    ASSUME IInv, NEW h \in Handlers, source_snapshot(h)
    PROVE  IInv'
<1> DEFINE p == mem[h].product
           new == [mem[h] EXCEPT !.snapshot = sourceIndex[p]]
<1>1. TypeOK /\ HandlerView(h)
  BY DEF IInv
<1>2. EnvType' /\ UNCHANGED <<workflows, guard>> /\ pc[h] = "snapshot"
  BY <1>1 DEF source_snapshot, TypeOK, EnvType
<1>3. CASE HasSnapshot(p)
  <2>1. /\ target[h] = None /\ mem[h] \in CatalogIntelligenceWorkflow
        /\ mem[h].status = "PENDING" /\ mem[h].version = 1 /\ WorkflowShape(mem[h])
    BY <1>1, <1>2 DEF HandlerView, TypeOK
  <2>2. p \in Products /\ sourceIndex[p] \in SUBSET SourceIds
    BY <1>1, <2>1 DEF TypeOK, CatalogIntelligenceWorkflow
  <2> HIDE DEF p
  <2>3. new \in CatalogIntelligenceWorkflow
    BY <2>1, <2>2 DEF CatalogIntelligenceWorkflow
  <2>4. /\ new.status = mem[h].status /\ new.version = mem[h].version
        /\ new.stages = mem[h].stages /\ new.current_stage = mem[h].current_stage
    BY <2>1 DEF CatalogIntelligenceWorkflow
  <2>5. /\ pc' = [pc EXCEPT ![h] = "create"]
        /\ mem' = [mem EXCEPT ![h] = new]
        /\ UNCHANGED <<target, pending>>
    BY <1>3 DEF source_snapshot, p
  <2> HIDE DEF new
  <2>6. WorkflowShape(new)
    BY <2>1, <2>4 DEF WorkflowShape, At, Terminal
  <2>7. HandlerType'
    BY <1>1, <2>3, <2>5 DEF TypeOK, HandlerType, Step
  <2>8. OnlyMoves(h) /\ pc'[h] = "create" /\ mem'[h] = new /\ target'[h] = None
    BY <1>1, <2>1, <2>5 DEF TypeOK, OnlyMoves
  <2>9. HandlerView(h)' /\ ~Owner(h)'
    BY <2>1, <2>3, <2>4, <2>6, <2>8, OrchestratorAssumption
       DEF HandlerView, Owner, Driving, Resuming, Executing, Reviewing, WorkflowShape, At, Terminal
  <2> QED
    BY <1>2, <2>7, <2>8, <2>9, LocalStep
<1>4. CASE ~HasSnapshot(p)
  BY <1>2, <1>4, ReturnStep DEF source_snapshot
<1> QED
  BY <1>3, <1>4

\* The transaction stores a workflow under an identifier nobody knows yet.
LEMMA PutStep ==
    ASSUME IInv, NEW h \in Handlers, pc[h] = "create", OnlyMoves(h), EnvType', HandlerType',
           NEW w \in WorkflowIds, workflows[w] = None, \A k \in Handlers : target[k] # w,
           guard[mem[h].product] = None,
           guard' = [guard EXCEPT ![mem[h].product] = w],
           workflows' = [workflows EXCEPT ![w] = mem[h]],
           \/ pc'[h] = "idle" /\ target'[h] = None
           \/ pc'[h] = "begin" /\ target'[h] = w /\ mem'[h] = mem[h]
    PROVE  IInv'
<1> DEFINE new == mem[h]
           p == new.product
<1>1. TypeOK /\ HandlerView(h)
  BY DEF IInv
<1>2. /\ new \in CatalogIntelligenceWorkflow /\ new.status = "PENDING" /\ new.version = 1
      /\ WorkflowShape(new) /\ new # None
  BY <1>1 DEF TypeOK, HandlerView
<1>3. /\ p \in Products /\ ~Terminal(new)
      /\ None \notin WorkflowIds /\ None \notin CatalogIntelligenceWorkflow
  BY <1>2, OrchestratorAssumption
     DEF CatalogIntelligenceWorkflow, Terminal, TERMINAL_WORKFLOW_STATUSES
<1>4. /\ workflows'[w] = new /\ \A x \in WorkflowIds \ {w} : workflows'[x] = workflows[x]
      /\ guard'[p] = w /\ \A q \in Products \ {p} : guard'[q] = guard[q]
      /\ guard[p] = None
  BY <1>1, <1>3 DEF TypeOK
<1>5. TypeOK'
  BY <1>1, <1>2 DEF TypeOK, EnvType, HandlerType
<1> HIDE DEF new, p
<1>6. (\A x \in WorkflowIds : Stored(x) => WorkflowShape(workflows[x]))'
  <2> SUFFICES ASSUME NEW x \in WorkflowIds, workflows'[x] # None
               PROVE  WorkflowShape(workflows'[x])
    BY DEF Stored, WorkflowShape, At, Terminal
  <2> QED
    BY <1>2, <1>4 DEF IInv, Stored
<1>7. GuardIsTheActiveWorkflow'
  <2>1. /\ \A x \in WorkflowIds :
              workflows[x] # None /\ ~Terminal(workflows[x]) => guard[workflows[x].product] = x
        /\ \A q \in Products :
              guard[q] # None => /\ workflows[guard[q]] # None
                                 /\ workflows[guard[q]].product = q
                                 /\ ~Terminal(workflows[guard[q]])
    BY DEF IInv, GuardIsTheActiveWorkflow, Stored
  <2>2. \A x \in WorkflowIds : workflows[x] # None => workflows[x].product \in Products
    BY <1>1 DEF TypeOK, CatalogIntelligenceWorkflow
  <2>3. ASSUME NEW x \in WorkflowIds, workflows'[x] # None, ~Terminal(workflows'[x])
        PROVE  guard'[workflows'[x].product] = x
    BY <1>3, <1>4, <2>1, <2>2, <2>3 DEF p
  <2>4. ASSUME NEW q \in Products, guard'[q] # None
        PROVE  /\ workflows'[guard'[q]] # None
               /\ workflows'[guard'[q]].product = q
               /\ ~Terminal(workflows'[guard'[q]])
    <3>1. CASE q = p
      BY <1>2, <1>3, <1>4, <3>1 DEF p
    <3>2. CASE q # p
      <4>1. guard'[q] = guard[q] /\ guard[q] \in WorkflowIds /\ guard[q] # w
        BY <1>1, <1>4, <2>1, <2>4, <3>2 DEF TypeOK
      <4> QED
        BY <1>4, <2>1, <2>4, <4>1
    <3> QED
      BY <3>1, <3>2
  <2> QED
    BY <2>3, <2>4 DEF GuardIsTheActiveWorkflow, Stored, Terminal
<1>8. ASSUME NEW k \in Handlers \ {h}
      PROVE  HandlerView(k)' /\ (Owner(k)' => Owner(k)) /\ target'[k] = target[k] /\ target[k] # w
  <2>1. pc'[k] = pc[k] /\ target'[k] = target[k] /\ mem'[k] = mem[k] /\ pending'[k] = pending[k]
    BY DEF OnlyMoves
  <2>2. HandlerView(k) /\ target[k] # w
    BY DEF IInv
  <2>3. CASE target[k] = None
    <3>1. pc[k] \in {"idle", "snapshot", "create"}
      BY <2>2, <2>3 DEF HandlerView
    <3> QED
      BY <2>1, <2>2, <2>3, <3>1
         DEF HandlerView, Owner, Driving, Executing, Reviewing, Resuming, WorkflowShape, At,
             Terminal
  <2>4. CASE target[k] # None
    <3>1. workflows'[target[k]] = workflows[target[k]]
      BY <1>1, <1>4, <2>2, <2>4 DEF TypeOK
    <3> QED
      BY <2>1, <2>2, <2>4, <3>1 DEF HandlerView, Owner, Driving, WorkflowShape, At, Terminal
  <2> QED
    BY <2>3, <2>4
<1>9. HandlerView(h)' /\ (Owner(h)' => target'[h] = w)
  <2>1. CASE pc'[h] = "idle" /\ target'[h] = None
    BY <2>1 DEF HandlerView, Owner, Driving, Executing, Reviewing, Resuming
  <2>2. CASE pc'[h] = "begin" /\ target'[h] = w /\ mem'[h] = mem[h]
    BY <1>2, <1>3, <1>4, <2>2
       DEF HandlerView, Driving, Executing, Reviewing, Resuming, WorkflowShape, At, Terminal, new
  <2> QED
    BY <2>1, <2>2
<1>10. OneOwner'
  BY <1>8, <1>9 DEF IInv, OneOwner
<1>11. \A k \in Handlers : HandlerView(k)'
  BY <1>8, <1>9
<1> QED
  BY <1>5, <1>6, <1>7, <1>10, <1>11 DEF IInv

\* The repository's create: stored with the guard, refused, or failed.
LEMMA CreateStep ==
    ASSUME IInv, NEW h \in Handlers, create_workflow(h)
    PROVE  IInv'
<1>1. TypeOK /\ pc[h] = "create"
  BY DEF IInv, create_workflow
<1>2. EnvType'
  BY <1>1 DEF create_workflow, TypeOK, EnvType, Fault
<1>3. PICK w \in WorkflowIds :
        /\ workflows[w] = None
        /\ \A k \in Handlers : target[k] # w
        /\ \/ /\ guard[mem[h].product] = None
              /\ guard' = [guard EXCEPT ![mem[h].product] = w]
              /\ workflows' = [workflows EXCEPT ![w] = mem[h]]
              /\ \/ /\ pc' = [pc EXCEPT ![h] = "begin"]
                    /\ target' = [target EXCEPT ![h] = w]
                    /\ UNCHANGED <<mem, pending>>
                 \/ Return(h)
           \/ UNCHANGED <<workflows, guard>> /\ Return(h)
  BY DEF create_workflow
<1>4. CASE UNCHANGED <<workflows, guard>> /\ Return(h)
  BY <1>2, <1>4, ReturnStep
<1>5. CASE /\ guard[mem[h].product] = None
           /\ guard' = [guard EXCEPT ![mem[h].product] = w]
           /\ workflows' = [workflows EXCEPT ![w] = mem[h]]
           /\ pc' = [pc EXCEPT ![h] = "begin"]
           /\ target' = [target EXCEPT ![h] = w]
           /\ UNCHANGED <<mem, pending>>
  <2>1. HandlerType'
    BY <1>1, <1>5 DEF TypeOK, HandlerType, Step
  <2>2. OnlyMoves(h) /\ pc'[h] = "begin" /\ target'[h] = w /\ mem'[h] = mem[h]
    BY <1>1, <1>5 DEF TypeOK, OnlyMoves
  <2> QED
    BY <1>1, <1>2, <1>3, <1>5, <2>1, <2>2, PutStep
<1>6. CASE /\ guard[mem[h].product] = None
           /\ guard' = [guard EXCEPT ![mem[h].product] = w]
           /\ workflows' = [workflows EXCEPT ![w] = mem[h]]
           /\ Return(h)
  <2>1. HandlerType'
    BY <1>1, <1>6
       DEF TypeOK, HandlerType, Return, Step, NoOutcome, CatalogWorkflowStageOutcome
  <2>2. OnlyMoves(h) /\ pc'[h] = "idle" /\ target'[h] = None
    BY <1>1, <1>6 DEF TypeOK, OnlyMoves, Return
  <2> QED
    BY <1>1, <1>2, <1>3, <1>6, <2>1, <2>2, PutStep
<1> QED
  BY <1>3, <1>4, <1>5, <1>6

\* The saves: the state machine gives each the shape SaveStep asks for.
LEMMA SavingSteps ==
    ASSUME IInv, NEW h \in Handlers,
           \/ begin_workflow(h) \/ resume_save(h) \/ run_start_stage(h)
           \/ run_apply_outcome(h) \/ run_fail_stage(h)
    PROVE  IInv'
<1>1. TypeOK /\ HandlerView(h)
  BY DEF IInv
<1>2. /\ "idle" \in {"idle", "run", "execute"} /\ "run" \in {"idle", "run", "execute"}
      /\ "execute" \in {"idle", "run", "execute"}
      /\ "idle" \in {"idle", "fail"} /\ "fail" \in {"idle", "fail"}
  OBVIOUS
<1>3. CASE begin_workflow(h)
  <2>1. pc[h] \in Executing \cup {"begin", "run", "resume_save"} /\ pc[h] = "begin"
    BY <1>3 DEF begin_workflow
  <2>2. /\ begin(mem[h]) \in CatalogIntelligenceWorkflow
        /\ begin(mem[h]).status = "RUNNING"
        /\ begin(mem[h]).version = mem[h].version + 1
        /\ begin(mem[h]).product = mem[h].product
        /\ WorkflowShape(begin(mem[h]))
    BY <2>1, SaverView, BeginShape
  <2> QED
    BY <1>2, <1>3, <2>1, <2>2, SaveStep DEF begin_workflow
<1>4. CASE resume_save(h)
  <2> DEFINE new == resume_review(mem[h])
  <2>1. pc[h] \in Executing \cup {"begin", "run", "resume_save"} /\ pc[h] = "resume_save"
    BY <1>4 DEF resume_save
  <2>2. /\ new \in CatalogIntelligenceWorkflow
        /\ new.status = "RUNNING"
        /\ new.version = mem[h].version + 1
        /\ new.product = mem[h].product
        /\ new.current_stage = HUMAN_REVIEW
        /\ new.stages[HUMAN_REVIEW] = "RUNNING"
        /\ WorkflowShape(new)
    BY <2>1, SaverView, ResumeShape
  <2>3. HUMAN_REVIEW # NoStage
    BY PipelineAssumption DEF Stage, NoStage
  <2>4. save_state(h, new, "execute", "idle")
    BY <1>4 DEF resume_save
  <2> HIDE DEF new
  <2> QED
    BY <1>2, <2>1, <2>2, <2>3, <2>4, SaveStep
<1>5. CASE run_start_stage(h)
  <2> DEFINE new == start_stage(mem[h], mem[h].current_stage)
  <2>1. /\ pc[h] \in Executing \cup {"begin", "run", "resume_save"} /\ pc[h] = "run"
        /\ mem[h].current_stage # NoStage
        /\ mem[h].stages[mem[h].current_stage] = "NOT_STARTED"
        /\ save_state(h, new, "execute", "idle")
    BY <1>5 DEF run_start_stage
  <2>2. /\ new \in CatalogIntelligenceWorkflow
        /\ new.status = "RUNNING"
        /\ new.version = mem[h].version + 1
        /\ new.product = mem[h].product
        /\ new.current_stage = mem[h].current_stage
        /\ new.stages[new.current_stage] = "RUNNING"
        /\ WorkflowShape(new)
    BY <2>1, SaverView, StartShape
  <2> HIDE DEF new
  <2> QED
    BY <1>2, <2>1, <2>2, SaveStep
<1>6. CASE run_apply_outcome(h)
  <2> DEFINE new == apply_outcome(mem[h], mem[h].current_stage, pending[h])
             next == IF pending[h].status = "WAITING" THEN "idle" ELSE "run"
  <2>1. /\ pc[h] = "apply"
        /\ pc[h] \in Executing \cup {"begin", "run", "resume_save"}
        /\ pc[h] \in Executing \ {"fail"}
        /\ save_state(h, new, next, "fail")
    BY <1>6 DEF run_apply_outcome, Executing
  <2>2. /\ mem[h].current_stage # NoStage
        /\ mem[h].stages[mem[h].current_stage] = "RUNNING"
        /\ pending[h].status = "WAITING" => mem[h].current_stage = HUMAN_REVIEW
        /\ pending[h] \in CatalogWorkflowStageOutcome
    BY <1>1, <2>1 DEF HandlerView, TypeOK
  <2>3. /\ new \in CatalogIntelligenceWorkflow
        /\ new.status = IF pending[h].status = "WAITING" THEN "WAITING_FOR_REVIEW"
                        ELSE "RUNNING"
        /\ new.version = mem[h].version + 1
        /\ new.product = mem[h].product
        /\ WorkflowShape(new)
    BY <2>1, <2>2, SaverView, ApplyShape
  <2>4. /\ next \in {"idle", "run", "execute"} /\ next # "execute"
        /\ next # "idle" => new.status = "RUNNING"
    BY <2>3
  <2> HIDE DEF new, next
  <2> QED
    BY <1>2, <2>1, <2>3, <2>4, SaveStep
<1>7. CASE run_fail_stage(h)
  <2> DEFINE s == mem[h].current_stage
             terminal == s \notin OPTIONAL_STAGES \/ mem[h].strict
             new == fail_stage(mem[h], s, terminal)
             next == IF terminal THEN "idle" ELSE "run"
  <2>1. /\ pc[h] = "fail"
        /\ pc[h] \in Executing \cup {"begin", "run", "resume_save"}
        /\ save_state(h, new, next, "idle")
    BY <1>7 DEF run_fail_stage, Executing
  <2>2. /\ s # NoStage /\ mem[h].stages[s] = "RUNNING"
        /\ terminal \in BOOLEAN /\ (~terminal => s \in OPTIONAL_STAGES)
    BY <1>1, <2>1 DEF HandlerView, TypeOK, Executing
  <2> HIDE DEF terminal
  <2>3. /\ new \in CatalogIntelligenceWorkflow
        /\ new.status = IF terminal THEN "FAILED" ELSE "RUNNING"
        /\ new.version = mem[h].version + 1
        /\ new.product = mem[h].product
        /\ WorkflowShape(new)
    BY <2>1, <2>2, SaverView, FailShape
  <2>4. /\ next \in {"idle", "run", "execute"} /\ next # "execute"
        /\ next # "idle" => new.status = "RUNNING"
    BY <2>3
  <2> HIDE DEF new, next
  <2> QED
    BY <1>2, <2>1, <2>3, <2>4, SaveStep
<1> QED
  BY <1>3, <1>4, <1>5, <1>6, <1>7

\* The save of a finished workflow, or the error that finish raises.
LEMMA FinishStep ==
    ASSUME IInv, NEW h \in Handlers, run_finish(h)
    PROVE  IInv'
<1>1. TypeOK /\ pc[h] = "run" /\ pc[h] \in Executing \cup {"begin", "run", "resume_save"}
  BY DEF IInv, run_finish
<1>2. CASE UNCHANGED <<workflows, guard, product, sourceIndex, review>> /\ Return(h)
           /\ (UNCHANGED faults \/ Fault)
  <2>1. EnvType'
    BY <1>1, <1>2 DEF TypeOK, EnvType, Fault
  <2> QED
    BY <1>2, <2>1, ReturnStep
<1>3. ASSUME NEW warn \in BOOLEAN, may_finish(mem[h]),
             save_state(h, finish(mem[h], warn), "idle", "idle")
      PROVE  IInv'
  <2> DEFINE new == finish(mem[h], warn)
  <2>1. mem[h].status = "RUNNING"
    BY <1>1, SaverView
  <2>2. /\ new \in CatalogIntelligenceWorkflow
        /\ new.version = mem[h].version + 1
        /\ new.product = mem[h].product
        /\ WorkflowShape(new)
    BY <1>1, <1>3, <2>1, SaverView, FinishShape
  <2>3. "idle" \in {"idle", "run", "execute"} /\ "idle" \in {"idle", "fail"}
    OBVIOUS
  <2> HIDE DEF new
  <2> QED
    BY <1>1, <1>3, <2>2, <2>3, SaveStep DEF new
<1> QED
  BY <1>2, <1>3 DEF run_finish

\* The steps of resume before its save.
LEMMA ResumeSteps ==
    ASSUME IInv, NEW h \in Handlers,
           \/ \E w \in WorkflowIds : resume(h, w)
           \/ resume_sources(h) \/ resume_product(h) \/ resume_review_completed(h)
    PROVE  IInv'
<1>1. TypeOK /\ HandlerView(h)
  BY DEF IInv
<1>2. ASSUME NEW w \in WorkflowIds, resume(h, w)
      PROVE  IInv'
  <2>1. /\ workflows[w] # None /\ workflows[w].status = "WAITING_FOR_REVIEW"
        /\ workflows[w] \in CatalogIntelligenceWorkflow /\ WorkflowShape(workflows[w])
        /\ w # None
    BY <1>1, <1>2, OrchestratorAssumption DEF resume, TypeOK, IInv, Stored
  <2>2. HandlerType' /\ EnvType'
    BY <1>1, <1>2, <2>1 DEF resume, TypeOK, HandlerType, EnvType, Step
  <2>3. /\ OnlyMoves(h) /\ pc'[h] = "resume_sources" /\ target'[h] = w
        /\ mem'[h] = workflows[w] /\ UNCHANGED <<workflows, guard>>
    BY <1>1, <1>2 DEF resume, TypeOK, OnlyMoves
  <2>4. workflows[w].version \in Nat
    BY <2>1 DEF CatalogIntelligenceWorkflow
  <2>5. HandlerView(h)' /\ ~Owner(h)'
    BY <2>1, <2>3, <2>4
       DEF HandlerView, Owner, Driving, Resuming, Executing, Reviewing, WorkflowShape, At, Terminal
  <2> QED
    BY <2>2, <2>3, <2>5, LocalStep
<1>3. ASSUME NEW from \in Resuming, NEW to \in Resuming, NEW condition,
             resume_check(h, from, condition, to)
      PROVE  IInv'
  <2>1. /\ pc[h] = from /\ UNCHANGED <<workflows, guard>>
        /\ Goto(h, to) \/ Return(h)
    BY <1>3 DEF resume_check
  <2>2. EnvType'
    BY <1>1, <1>3 DEF resume_check, TypeOK, EnvType
  <2> QED
    BY <2>1, <2>2, ResumingStep, ReturnStep
<1>4. /\ "resume_sources" \in Resuming /\ "resume_product" \in Resuming
      /\ "resume_review" \in Resuming /\ "resume_save" \in Resuming
  BY DEF Resuming
<1> QED
  BY <1>2, <1>3, <1>4 DEF resume_sources, resume_product, resume_review_completed

\* The steps inside the execution of a stage.
LEMMA ExecutingSteps ==
    ASSUME IInv, NEW h \in Handlers,
           \/ execute_stage(h) \/ human_review(h) \/ create_review(h) \/ confirm_review(h)
           \/ pause_for_review(h) \/ mark_review_required(h)
           \/ publishing_readiness(h) \/ mark_ready_to_publish(h)
    PROVE  IInv'
<1>1. TypeOK /\ HandlerView(h)
  BY DEF IInv
<1>2. /\ pc[h] \in Executing \ {"fail"}
      /\ pc[h] \in Reviewing => mem[h].current_stage = HUMAN_REVIEW
      /\ mem[h] \in CatalogIntelligenceWorkflow
  <2>1. pc[h] \in Executing \ {"fail"}
    BY DEF execute_stage, human_review, create_review, confirm_review, pause_for_review,
           mark_review_required, publishing_readiness, mark_ready_to_publish,
           Executing, Reviewing
  <2> QED
    BY <1>1, <2>1, SaverView DEF HandlerView
<1>3. /\ pending[h] \in CatalogWorkflowStageOutcome
      /\ \A p \in Products : product[p].version \in Nat
      /\ mem[h].product \in Products
  BY <1>1, <1>2 DEF TypeOK, CatalogIntelligenceWorkflow
<1>4. \A status \in {"COMPLETED", "SKIPPED", "WAITING"},
         s \in Selections \cup {NoSelection}, v \in Nat :
            /\ Outcome(status, s, v) \in CatalogWorkflowStageOutcome
            /\ Outcome(status, s, v).status = status
  BY DEF Outcome, CatalogWorkflowStageOutcome
<1>5. NoOutcome \in CatalogWorkflowStageOutcome /\ NoOutcome.status = "COMPLETED"
  BY DEF NoOutcome, CatalogWorkflowStageOutcome
\* A step to a later point of the stage, with what it keeps or reports.
<1>6. ASSUME NEW step \in Executing, NEW outcome \in CatalogWorkflowStageOutcome,
             UNCHANGED <<workflows, guard>>, EnvType',
             pc' = [pc EXCEPT ![h] = step], UNCHANGED <<target, mem>>,
             pending' = [pending EXCEPT ![h] = outcome],
             step \in Reviewing => mem[h].current_stage = HUMAN_REVIEW,
             step = "apply" /\ outcome.status = "WAITING" => mem[h].current_stage = HUMAN_REVIEW
      PROVE  IInv'
  BY <1>2, <1>6, ExecutingStep
<1>7. ASSUME NEW step \in Executing \ {"apply"}, Goto(h, step),
             UNCHANGED <<workflows, guard>>, EnvType',
             step \in Reviewing => mem[h].current_stage = HUMAN_REVIEW
      PROVE  IInv'
  <2>1. pending' = [pending EXCEPT ![h] = pending[h]]
    BY <1>1, <1>7 DEF Goto, TypeOK
  <2> QED
    BY <1>3, <1>6, <1>7, <2>1 DEF Goto
<1>8. ASSUME NEW outcome \in CatalogWorkflowStageOutcome, Report(h, outcome),
             UNCHANGED <<workflows, guard>>, EnvType',
             outcome.status = "WAITING" => mem[h].current_stage = HUMAN_REVIEW
      PROVE  IInv'
  <2>1. "apply" \in Executing /\ "apply" \notin Reviewing
    BY DEF Executing, Reviewing
  <2> QED
    BY <1>6, <1>8, <2>1 DEF Report
<1>9. /\ "fail" \in Executing \ {"apply"} /\ "ready" \in Executing \ {"apply"}
      /\ Reviewing \subseteq Executing \ {"apply"}
      /\ "fail" \notin Reviewing /\ "ready" \notin Reviewing
      /\ "create_review" \in Reviewing /\ "confirm" \in Reviewing /\ "pause" \in Reviewing
      /\ "mark" \in Reviewing
  BY DEF Executing, Reviewing
<1>10. CASE execute_stage(h)
  <2>1. EnvType' /\ UNCHANGED <<workflows, guard>>
    BY <1>1, <1>10 DEF execute_stage, TypeOK, EnvType
  <2>2. \/ \E status \in {"COMPLETED", "SKIPPED"}, s \in Selections \cup {NoSelection} :
              Report(h, Outcome(status, s, 0))
        \/ Goto(h, "fail")
    BY <1>10 DEF execute_stage
  <2> QED
    BY <1>4, <1>7, <1>8, <1>9, <2>1, <2>2
<1>11. CASE human_review(h)
  <2>1. EnvType' /\ UNCHANGED <<workflows, guard>> /\ mem[h].current_stage = HUMAN_REVIEW
    BY <1>1, <1>11 DEF human_review, TypeOK, EnvType
  <2>2. PICK step \in {"fail"} \cup Reviewing : Goto(h, step)
    BY <1>9, <1>11 DEF human_review
  <2>3. step \in Executing \ {"apply"}
    BY <1>9
  <2> QED
    BY <1>7, <2>1, <2>2, <2>3
<1>12. CASE create_review(h)
  <2>1. UNCHANGED <<workflows, guard>> /\ mem[h].current_stage = HUMAN_REVIEW
    BY <1>2, <1>9, <1>12 DEF create_review
  <2>2. EnvType'
    <3>1. review \in [Products -> [Selections -> ReviewStatus]] /\ "OPEN" \in ReviewStatus
      BY <1>1 DEF TypeOK, ReviewStatus
    <3> DEFINE p == mem[h].product
               s == mem[h].selection_id
    <3>2. review' = review \/ review' = [review EXCEPT ![p][s] = "OPEN"]
      BY <1>12 DEF create_review
    <3>3. p \in Products
      BY <1>3
    <3> HIDE DEF p, s
    <3>4. [review EXCEPT ![p][s] = "OPEN"] \in [Products -> [Selections -> ReviewStatus]]
      BY <3>1, <3>3, ReviewType
    <3>5. review' \in [Products -> [Selections -> ReviewStatus]]
      BY <3>1, <3>2, <3>4
    <3> QED
      BY <1>1, <1>12, <3>5 DEF create_review, TypeOK, EnvType
  <2>3. Goto(h, "pause") \/ Goto(h, "fail")
    BY <1>12 DEF create_review
  <2> QED
    BY <1>7, <1>9, <2>1, <2>2, <2>3
<1>13. CASE confirm_review(h)
  <2>1. EnvType' /\ UNCHANGED <<workflows, guard>>
    BY <1>1, <1>13 DEF confirm_review, TypeOK, EnvType
  <2>2. \/ Goto(h, "fail")
        \/ Report(h, Outcome("COMPLETED", NoSelection, product[mem[h].product].version))
    BY <1>13 DEF confirm_review
  <2> QED
    BY <1>3, <1>4, <1>7, <1>8, <1>9, <2>1, <2>2
<1>14. CASE pause_for_review(h)
  <2> DEFINE seen == Outcome("WAITING", NoSelection, product[mem[h].product].version)
  <2>1. /\ EnvType' /\ UNCHANGED <<workflows, guard>>
        /\ mem[h].current_stage = HUMAN_REVIEW
    BY <1>1, <1>2, <1>9, <1>14 DEF pause_for_review, TypeOK, EnvType
  <2>2. seen \in CatalogWorkflowStageOutcome
    BY <1>3, <1>4
  <2>3. \/ Goto(h, "fail")
        \/ Report(h, seen)
        \/ /\ pc' = [pc EXCEPT ![h] = "mark"]
           /\ pending' = [pending EXCEPT ![h] = seen]
           /\ UNCHANGED <<target, mem>>
    BY <1>14 DEF pause_for_review
  <2> HIDE DEF seen
  <2> QED
    BY <1>6, <1>7, <1>8, <1>9, <2>1, <2>2, <2>3
<1>15. ASSUME NEW seen \in Nat, NEW status \in ProductStatus,
              NEW outcome \in CatalogWorkflowStageOutcome,
              UpdateProduct(h, mem[h].product, seen, status, outcome),
              outcome.status = "WAITING" => mem[h].current_stage = HUMAN_REVIEW
       PROVE  IInv'
  <2>1. UNCHANGED <<workflows, guard>>
    BY <1>15 DEF UpdateProduct
  <2>2. product' \in [Products -> [version : Nat, status : ProductStatus]]
    <3>1. [version |-> seen + 1, status |-> status] \in [version : Nat, status : ProductStatus]
      OBVIOUS
    <3> QED
      BY <1>1, <1>15, <3>1 DEF UpdateProduct, TypeOK
  <2>3. EnvType'
    BY <1>1, <1>15, <2>2 DEF UpdateProduct, TypeOK, EnvType, Fault
  <2>4. Report(h, outcome) \/ Goto(h, "fail")
    BY <1>15 DEF UpdateProduct
  <2> QED
    BY <1>7, <1>8, <1>9, <1>15, <2>1, <2>3, <2>4
<1>16. pending[h].product_version \in Nat
  BY <1>3 DEF CatalogWorkflowStageOutcome
<1>17. CASE mark_review_required(h)
  <2> DEFINE outcome == Outcome("WAITING", NoSelection, pending[h].product_version + 1)
  <2>1. outcome \in CatalogWorkflowStageOutcome /\ "REVIEW_REQUIRED" \in ProductStatus
    BY <1>4, <1>16 DEF ProductStatus
  <2>2. mem[h].current_stage = HUMAN_REVIEW
    BY <1>2, <1>9, <1>17 DEF mark_review_required
  <2>3. UpdateProduct(h, mem[h].product, pending[h].product_version, "REVIEW_REQUIRED", outcome)
    BY <1>17 DEF mark_review_required
  <2> QED
    BY <1>15, <1>16, <2>1, <2>2, <2>3
<1>18. CASE publishing_readiness(h)
  <2>1. EnvType' /\ UNCHANGED <<workflows, guard>>
    BY <1>1, <1>18 DEF publishing_readiness, TypeOK, EnvType
  <2>2. [pending[h] EXCEPT !.product_version = product[mem[h].product].version]
            \in CatalogWorkflowStageOutcome
    BY <1>3 DEF CatalogWorkflowStageOutcome
  <2>3. \/ Report(h, Outcome("SKIPPED", NoSelection, 0))
        \/ Goto(h, "fail")
        \/ /\ pc' = [pc EXCEPT ![h] = "ready"]
           /\ pending' = [pending EXCEPT ![h] =
                 [pending[h] EXCEPT !.product_version = product[mem[h].product].version]]
           /\ UNCHANGED <<target, mem>>
    BY <1>18 DEF publishing_readiness
  <2> QED
    BY <1>4, <1>6, <1>7, <1>8, <1>9, <2>1, <2>2, <2>3
<1>19. CASE mark_ready_to_publish(h)
  BY <1>5, <1>15, <1>16, <1>19 DEF mark_ready_to_publish, ProductStatus
<1> QED
  BY <1>10, <1>11, <1>12, <1>13, <1>14, <1>17, <1>18, <1>19

\* Every step keeps the invariant, one case per action.
LEMMA NextInv ==
    ASSUME IInv, [Next]_vars
    PROVE  IInv'
<1>1. TypeOK
  BY DEF IInv
<1>2. CASE UNCHANGED vars
  BY <1>1, <1>2, EnvStep DEF vars, EnvType, TypeOK
<1>3. ASSUME NEW h \in Handlers, HandlerStep(h)
      PROVE  IInv'
  BY <1>3, SnapshotStep, CreateStep, SavingSteps, FinishStep, ResumeSteps, ExecutingSteps
     DEF HandlerStep
<1>4. ASSUME NEW h \in Handlers, crash(h)
      PROVE  IInv'
  <2>1. EnvType'
    BY <1>1, <1>4 DEF crash, TypeOK, EnvType, Fault
  <2> QED
    BY <1>4, <2>1, ReturnStep DEF crash
<1>5. ASSUME NEW p \in Products, NEW status \in PatchStatuses, edit_product(p, status)
      PROVE  IInv'
  <2>1. product[p].version + 1 \in Nat /\ status \in ProductStatus
    BY <1>1, <1>5, OrchestratorAssumption DEF TypeOK
  <2>2. [version |-> product[p].version + 1, status |-> status]
            \in [version : Nat, status : ProductStatus]
    BY <2>1
  <2>3. EnvType'
    BY <1>1, <1>5, <2>2 DEF edit_product, TypeOK, EnvType
  <2> QED
    BY <1>5, <2>3, EnvStep DEF edit_product
<1>6. ASSUME NEW p \in Products, delete_product(p)
      PROVE  IInv'
  <2>1. [product[p] EXCEPT !.version = 0] \in [version : Nat, status : ProductStatus]
    BY <1>1 DEF TypeOK
  <2>2. EnvType'
    BY <1>1, <1>6, <2>1 DEF delete_product, TypeOK, EnvType
  <2> QED
    BY <1>6, <2>2, EnvStep DEF delete_product
<1>7. ASSUME NEW p \in Products, change_sources(p)
      PROVE  IInv'
  <2>1. PICK S \in SUBSET SourceIds : sourceIndex' = [sourceIndex EXCEPT ![p] = S]
    BY <1>7 DEF change_sources
  <2>2. sourceIndex' \in [Products -> SUBSET SourceIds]
    BY <1>1, <2>1 DEF TypeOK
  <2>3. EnvType'
    BY <1>1, <1>7, <2>2 DEF change_sources, TypeOK, EnvType
  <2> QED
    BY <1>7, <2>3, EnvStep DEF change_sources
<1>8. ASSUME NEW p \in Products, NEW s \in Selections, review_api(p, s)
      PROVE  IInv'
  <2>1. EnvType'
    <3>1. /\ review \in [Products -> [Selections -> ReviewStatus]]
          /\ "OPEN" \in ReviewStatus /\ "COMPLETED" \in ReviewStatus
      BY <1>1 DEF TypeOK, ReviewStatus
    <3>2. \/ review' = [review EXCEPT ![p][s] = "OPEN"]
          \/ review' = [review EXCEPT ![p][s] = "COMPLETED"]
      BY <1>8 DEF review_api
    <3>3. review' \in [Products -> [Selections -> ReviewStatus]]
      BY <3>1, <3>2, ReviewType
    <3> QED
      BY <1>1, <1>8, <3>3 DEF review_api, TypeOK, EnvType
  <2> QED
    BY <1>8, <2>1, EnvStep DEF review_api
<1> QED
  BY <1>2, <1>3, <1>4, <1>5, <1>6, <1>7, <1>8, StartStep, ResumeSteps DEF Next

-------------------------------------------------------------------------------
(* What every reachable state satisfies.                                   *)

\* The inductive invariant holds of every reachable state of the service,
\* for any pipeline, any number of requests, workflows, products and faults.
THEOREM InductiveInvariant == Spec => []IInv
<1>1. Init => IInv
  BY InitInv
<1>2. IInv /\ [Next]_vars => IInv'
  BY NextInv
<1> QED
  BY <1>1, <1>2, PTL DEF Spec

\* Every variable always has the type it is declared with.
THEOREM TypeCorrect == Spec => []TypeOK
<1>1. IInv => TypeOK
  BY DEF IInv
<1> QED
  BY <1>1, InductiveInvariant, PTL

\* At most one workflow per product is active, and the ACTIVE_PRODUCT guard
\* of the repository's transactions names exactly that one.
THEOREM OneActiveWorkflow == Spec => []GuardIsTheActiveWorkflow
<1>1. IInv => GuardIsTheActiveWorkflow
  BY DEF IInv
<1> QED
  BY <1>1, InductiveInvariant, PTL

\* Of the requests that serve one workflow at most one executes its stages,
\* and what that one remembers is what is stored.
THEOREM AtMostOneDriver == Spec => []OneDriver
<1>1. ASSUME IInv PROVE OneDriver
  <2>1. ASSUME NEW h \in Handlers, Driving(h)
        PROVE  workflows[target[h]] = mem[h] /\ Owner(h)
    <3>1. pc[h] \in Executing \cup {"begin", "run"}
      BY <2>1 DEF Driving, Executing, Reviewing
    <3>2. workflows[target[h]] = mem[h]
      BY <1>1, <2>1 DEF IInv, HandlerView
    <3> QED
      BY <3>1, <3>2 DEF Owner
  <2> QED
    BY <1>1, <2>1 DEF IInv, OneOwner, OneDriver
<1> QED
  BY <1>1, InductiveInvariant, PTL

\* No stored workflow has a stage ahead of one that has not ended, and one
\* that has no stage left can be finished.
THEOREM StagesInFixedOrder == Spec => []FixedOrder
<1>1. ASSUME IInv PROVE FixedOrder
  <2> SUFFICES ASSUME NEW w \in WorkflowIds, Stored(w)
               PROVE
        LET m == workflows[w]
        IN  /\ \A s, t \in Stage :
                s < t /\ m.stages[t] # "NOT_STARTED" => m.stages[s] \in TERMINAL_STAGE_STATUSES
            /\ m.current_stage # NoStage =>
                m.stages[m.current_stage] \in {"NOT_STARTED", "RUNNING", "WAITING"}
            /\ m.status = "RUNNING" /\ m.current_stage = NoStage => may_finish(m)
    BY DEF FixedOrder
  <2> DEFINE m == workflows[w]
  <2>1. WorkflowShape(m) /\ m \in CatalogIntelligenceWorkflow
    BY <1>1 DEF IInv, TypeOK, Stored
  <2> HIDE DEF m
  <2>2. m.current_stage # NoStage =>
            m.stages[m.current_stage] \in {"NOT_STARTED", "RUNNING", "WAITING"}
    <3>1. m.status \in {"PENDING", "RUNNING", "WAITING_FOR_REVIEW"} \/ Terminal(m)
      BY <2>1 DEF CatalogIntelligenceWorkflow, CatalogWorkflowStatus, Terminal,
                  TERMINAL_WORKFLOW_STATUSES
    <3> QED
      BY <2>1, <3>1, PipelineAssumption DEF WorkflowShape, Stage
  <2>3. m.status = "RUNNING" /\ m.current_stage = NoStage => may_finish(m)
    BY <2>1 DEF WorkflowShape, may_finish
  <2>4. \A s, t \in Stage :
            s < t /\ m.stages[t] # "NOT_STARTED" => m.stages[s] \in TERMINAL_STAGE_STATUSES
    BY <2>1 DEF WorkflowShape
  <2> QED
    BY <2>2, <2>3, <2>4 DEF m
<1> QED
  BY <1>1, InductiveInvariant, PTL


(***************************************************************************)
(* What a workflow can become in its life: its history, its verdict, its   *)
(* review and who attends to it.                                           *)
(*                                                                         *)
(* By IInv whoever saves successfully saves a transition of what is        *)
(* stored.  So every property is shown of each transition of the state     *)
(* machine (Effect), and HistoryInv adds what a handler has learnt of the  *)
(* review before it reports an outcome.                                    *)
(***************************************************************************)

\* The verdict of one workflow (VerdictMatchesStages).
Verdict(m) ==
    LET failed == {s \in Stage : m.stages[s] = "FAILED"}
    IN  /\ m.status = "FAILED" <=> (failed \ OPTIONAL_STAGES # {} \/ (m.strict /\ failed # {}))
        /\ m.status = "COMPLETED" => failed = {}
        /\ m.status \in {"COMPLETED", "COMPLETED_WITH_WARNINGS"} =>
                m.progress = 100 /\ may_finish(m)

\* progress is what the stages say, until finish sets it to 100.
ProgressOK(m) ==
    m.status \notin {"COMPLETED", "COMPLETED_WITH_WARNINGS"} => m.progress = progress(m.stages)

Done == {"COMPLETED", "SKIPPED"}

\* review_is_completed, by what the sessions r say.
SessionCompleted(m, r) ==
    m.selection_id # NoSelection /\ r[m.product][m.selection_id] = "COMPLETED"

\* A workflow that got past the review had its session completed.
Passed(m, r) ==
    \A s \in HUMAN_REVIEW .. StageCount : m.stages[s] \in Done => SessionCompleted(m, r)

\* What a handler has learnt of the review, and what it is about to report.
HandlerKnows(h) ==
    /\ pc[h] \in {"snapshot", "create"} => mem[h].progress = 0 /\ mem[h].status = "PENDING"
    /\ pc[h] \in {"confirm", "resume_save"} => SessionCompleted(mem[h], review)
    /\ pc[h] = "ready" => mem[h].current_stage = PUBLISHING_READINESS
    /\ pc[h] = "apply" =>
        /\ mem[h].current_stage # ATTRIBUTE_SELECTION => pending[h].selection_id = NoSelection
        /\ mem[h].current_stage = HUMAN_REVIEW /\ pending[h].status # "WAITING" =>
            SessionCompleted(mem[h], review)

StoredOK ==
    \A w \in WorkflowIds : Stored(w) =>
        Verdict(workflows[w]) /\ ProgressOK(workflows[w]) /\ Passed(workflows[w], review)

HistoryInv == StoredOK /\ \A h \in Handlers : HandlerKnows(h)

\* Somebody will go on with the workflow.
Attends(h) == Driving(h) \/ pc[h] = "fail"

Active(m) == m.status \in {"PENDING", "RUNNING"}

Attended ==
    \A w \in WorkflowIds : Stored(w) /\ Active(workflows[w]) =>
        \E h \in Handlers : target[h] = w /\ Attends(h)

\* As long as no call has failed, even a failing stage is saved from a copy
\* that is up to date.
FaultFree ==
    faults = 0 =>
        /\ Attended
        /\ \A h \in Handlers : pc[h] = "fail" => mem[h] = workflows[target[h]]

-------------------------------------------------------------------------------
(* The transitions.                                                        *)

\* All that _replace_stage sets and leaves.
LEMMA ReplaceFields ==
    ASSUME NEW w \in CatalogIntelligenceWorkflow, NEW s \in Stage,
           NEW stageStatus, NEW status, NEW current
    PROVE  LET new == replace_stage(w, s, stageStatus, status, current)
           IN  /\ new.product = w.product /\ new.strict = w.strict
               /\ new.snapshot = w.snapshot /\ new.selection_id = w.selection_id
               /\ new.version = w.version + 1
               /\ new.status = status
               /\ new.stages = [w.stages EXCEPT ![s] = stageStatus]
               /\ new.progress = progress(new.stages)
<1> DEFINE stages == [w.stages EXCEPT ![s] = stageStatus]
           number == progress(stages)
           new == replace_stage(w, s, stageStatus, status, current)
<1>1. new = [w EXCEPT !.stages = stages, !.progress = number,
                      !.version = w.version + 1, !.status = status,
                      !.current_stage = current]
  BY DEF replace_stage
<1>2. number = progress(stages)
  OBVIOUS
<1> HIDE DEF stages, new, number
<1>3. /\ new.product = w.product /\ new.strict = w.strict
      /\ new.snapshot = w.snapshot /\ new.selection_id = w.selection_id
      /\ new.version = w.version + 1
      /\ new.status = status /\ new.stages = stages /\ new.progress = number
  BY <1>1 DEF CatalogIntelligenceWorkflow
<1> QED
  BY <1>2, <1>3 DEF new, stages

\* Division by the number of stages is monotone and exact for all of them.
LEMMA DivMonotone ==
    ASSUME NEW n \in Nat \ {0}, NEW a \in Nat, NEW b \in Nat, a <= b
    PROVE  (a * 100) \div n <= (b * 100) \div n
<1> DEFINE x == a * 100
           y == b * 100
<1>1. x \in Nat /\ y \in Nat /\ x <= y
  OBVIOUS
<1> HIDE DEF x, y
<1>2. x \div n <= y \div n
  BY <1>1
<1> QED
  BY <1>2 DEF x, y

\* At most n of n stages make at most 100 percent.
LEMMA DivBound ==
    ASSUME NEW n \in Nat \ {0}, NEW a \in Nat, a <= n
    PROVE  (a * 100) \div n <= 100
<1> DEFINE x == a * 100
<1>1. x \in Nat /\ x <= n * 100
  BY SMT
<1> HIDE DEF x
<1>2. x \div n <= 100
  BY <1>1, SMT
<1> QED
  BY <1>2 DEF x

\* The progress only grows with the stages that are done.
LEMMA ProgressGrows ==
    ASSUME NEW old, NEW new,
           \A s \in Stage : old[s] \in Done => new[s] \in Done
    PROVE  progress(old) <= progress(new) /\ progress(old) <= 100
<1> DEFINE before == {s \in Stage : old[s] \in {"COMPLETED", "SKIPPED"}}
           after == {s \in Stage : new[s] \in {"COMPLETED", "SKIPPED"}}
<1>1. StageCount \in Nat \ {0} /\ IsFiniteSet(Stage) /\ Cardinality(Stage) = StageCount
  BY PipelineAssumption, FS_Interval DEF Stage
<1>2. before \subseteq after /\ before \subseteq Stage /\ after \subseteq Stage
  BY DEF Done
<1> HIDE DEF before, after
<1>3. IsFiniteSet(before) /\ IsFiniteSet(after)
  BY <1>1, <1>2, FS_Subset
<1>4. /\ Cardinality(before) \in Nat /\ Cardinality(after) \in Nat
      /\ Cardinality(before) <= Cardinality(after)
      /\ Cardinality(before) <= StageCount
  BY <1>1, <1>2, <1>3, FS_CardinalityType, FS_Subset
<1>5. /\ (Cardinality(before) * 100) \div StageCount <= (Cardinality(after) * 100) \div StageCount
      /\ (Cardinality(before) * 100) \div StageCount <= 100
  BY <1>1, <1>4, DivMonotone, DivBound
<1> QED
  BY <1>5 DEF progress, before, after

\* What every transition keeps, from the workflow m to new.
Kept(m, new) ==
    /\ new.version = m.version + 1
    /\ new.product = m.product
    /\ new.snapshot = m.snapshot
    /\ new.strict = m.strict
    /\ new.progress >= m.progress
    /\ \A s \in Stage : m.stages[s] \in TERMINAL_STAGE_STATUSES => new.stages[s] = m.stages[s]
    /\ Verdict(new) /\ ProgressOK(new) /\ Passed(new, review)

\* One stage, not yet ended, gets another status.
LEMMA StageMoves ==
    ASSUME NEW m \in CatalogIntelligenceWorkflow, NEW new \in CatalogIntelligenceWorkflow,
           WorkflowShape(m), ~Terminal(m), Verdict(m), ProgressOK(m), Passed(m, review),
           NEW c \in Stage, At(m, c), m.stages[c] \notin TERMINAL_STAGE_STATUSES,
           NEW st \in CatalogWorkflowStageStatus,
           new.stages = [m.stages EXCEPT ![c] = st],
           new.progress = progress(new.stages),
           new.version = m.version + 1,
           new.product = m.product, new.strict = m.strict, new.snapshot = m.snapshot,
           c # ATTRIBUTE_SELECTION => new.selection_id = m.selection_id,
           c = HUMAN_REVIEW /\ st \in Done => SessionCompleted(m, review),
           new.status \in {"RUNNING", "WAITING_FOR_REVIEW", "FAILED"},
           new.status = "FAILED" <=> st = "FAILED" /\ (c \notin OPTIONAL_STAGES \/ m.strict)
    PROVE  Kept(m, new)
<1>1. /\ new.stages[c] = st
      /\ \A s \in Stage : s # c => new.stages[s] = m.stages[s]
      /\ m.stages[c] \notin Done /\ m.stages[c] # "FAILED"
  BY DEF CatalogIntelligenceWorkflow, TERMINAL_STAGE_STATUSES, Done
<1>2. m.status \notin {"COMPLETED", "COMPLETED_WITH_WARNINGS", "FAILED"}
  BY DEF Terminal, TERMINAL_WORKFLOW_STATUSES
<1>3. \A s \in Stage : m.stages[s] \in TERMINAL_STAGE_STATUSES => new.stages[s] = m.stages[s]
  BY <1>1
<1>4. ProgressOK(new) /\ new.progress >= m.progress
  <2>1. \A s \in Stage : m.stages[s] \in Done => new.stages[s] \in Done
    BY <1>1
  <2>2. progress(m.stages) <= progress(new.stages)
    BY <2>1, ProgressGrows
  <2> QED
    BY <1>2, <2>2, ProgressType DEF ProgressOK
<1>5. Verdict(new)
  <2>1. \A s \in Stage : m.stages[s] = "FAILED" => s \in OPTIONAL_STAGES /\ ~m.strict
    BY <1>2 DEF Verdict
  <2>2. \A s \in Stage : new.stages[s] = "FAILED" <=> m.stages[s] = "FAILED" \/ (s = c /\ st = "FAILED")
    BY <1>1
  <2>3. new.status = "FAILED" <=>
            \/ \E s \in Stage \ OPTIONAL_STAGES : new.stages[s] = "FAILED"
            \/ m.strict /\ \E s \in Stage : new.stages[s] = "FAILED"
    BY <2>1, <2>2
  <2> QED
    BY <2>3 DEF Verdict
<1>6. Passed(new, review)
  <2>1. SUFFICES ASSUME NEW s \in HUMAN_REVIEW .. StageCount, new.stages[s] \in Done
                 PROVE  SessionCompleted(new, review)
    BY DEF Passed
  <2>2. /\ s \in Stage /\ HUMAN_REVIEW \in Stage /\ s >= HUMAN_REVIEW
        /\ ATTRIBUTE_SELECTION < HUMAN_REVIEW /\ HUMAN_REVIEW \notin OPTIONAL_STAGES
        /\ HUMAN_REVIEW \in HUMAN_REVIEW .. StageCount
    BY PipelineAssumption DEF Stage
  <2>3. c >= HUMAN_REVIEW
    <3>1. SUFFICES ASSUME c < HUMAN_REVIEW PROVE FALSE
      BY <2>2 DEF Stage
    <3>2. s > c /\ s # c
      BY <2>2, <3>1 DEF Stage
    <3>3. m.stages[s] = "NOT_STARTED"
      BY <2>2, <3>2 DEF At
    <3> QED
      BY <1>1, <2>1, <2>2, <3>2, <3>3 DEF Done
  <2>4. new.selection_id = m.selection_id
    BY <2>2, <2>3 DEF Stage
  <2>5. CASE c = HUMAN_REVIEW
    <3>1. st \in Done
      <4>1. CASE s = c
        BY <1>1, <2>1, <4>1
      <4>2. CASE s # c
        <5>1. s > c
          BY <2>2, <2>5, <4>2 DEF Stage
        <5>2. m.stages[s] = "NOT_STARTED"
          BY <2>2, <5>1 DEF At
        <5> QED
          BY <1>1, <2>1, <2>2, <4>2, <5>2 DEF Done
      <4> QED
        BY <4>1, <4>2
    <3> QED
      BY <2>4, <2>5, <3>1 DEF SessionCompleted
  <2>6. CASE c # HUMAN_REVIEW
    <3>1. HUMAN_REVIEW < c
      BY <2>2, <2>3, <2>6 DEF Stage
    <3>2. m.stages[HUMAN_REVIEW] \in TERMINAL_STAGE_STATUSES
      BY <2>2, <3>1 DEF At
    <3>3. m.stages[HUMAN_REVIEW] # "FAILED"
      BY <1>2, <2>2 DEF WorkflowShape
    <3>4. SessionCompleted(m, review)
      BY <2>2, <3>2, <3>3 DEF Passed, Done, TERMINAL_STAGE_STATUSES
    <3> QED
      BY <2>4, <3>4 DEF SessionCompleted
  <2> QED
    BY <2>5, <2>6
<1> QED
  BY <1>3, <1>4, <1>5, <1>6 DEF Kept

-------------------------------------------------------------------------------
(* What a handler saves.                                                   *)

Saving == Executing \cup {"begin", "run", "resume_save"}

\* new is the transition that h saves from its copy.
Transition(h, new) ==
    LET m == mem[h]
        c == m.current_stage
    IN  \/ pc[h] = "begin" /\ new = begin(m)
        \/ pc[h] = "resume_save" /\ new = resume_review(m)
        \/ /\ pc[h] = "run" /\ c # NoStage /\ m.stages[c] = "NOT_STARTED"
           /\ new = start_stage(m, c)
        \/ pc[h] = "apply" /\ new = apply_outcome(m, c, pending[h])
        \/ pc[h] = "fail" /\ new = fail_stage(m, c, c \notin OPTIONAL_STAGES \/ m.strict)
        \/ /\ pc[h] = "run" /\ may_finish(m)
           /\ \E warns \in BOOLEAN :
                new = finish(m, warns \/ \E s \in Stage : m.stages[s] = "FAILED")

\* begin changes the status and the version.
LEMMA BeginKept ==
    ASSUME NEW m \in CatalogIntelligenceWorkflow, m.status = "PENDING",
           Verdict(m), ProgressOK(m), Passed(m, review)
    PROVE  Kept(m, begin(m))
<1> DEFINE new == begin(m)
<1>1. new = [m EXCEPT !.status = "RUNNING", !.version = m.version + 1]
  BY DEF begin
<1> HIDE DEF new
<1>2. /\ new.version = m.version + 1 /\ new.status = "RUNNING"
      /\ new.product = m.product /\ new.snapshot = m.snapshot /\ new.strict = m.strict
      /\ new.progress = m.progress /\ m.progress \in Nat
      /\ new.stages = m.stages /\ new.selection_id = m.selection_id
  BY <1>1 DEF CatalogIntelligenceWorkflow
<1>3. Verdict(new)
  BY <1>2 DEF Verdict
<1>4. ProgressOK(new) /\ Passed(new, review)
  BY <1>2 DEF ProgressOK, Passed, SessionCompleted
<1>5. new.progress >= m.progress
  BY <1>2
<1> QED
  BY <1>2, <1>3, <1>4, <1>5 DEF Kept, new

\* finish changes the status, the version and the progress.
LEMMA FinishKept ==
    ASSUME NEW m \in CatalogIntelligenceWorkflow, m.status = "RUNNING", may_finish(m),
           Verdict(m), ProgressOK(m), Passed(m, review),
           NEW warn \in BOOLEAN, ~warn => \A s \in Stage : m.stages[s] # "FAILED"
    PROVE  Kept(m, finish(m, warn))
<1> DEFINE status == IF warn THEN "COMPLETED_WITH_WARNINGS" ELSE "COMPLETED"
           new == finish(m, warn)
<1>1. new = [m EXCEPT !.status = status, !.version = m.version + 1,
                      !.current_stage = NoStage, !.progress = 100]
  BY DEF finish
<1>2. /\ status \in {"COMPLETED", "COMPLETED_WITH_WARNINGS"}
      /\ status = "COMPLETED" => ~warn
  OBVIOUS
<1> HIDE DEF new, status
<1>3. /\ new.version = m.version + 1 /\ new.status = status
      /\ new.product = m.product /\ new.snapshot = m.snapshot /\ new.strict = m.strict
      /\ new.progress = 100
      /\ new.stages = m.stages /\ new.selection_id = m.selection_id
  BY <1>1 DEF CatalogIntelligenceWorkflow
<1>4. Verdict(new)
  <2>1. new.status # "FAILED"
    BY <1>2, <1>3
  <2>2. may_finish(new)
    BY <1>3 DEF may_finish
  <2> QED
    BY <1>2, <1>3, <2>1, <2>2 DEF Verdict
<1>5. ProgressOK(new) /\ Passed(new, review)
  BY <1>2, <1>3 DEF ProgressOK, Passed, SessionCompleted
<1>6. new.progress >= m.progress
  <2>1. m.progress = progress(m.stages)
    BY DEF ProgressOK
  <2>2. progress(m.stages) <= 100 /\ progress(m.stages) \in Nat
    BY ProgressGrows, ProgressType
  <2> QED
    BY <1>3, <2>1, <2>2
<1> QED
  BY <1>3, <1>4, <1>5, <1>6 DEF Kept, new

\* What apply_outcome sets.
LEMMA ApplyFields ==
    ASSUME NEW m \in CatalogIntelligenceWorkflow, NEW s \in Stage,
           NEW outcome \in CatalogWorkflowStageOutcome
    PROVE  LET new == apply_outcome(m, s, outcome)
           IN  /\ new.product = m.product /\ new.strict = m.strict
               /\ new.snapshot = m.snapshot
               /\ new.selection_id = IF outcome.selection_id = NoSelection
                                     THEN m.selection_id ELSE outcome.selection_id
               /\ new.version = m.version + 1
               /\ new.status = IF outcome.status = "WAITING" THEN "WAITING_FOR_REVIEW"
                               ELSE "RUNNING"
               /\ new.stages = [m.stages EXCEPT ![s] = outcome.status]
               /\ new.progress = progress(new.stages)
<1> DEFINE status == IF outcome.status = "WAITING" THEN "WAITING_FOR_REVIEW" ELSE "RUNNING"
           next == IF outcome.status = "WAITING" THEN s ELSE next_stage(m, s)
           moved == replace_stage(m, s, outcome.status, status, next)
           sel == IF outcome.selection_id = NoSelection
                  THEN m.selection_id ELSE outcome.selection_id
           ver == IF outcome.product_version = 0
                  THEN m.product_version ELSE outcome.product_version
           new == apply_outcome(m, s, outcome)
<1>1. new = [moved EXCEPT !.selection_id = sel, !.product_version = ver]
  BY DEF apply_outcome
<1>2. /\ moved.product = m.product /\ moved.strict = m.strict
      /\ moved.snapshot = m.snapshot
      /\ moved.version = m.version + 1
      /\ moved.status = status
      /\ moved.stages = [m.stages EXCEPT ![s] = outcome.status]
      /\ moved.progress = progress(moved.stages)
  BY ReplaceFields
<1>3. DOMAIN moved = DOMAIN m
  BY DEF replace_stage
<1>4. {"product", "strict", "snapshot", "version", "status", "stages", "progress",
       "selection_id", "product_version"} \subseteq DOMAIN m
  BY DEF CatalogIntelligenceWorkflow
<1> HIDE DEF new, moved, next, sel, ver, status
<1>5. /\ new.product = moved.product /\ new.strict = moved.strict
      /\ new.snapshot = moved.snapshot /\ new.version = moved.version
      /\ new.status = moved.status /\ new.stages = moved.stages
      /\ new.progress = moved.progress /\ new.selection_id = sel
  BY <1>1, <1>3, <1>4
<1> QED
  BY <1>2, <1>5 DEF new, sel, status

\* Every transition a handler saves is one of a workflow, and keeps all of
\* Kept if its copy had the history of a stored workflow.
LEMMA TransitionKept ==
    ASSUME IInv, NEW h \in Handlers, HandlerKnows(h), pc[h] \in Saving,
           NEW new, Transition(h, new),
           Verdict(mem[h]), ProgressOK(mem[h]), Passed(mem[h], review)
    PROVE  new \in CatalogIntelligenceWorkflow /\ Kept(mem[h], new)
<1> DEFINE m == mem[h]
           c == m.current_stage
<1>1. /\ m \in CatalogIntelligenceWorkflow /\ WorkflowShape(m) /\ ~Terminal(m)
      /\ pc[h] = "begin" => m.status = "PENDING"
      /\ pc[h] = "resume_save" => m.status = "WAITING_FOR_REVIEW"
      /\ pc[h] \notin {"begin", "resume_save"} => m.status = "RUNNING"
  BY SaverView DEF Saving
<1>2. /\ HandlerView(h) /\ TypeOK
      /\ "RUNNING" \in CatalogWorkflowStageStatus /\ "FAILED" \in CatalogWorkflowStageStatus
      /\ HUMAN_REVIEW \in Stage /\ "RUNNING" \notin Done /\ "FAILED" \notin Done
      /\ "RUNNING" \notin TERMINAL_STAGE_STATUSES /\ "WAITING" \notin TERMINAL_STAGE_STATUSES
      /\ "NOT_STARTED" \notin TERMINAL_STAGE_STATUSES
  BY PipelineAssumption DEF IInv, CatalogWorkflowStageStatus, Done, TERMINAL_STAGE_STATUSES
<1>3. ASSUME m.status = "RUNNING", c # NoStage
      PROVE  c \in Stage /\ At(m, c)
  BY <1>1, <1>3, PipelineAssumption
     DEF CatalogIntelligenceWorkflow, NoStage, Stage, WorkflowShape
<1>4. CASE pc[h] = "begin" /\ new = begin(m)
  BY <1>1, <1>4, BeginShape, BeginKept
<1>5. CASE pc[h] = "resume_save" /\ new = resume_review(m)
  <2>1. m.status = "WAITING_FOR_REVIEW" /\ At(m, HUMAN_REVIEW) /\ m.stages[HUMAN_REVIEW] = "WAITING"
    BY <1>1, <1>5 DEF WorkflowShape
  <2>2. new \in CatalogIntelligenceWorkflow
    BY <1>1, <1>5, <2>1, ResumeShape
  <2>3. /\ new.product = m.product /\ new.strict = m.strict
        /\ new.snapshot = m.snapshot /\ new.selection_id = m.selection_id
        /\ new.version = m.version + 1 /\ new.status = "RUNNING"
        /\ new.stages = [m.stages EXCEPT ![HUMAN_REVIEW] = "RUNNING"]
        /\ new.progress = progress(new.stages)
    BY <1>1, <1>2, <1>5, ReplaceFields DEF resume_review
  <2>4. new.status \in {"RUNNING", "WAITING_FOR_REVIEW", "FAILED"} /\ new.status # "FAILED"
    BY <2>3
  <2> HIDE DEF m
  <2> QED
    BY <1>1, <1>2, <2>1, <2>2, <2>3, <2>4, StageMoves DEF m
<1>6. CASE /\ pc[h] = "run" /\ c # NoStage /\ m.stages[c] = "NOT_STARTED"
           /\ new = start_stage(m, c)
  <2>1. m.status = "RUNNING" /\ c \in Stage /\ At(m, c)
    BY <1>1, <1>3, <1>6
  <2>2. new \in CatalogIntelligenceWorkflow
    BY <1>1, <1>6, <2>1, StartShape
  <2>3. /\ new.product = m.product /\ new.strict = m.strict
        /\ new.snapshot = m.snapshot /\ new.selection_id = m.selection_id
        /\ new.version = m.version + 1 /\ new.status = "RUNNING"
        /\ new.stages = [m.stages EXCEPT ![c] = "RUNNING"]
        /\ new.progress = progress(new.stages)
    BY <1>1, <1>6, <2>1, ReplaceFields DEF start_stage
  <2>4. new.status \in {"RUNNING", "WAITING_FOR_REVIEW", "FAILED"} /\ new.status # "FAILED"
    BY <2>3
  <2>5. m.stages[c] \notin TERMINAL_STAGE_STATUSES
    BY <1>2, <1>6
  <2> HIDE DEF m, c
  <2> QED
    BY <1>1, <1>2, <2>1, <2>2, <2>3, <2>4, <2>5, StageMoves DEF m
<1>7. CASE pc[h] = "apply" /\ new = apply_outcome(m, c, pending[h])
  <2> DEFINE o == pending[h]
             st == o.status
  <2>1. /\ m.status = "RUNNING" /\ c # NoStage /\ m.stages[c] = "RUNNING"
        /\ o \in CatalogWorkflowStageOutcome
        /\ o.status = "WAITING" => c = HUMAN_REVIEW
    BY <1>1, <1>2, <1>7 DEF HandlerView, Executing, TypeOK
  <2>2. c \in Stage /\ At(m, c) /\ m.stages[c] \notin TERMINAL_STAGE_STATUSES
    BY <1>2, <1>3, <2>1
  <2>3. new \in CatalogIntelligenceWorkflow
    BY <1>1, <1>7, <2>1, ApplyShape
  <2>4. /\ new.product = m.product /\ new.strict = m.strict
        /\ new.snapshot = m.snapshot
        /\ new.selection_id = IF o.selection_id = NoSelection
                              THEN m.selection_id ELSE o.selection_id
        /\ new.version = m.version + 1
        /\ new.status = IF st = "WAITING" THEN "WAITING_FOR_REVIEW" ELSE "RUNNING"
        /\ new.stages = [m.stages EXCEPT ![c] = st]
        /\ new.progress = progress(new.stages)
    BY <1>1, <1>7, <2>1, <2>2, ApplyFields
  <2>5. /\ st \in CatalogWorkflowStageStatus /\ st # "FAILED"
        /\ st \in Done => st # "WAITING"
        /\ new.status \in {"RUNNING", "WAITING_FOR_REVIEW", "FAILED"} /\ new.status # "FAILED"
    BY <2>1, <2>4 DEF CatalogWorkflowStageOutcome, CatalogWorkflowStageStatus, Done
  <2>6. /\ c # ATTRIBUTE_SELECTION => new.selection_id = m.selection_id
        /\ c = HUMAN_REVIEW /\ st \in Done => SessionCompleted(m, review)
    BY <1>7, <2>4, <2>5 DEF HandlerKnows
  <2> HIDE DEF m, c, o, st
  <2> QED
    BY <1>1, <1>2, <2>1, <2>2, <2>3, <2>4, <2>5, <2>6, StageMoves DEF m
<1>8. CASE pc[h] = "fail" /\ new = fail_stage(m, c, c \notin OPTIONAL_STAGES \/ m.strict)
  <2> DEFINE terminal == c \notin OPTIONAL_STAGES \/ m.strict
             next == IF terminal THEN NoStage ELSE next_stage(m, c)
             status == IF terminal THEN "FAILED" ELSE "RUNNING"
  <2>1. m.status = "RUNNING" /\ c # NoStage /\ m.stages[c] = "RUNNING" /\ m.strict \in BOOLEAN
    BY <1>1, <1>2, <1>8 DEF HandlerView, Executing, CatalogIntelligenceWorkflow
  <2>2. c \in Stage /\ At(m, c) /\ m.stages[c] \notin TERMINAL_STAGE_STATUSES
    BY <1>2, <1>3, <2>1
  <2>3. /\ terminal \in BOOLEAN /\ (~terminal => c \in OPTIONAL_STAGES)
        /\ status \in {"RUNNING", "WAITING_FOR_REVIEW", "FAILED"}
        /\ status = "FAILED" <=> terminal
    BY <2>1
  <2>4. new = replace_stage(m, c, "FAILED", status, next)
    BY <1>8 DEF fail_stage
  <2>5. terminal <=> c \notin OPTIONAL_STAGES \/ m.strict
    OBVIOUS
  <2> HIDE DEF terminal
  <2>6. new \in CatalogIntelligenceWorkflow
    BY <1>1, <1>8, <2>1, <2>3, FailShape DEF terminal
  <2> HIDE DEF status, next
  <2>7. /\ new.product = m.product /\ new.strict = m.strict
        /\ new.snapshot = m.snapshot /\ new.selection_id = m.selection_id
        /\ new.version = m.version + 1 /\ new.status = status
        /\ new.stages = [m.stages EXCEPT ![c] = "FAILED"]
        /\ new.progress = progress(new.stages)
    BY <1>1, <2>2, <2>4, ReplaceFields
  <2>8. /\ new.status \in {"RUNNING", "WAITING_FOR_REVIEW", "FAILED"}
        /\ new.status = "FAILED" <=> (c \notin OPTIONAL_STAGES \/ m.strict)
    BY <2>3, <2>5, <2>7
  <2> HIDE DEF m, c
  <2> QED
    BY <1>1, <1>2, <2>1, <2>2, <2>6, <2>7, <2>8, StageMoves DEF m
<1>9. CASE /\ pc[h] = "run" /\ may_finish(m)
           /\ \E warns \in BOOLEAN :
                new = finish(m, warns \/ \E s \in Stage : m.stages[s] = "FAILED")
  <2>1. PICK warns \in BOOLEAN : new = finish(m, warns \/ \E s \in Stage : m.stages[s] = "FAILED")
    BY <1>9
  <2> DEFINE warn == warns \/ \E s \in Stage : m.stages[s] = "FAILED"
  <2>2. /\ warn \in BOOLEAN /\ m.status = "RUNNING"
        /\ ~warn => \A s \in Stage : m.stages[s] # "FAILED"
    BY <1>1, <1>9
  <2>3. new = finish(m, warn) /\ may_finish(m)
    BY <1>9, <2>1
  <2> HIDE DEF warn, m
  <2> QED
    BY <1>1, <2>2, <2>3, FinishShape, FinishKept DEF m
<1> QED
  BY <1>4, <1>5, <1>6, <1>7, <1>8, <1>9 DEF Transition

\* A save writes its transition or nothing.
SaveEffect(h, new) ==
    \/ UNCHANGED workflows
    \/ CanSave(h, new) /\ workflows' = [workflows EXCEPT ![target[h]] = new]

\* Where a request stands after its save, if nothing is known of its faults.
SaveEnd(h) ==
    /\ pc'[h] \in {"idle", "run", "execute", "fail"}
    /\ OnlyMoves(h)
    /\ UNCHANGED review
    /\ faults' = faults \/ faults' = faults + 1

\* Without a fault the save goes on at next, or is refused.
FaultFreeSave(h, new, next, onError) ==
    \/ /\ CanSave(h, new)
       /\ workflows' = [workflows EXCEPT ![target[h]] = new]
       /\ pc'[h] = next /\ (next # "idle" => target'[h] = target[h])
    \/ ~CanSave(h, new) /\ UNCHANGED workflows /\ pc'[h] = onError

\* save_state, by what it writes and where the request goes on.
LEMMA SaveForms ==
    ASSUME TypeOK, NEW h \in Handlers, NEW new \in CatalogIntelligenceWorkflow,
           NEW next \in {"idle", "run", "execute"}, NEW onError \in {"idle", "fail"},
           save_state(h, new, next, onError)
    PROVE  /\ SaveEffect(h, new) /\ SaveEnd(h)
           /\ faults' = faults => FaultFreeSave(h, new, next, onError)
<1>1. Fault => faults' = faults + 1
  BY DEF Fault
<1>2. faults \in Nat
  BY DEF TypeOK
<1>3. SaveEffect(h, new)
  BY DEF save_state, Write, SaveEffect
<1>4. ASSUME NEW step \in {"idle", "run", "execute", "fail"}, Raise(h, step)
      PROVE  pc'[h] = step /\ OnlyMoves(h)
  BY <1>4 DEF Raise, Return, Goto, OnlyMoves, TypeOK
<1>5. ASSUME Return(h) PROVE pc'[h] = "idle" /\ OnlyMoves(h)
  BY <1>5 DEF Return, OnlyMoves, TypeOK
<1>6. ASSUME CanSave(h, new), Write(h, new),
             IF next = "idle" THEN Return(h)
             ELSE /\ pc' = [pc EXCEPT ![h] = next]
                  /\ mem' = [mem EXCEPT ![h] = new]
                  /\ pending' = [pending EXCEPT ![h] = NoOutcome]
                  /\ UNCHANGED target
      PROVE  pc'[h] = next /\ OnlyMoves(h) /\ (next # "idle" => target'[h] = target[h])
  <2>1. CASE next = "idle"
    BY <1>5, <1>6, <2>1
  <2>2. CASE next # "idle"
    BY <1>6, <2>2 DEF OnlyMoves, TypeOK
  <2> QED
    BY <2>1, <2>2
<1>7. SaveEnd(h)
  BY <1>1, <1>4, <1>6 DEF save_state, SaveEnd
<1>8. faults' = faults => FaultFreeSave(h, new, next, onError)
  BY <1>1, <1>2, <1>4, <1>6 DEF save_state, FaultFreeSave, Write
<1> QED
  BY <1>3, <1>7, <1>8

\* The actions that save, as one: which transition they save, and that
\* without a fault they go on only with a workflow that is still active.
SavingStep(h) ==
    \/ begin_workflow(h) \/ resume_save(h) \/ run_start_stage(h)
    \/ run_apply_outcome(h) \/ run_fail_stage(h) \/ run_finish(h)

Saves(h, new) ==
    /\ pc[h] \in Saving
    /\ Transition(h, new)
    /\ SaveEffect(h, new)
    /\ SaveEnd(h)
    /\ \E next \in {"idle", "run", "execute"}, onError \in {"idle", "fail"} :
        /\ next = "idle" => ~Active(new)
        /\ onError = "fail" => pc[h] = "apply"
        /\ faults' = faults => FaultFreeSave(h, new, next, onError)

\* Each action that saves, saves a transition of its copy.
LEMMA SavingForms ==
    ASSUME IInv, NEW h \in Handlers, SavingStep(h)
    PROVE  \/ \E new \in CatalogIntelligenceWorkflow : Saves(h, new)
           \/ UNCHANGED workflows /\ SaveEnd(h) /\ faults' = faults + 1
<1> DEFINE m == mem[h]
           c == m.current_stage
<1>1. /\ TypeOK /\ HandlerView(h)
      /\ "idle" \in {"idle", "run", "execute"} /\ "run" \in {"idle", "run", "execute"}
      /\ "execute" \in {"idle", "run", "execute"}
      /\ "idle" \in {"idle", "fail"} /\ "fail" \in {"idle", "fail"}
      /\ "run" # "idle" /\ "execute" # "idle" /\ "idle" # "fail"
  BY DEF IInv
<1>2. ASSUME NEW new \in CatalogIntelligenceWorkflow, pc[h] \in Saving, Transition(h, new),
             NEW next \in {"idle", "run", "execute"}, NEW onError \in {"idle", "fail"},
             save_state(h, new, next, onError), next = "idle" => ~Active(new),
             onError = "fail" => pc[h] = "apply"
      PROVE  Saves(h, new)
  BY <1>1, <1>2, SaveForms DEF Saves
<1>3. CASE begin_workflow(h)
  <2>1. pc[h] = "begin" /\ pc[h] \in Saving /\ save_state(h, begin(m), "run", "idle")
    BY <1>3 DEF begin_workflow, Saving
  <2>2. begin(m) \in CatalogIntelligenceWorkflow
    BY <2>1, SaverView, BeginShape DEF Saving
  <2>3. Transition(h, begin(m))
    BY <2>1 DEF Transition
  <2> QED
    BY <1>1, <1>2, <2>1, <2>2, <2>3
<1>4. CASE resume_save(h)
  <2>1. /\ pc[h] = "resume_save" /\ pc[h] \in Saving
        /\ save_state(h, resume_review(m), "execute", "idle")
    BY <1>4 DEF resume_save, Saving
  <2>2. resume_review(m) \in CatalogIntelligenceWorkflow
    BY <2>1, SaverView, ResumeShape DEF Saving
  <2>3. Transition(h, resume_review(m))
    BY <2>1 DEF Transition
  <2> QED
    BY <1>1, <1>2, <2>1, <2>2, <2>3
<1>5. CASE run_start_stage(h)
  <2>1. /\ pc[h] = "run" /\ pc[h] \in Saving /\ c # NoStage /\ m.stages[c] = "NOT_STARTED"
        /\ save_state(h, start_stage(m, c), "execute", "idle")
    BY <1>5 DEF run_start_stage, Saving
  <2>2. start_stage(m, c) \in CatalogIntelligenceWorkflow
    BY <2>1, SaverView, StartShape DEF Saving
  <2>3. Transition(h, start_stage(m, c))
    BY <2>1 DEF Transition
  <2> QED
    BY <1>1, <1>2, <2>1, <2>2, <2>3
<1>6. CASE run_apply_outcome(h)
  <2> DEFINE o == pending[h]
             new == apply_outcome(m, c, o)
             next == IF o.status = "WAITING" THEN "idle" ELSE "run"
  <2>1. pc[h] = "apply" /\ pc[h] \in Saving /\ save_state(h, new, next, "fail")
    BY <1>6 DEF run_apply_outcome, Saving, Executing
  <2>2. /\ c # NoStage /\ m.stages[c] = "RUNNING"
        /\ o.status = "WAITING" => c = HUMAN_REVIEW
        /\ o \in CatalogWorkflowStageOutcome
    BY <1>1, <2>1 DEF HandlerView, TypeOK, Executing
  <2>3. /\ new \in CatalogIntelligenceWorkflow
        /\ new.status = IF o.status = "WAITING" THEN "WAITING_FOR_REVIEW" ELSE "RUNNING"
    BY <2>1, <2>2, SaverView, ApplyShape DEF Saving
  <2>4. Transition(h, new)
    BY <2>1 DEF Transition
  <2>5. next \in {"idle", "run", "execute"} /\ (next = "idle" => o.status = "WAITING")
    OBVIOUS
  <2> HIDE DEF new, next
  <2>6. next = "idle" => ~Active(new)
    BY <2>3, <2>5 DEF Active
  <2> QED
    BY <1>1, <1>2, <2>1, <2>3, <2>4, <2>5, <2>6
<1>7. CASE run_fail_stage(h)
  <2> DEFINE terminal == c \notin OPTIONAL_STAGES \/ m.strict
             new == fail_stage(m, c, terminal)
             next == IF terminal THEN "idle" ELSE "run"
  <2>1. pc[h] = "fail" /\ pc[h] \in Saving /\ save_state(h, new, next, "idle")
    BY <1>7 DEF run_fail_stage, Saving, Executing
  <2>2. mem[h] \in CatalogIntelligenceWorkflow
    BY <2>1, SaverView DEF Saving
  <2>3. /\ c # NoStage /\ m.stages[c] = "RUNNING"
        /\ terminal \in BOOLEAN /\ (~terminal => c \in OPTIONAL_STAGES)
    BY <1>1, <2>1, <2>2 DEF HandlerView, CatalogIntelligenceWorkflow, Executing
  <2>4. Transition(h, new)
    BY <2>1 DEF Transition
  <2> HIDE DEF terminal
  <2>5. /\ new \in CatalogIntelligenceWorkflow
        /\ new.status = IF terminal THEN "FAILED" ELSE "RUNNING"
    BY <2>1, <2>3, SaverView, FailShape DEF Saving
  <2>6. next \in {"idle", "run", "execute"} /\ (next = "idle" => terminal)
    OBVIOUS
  <2> HIDE DEF new, next
  <2>7. next = "idle" => ~Active(new)
    BY <2>5, <2>6 DEF Active
  <2> QED
    BY <1>1, <1>2, <2>1, <2>4, <2>5, <2>6, <2>7
<1>8. CASE run_finish(h)
  <2>1. pc[h] = "run" /\ pc[h] \in Saving /\ c = NoStage
    BY <1>8 DEF run_finish, Saving
  <2>2. mem[h].status = "RUNNING" /\ WorkflowShape(mem[h])
    BY <2>1, SaverView DEF Saving
  <2>3. may_finish(m)
    BY <2>1, <2>2 DEF WorkflowShape, may_finish
  <2>4. CASE Fault /\ Return(h) /\ UNCHANGED <<workflows, guard, product, sourceIndex, review>>
    BY <1>1, <2>4 DEF Fault, Return, SaveEnd, OnlyMoves, TypeOK
  <2>5. ASSUME NEW warns \in BOOLEAN,
               save_state(h, finish(m, warns \/ \E s \in Stage : m.stages[s] = "FAILED"),
                          "idle", "idle")
        PROVE  \E new \in CatalogIntelligenceWorkflow : Saves(h, new)
    <3> DEFINE warn == warns \/ \E s \in Stage : m.stages[s] = "FAILED"
               new == finish(m, warn)
    <3>1. warn \in BOOLEAN
      OBVIOUS
    <3>2. Transition(h, new)
      BY <2>1, <2>3 DEF Transition
    <3>3. save_state(h, new, "idle", "idle")
      BY <2>5
    <3> HIDE DEF warn
    <3>4. new \in CatalogIntelligenceWorkflow /\ Terminal(new)
      BY <2>1, <2>2, <2>3, <3>1, SaverView, FinishShape DEF Saving
    <3>5. ~Active(new)
      BY <3>4 DEF Active, Terminal, TERMINAL_WORKFLOW_STATUSES
    <3> HIDE DEF new
    <3> QED
      BY <1>1, <1>2, <2>1, <3>2, <3>3, <3>4, <3>5
  <2> QED
    BY <1>8, <2>3, <2>4, <2>5 DEF run_finish
<1> QED
  BY <1>3, <1>4, <1>5, <1>6, <1>7, <1>8 DEF SavingStep

-------------------------------------------------------------------------------
(* What the other steps write.                                             *)

\* The steps of a request that save no workflow, and store none.
QuietStep(h) ==
    \/ \E p \in Products, strict \in BOOLEAN : start(h, p, strict)
    \/ source_snapshot(h)
    \/ \E w \in WorkflowIds : resume(h, w)
    \/ resume_sources(h) \/ resume_product(h) \/ resume_review_completed(h)
    \/ execute_stage(h) \/ human_review(h) \/ create_review(h) \/ confirm_review(h)
    \/ pause_for_review(h) \/ mark_review_required(h)
    \/ publishing_readiness(h) \/ mark_ready_to_publish(h)
    \/ crash(h)

\* The steps of the rest of the system.
OutsideStep ==
    \E p \in Products :
        \/ \E status \in PatchStatuses : edit_product(p, status)
        \/ delete_product(p)
        \/ change_sources(p)
        \/ \E s \in Selections : review_api(p, s)

\* Every step saves, stores, or writes no workflow.
LEMMA StepKinds ==
    ASSUME Next
    PROVE  \/ \E h \in Handlers : SavingStep(h) \/ create_workflow(h) \/ QuietStep(h)
           \/ OutsideStep
BY DEF Next, HandlerStep, SavingStep, QuietStep, OutsideStep

\* A completed session stays completed.
ReviewsKept ==
    \A p \in Products, s \in Selections : review[p][s] = "COMPLETED" => review'[p][s] = "COMPLETED"

\* Opening a session, or completing an open one, undoes no completed one.
LEMMA ReviewWrite ==
    ASSUME TypeOK, NEW p \in Products, NEW s, NEW status \in ReviewStatus,
           review[p][s] # "COMPLETED", review' = [review EXCEPT ![p][s] = status]
    PROVE  ReviewsKept
<1>1. review \in [Products -> [Selections -> ReviewStatus]]
  BY DEF TypeOK
<1>2. ASSUME NEW q \in Products, NEW t \in Selections, review[q][t] = "COMPLETED"
      PROVE  review'[q][t] = "COMPLETED"
  <2>1. q # p \/ t # s
    BY <1>2
  <2> QED
    BY <1>1, <1>2, <2>1
<1> QED
  BY <1>2 DEF ReviewsKept

\* The rest of the system touches no workflow and no request.
LEMMA OutsideEffect ==
    ASSUME TypeOK, OutsideStep
    PROVE  UNCHANGED <<workflows, handlerVars, faults>> /\ ReviewsKept
<1>1. PICK p \in Products :
        \/ \E status \in PatchStatuses : edit_product(p, status)
        \/ delete_product(p)
        \/ change_sources(p)
        \/ \E s \in Selections : review_api(p, s)
  BY DEF OutsideStep
<1>2. ASSUME NEW s \in Selections, review_api(p, s) PROVE ReviewsKept
  BY <1>2, ReviewWrite DEF review_api, ReviewStatus
<1>3. UNCHANGED review => ReviewsKept
  BY DEF ReviewsKept
<1>4. UNCHANGED <<workflows, handlerVars, faults>>
  BY <1>1 DEF edit_product, delete_product, change_sources, review_api
<1>5. CASE \E s \in Selections : review_api(p, s)
  BY <1>2, <1>4, <1>5
<1>6. CASE \/ \E status \in PatchStatuses : edit_product(p, status)
           \/ delete_product(p)
           \/ change_sources(p)
  BY <1>3, <1>4, <1>6 DEF edit_product, delete_product, change_sources
<1> QED
  BY <1>1, <1>5, <1>6

\* What a handler knows stays true while others move.
LEMMA KnowledgeKept ==
    ASSUME IInv, NEW k \in Handlers, HandlerKnows(k), ReviewsKept,
           pc'[k] = pc[k], mem'[k] = mem[k], pending'[k] = pending[k]
    PROVE  HandlerKnows(k)'
<1>1. ASSUME pc[k] \in {"confirm", "resume_save", "apply"}, SessionCompleted(mem[k], review)
      PROVE  SessionCompleted(mem[k], review')
  <2>1. mem[k] \in CatalogIntelligenceWorkflow
    BY <1>1, SaverView DEF Executing, Reviewing
  <2> QED
    BY <1>1, <2>1 DEF SessionCompleted, ReviewsKept, CatalogIntelligenceWorkflow
<1> QED
  BY <1>1 DEF HandlerKnows

\* A step of one request: the others stay as they are.
LEMMA MoverOnly ==
    ASSUME IInv, NEW h \in Handlers, OnlyMoves(h), ReviewsKept,
           \A k \in Handlers : HandlerKnows(k), HandlerKnows(h)'
    PROVE  (\A k \in Handlers : HandlerKnows(k))'
<1>1. ASSUME NEW k \in Handlers, k # h PROVE HandlerKnows(k)'
  BY <1>1, KnowledgeKept DEF OnlyMoves
<1> QED
  BY <1>1

\* Most steps lead where nothing has to be known.
LEMMA NothingToKnow ==
    ASSUME NEW h \in Handlers,
           pc'[h] \notin {"snapshot", "create", "confirm", "resume_save", "ready", "apply"}
    PROVE  HandlerKnows(h)'
BY DEF HandlerKnows

\* A stage that is to be applied, or an error.
LEMMA ReportKnows ==
    ASSUME TypeOK, NEW h \in Handlers, NEW outcome,
           Report(h, outcome) \/ Goto(h, "fail"), UNCHANGED review,
           mem[h].current_stage # ATTRIBUTE_SELECTION => outcome.selection_id = NoSelection,
           mem[h].current_stage = HUMAN_REVIEW /\ outcome.status # "WAITING" =>
               SessionCompleted(mem[h], review)
    PROVE  HandlerKnows(h)' /\ OnlyMoves(h)
<1>1. CASE Report(h, outcome)
  <2>1. OnlyMoves(h) /\ pc'[h] = "apply" /\ pending'[h] = outcome /\ UNCHANGED <<mem, review>>
    BY <1>1 DEF Report, OnlyMoves, TypeOK
  <2> QED
    BY <2>1 DEF HandlerKnows
<1>2. CASE Goto(h, "fail")
  <2>1. OnlyMoves(h) /\ pc'[h] = "fail"
    BY <1>2 DEF Goto, OnlyMoves, TypeOK
  <2> QED
    BY <2>1, NothingToKnow
<1> QED
  BY <1>1, <1>2

\* A request that attends to a workflow goes on doing so, and what fails is
\* the driver's.
StaysAttending(h) ==
    /\ Attends(h) => Attends(h)' /\ target'[h] = target[h]
    /\ pc'[h] = "fail" => Driving(h) /\ target'[h] = target[h] /\ mem'[h] = mem[h]

QuietEffect(h) ==
    /\ UNCHANGED workflows
    /\ OnlyMoves(h)
    /\ ReviewsKept
    /\ HandlerKnows(h)'
    /\ faults' = faults \/ faults' = faults + 1
    /\ faults' = faults => StaysAttending(h)

\* start and resume: nobody attends before and after.
LEMMA IdleSteps ==
    ASSUME IInv, NEW h \in Handlers, HandlerKnows(h),
           \/ \E p \in Products, strict \in BOOLEAN : start(h, p, strict)
           \/ source_snapshot(h)
           \/ \E w \in WorkflowIds : resume(h, w)
           \/ resume_sources(h) \/ resume_product(h) \/ resume_review_completed(h)
    PROVE  QuietEffect(h)
<1>1. TypeOK
  BY DEF IInv
<1>2. UNCHANGED review => ReviewsKept
  BY DEF ReviewsKept
<1>3. CASE \E p \in Products, strict \in BOOLEAN : start(h, p, strict)
  <2>1. PICK p \in Products, strict \in BOOLEAN : start(h, p, strict)
    BY <1>3
  <2> DEFINE new == create(p, product[p].version, strict, {})
  <2>2. new.progress = 0 /\ new.status = "PENDING"
    BY DEF create
  <2>3. pc' = [pc EXCEPT ![h] = "snapshot"] /\ mem' = [mem EXCEPT ![h] = new]
    BY <2>1 DEF start
  <2> HIDE DEF new
  <2>4. /\ pc[h] = "idle" /\ pc'[h] = "snapshot" /\ mem'[h] = new
        /\ OnlyMoves(h) /\ UNCHANGED <<workflows, review, faults>>
    BY <1>1, <2>1, <2>3 DEF start, OnlyMoves, TypeOK
  <2> QED
    BY <1>2, <2>2, <2>4
       DEF QuietEffect, HandlerKnows, StaysAttending, Attends, Driving
<1>4. CASE source_snapshot(h)
  <2>1. pc[h] = "snapshot" /\ UNCHANGED <<workflows, review, faults>>
    BY <1>4 DEF source_snapshot
  <2>2. CASE Return(h)
    <3>1. pc'[h] = "idle" /\ OnlyMoves(h)
      BY <1>1, <2>2 DEF Return, OnlyMoves, TypeOK
    <3> QED
      BY <1>2, <2>1, <3>1, NothingToKnow DEF QuietEffect, StaysAttending, Attends, Driving
  <2>3. CASE /\ pc' = [pc EXCEPT ![h] = "create"]
             /\ mem' = [mem EXCEPT ![h].snapshot = sourceIndex[mem[h].product]]
             /\ UNCHANGED <<target, pending>>
    <3>1. mem[h] \in CatalogIntelligenceWorkflow
      BY <1>1, <2>1 DEF IInv, HandlerView, TypeOK
    <3> DEFINE new == [mem[h] EXCEPT !.snapshot = sourceIndex[mem[h].product]]
    <3>2. new.progress = mem[h].progress /\ new.status = mem[h].status
      BY <3>1 DEF CatalogIntelligenceWorkflow
    <3>3. mem' = [mem EXCEPT ![h] = new]
      BY <2>3
    <3> HIDE DEF new
    <3>4. pc'[h] = "create" /\ mem'[h] = new /\ OnlyMoves(h)
      BY <1>1, <2>3, <3>3 DEF OnlyMoves, TypeOK
    <3>5. HandlerKnows(h)'
      BY <2>1, <3>2, <3>4 DEF HandlerKnows
    <3> QED
      BY <1>2, <2>1, <3>4, <3>5 DEF QuietEffect, StaysAttending, Attends, Driving
  <2> QED
    BY <1>4, <2>2, <2>3 DEF source_snapshot
<1>5. CASE \E w \in WorkflowIds : resume(h, w)
  <2>1. /\ pc[h] = "idle" /\ pc'[h] = "resume_sources" /\ OnlyMoves(h)
        /\ UNCHANGED <<workflows, review, faults>>
    BY <1>1, <1>5 DEF resume, OnlyMoves, TypeOK
  <2> QED
    BY <1>2, <2>1, NothingToKnow DEF QuietEffect, StaysAttending, Attends, Driving
<1>6. ASSUME NEW from \in Resuming, NEW to \in Resuming, NEW condition,
             resume_check(h, from, condition, to),
             condition /\ to = "resume_save" => SessionCompleted(mem[h], review)
      PROVE  QuietEffect(h)
  <2>1. /\ pc[h] = from /\ UNCHANGED <<workflows, review, faults>>
        /\ (condition /\ Goto(h, to)) \/ Return(h)
    BY <1>6 DEF resume_check
  <2>2. CASE condition /\ Goto(h, to)
    <3>1. pc'[h] = to /\ mem'[h] = mem[h] /\ OnlyMoves(h)
      BY <1>1, <2>2 DEF Goto, OnlyMoves, TypeOK
    <3>2. HandlerKnows(h)'
      BY <1>6, <2>1, <2>2, <3>1 DEF HandlerKnows, Resuming
    <3> QED
      BY <1>2, <2>1, <3>1, <3>2
         DEF QuietEffect, StaysAttending, Attends, Driving, Resuming
  <2>3. CASE Return(h)
    <3>1. pc'[h] = "idle" /\ OnlyMoves(h)
      BY <1>1, <2>3 DEF Return, OnlyMoves, TypeOK
    <3> QED
      BY <1>2, <2>1, <3>1, NothingToKnow
         DEF QuietEffect, StaysAttending, Attends, Driving, Resuming
  <2> QED
    BY <2>1, <2>2, <2>3
<1>7. /\ "resume_sources" \in Resuming /\ "resume_product" \in Resuming
      /\ "resume_review" \in Resuming /\ "resume_save" \in Resuming
      /\ "resume_product" # "resume_save" /\ "resume_review" # "resume_save"
  BY DEF Resuming
<1>8. CASE resume_sources(h)
  BY <1>6, <1>7, <1>8 DEF resume_sources
<1>9. CASE resume_product(h)
  BY <1>6, <1>7, <1>9 DEF resume_product
<1>10. CASE resume_review_completed(h)
  <2>1. review_is_completed(mem[h]) => SessionCompleted(mem[h], review)
    BY DEF review_is_completed, SessionCompleted
  <2> QED
    BY <1>6, <1>7, <1>10, <2>1 DEF resume_review_completed
<1> QED
  BY <1>3, <1>4, <1>5, <1>8, <1>9, <1>10

\* A stage under way reports an outcome or fails.
LEMMA ReportEffect ==
    ASSUME IInv, NEW h \in Handlers, pc[h] \in Executing \ {"fail"}, NEW outcome,
           Report(h, outcome) \/ Goto(h, "fail"),
           UNCHANGED <<workflows, review>>, faults' = faults \/ faults' = faults + 1,
           mem[h].current_stage # ATTRIBUTE_SELECTION => outcome.selection_id = NoSelection,
           mem[h].current_stage = HUMAN_REVIEW /\ outcome.status # "WAITING" =>
               SessionCompleted(mem[h], review)
    PROVE  QuietEffect(h)
<1>1. TypeOK
  BY DEF IInv
<1>2. HandlerKnows(h)' /\ OnlyMoves(h)
  BY <1>1, ReportKnows
<1>3. pc'[h] \in {"apply", "fail"} /\ target'[h] = target[h] /\ mem'[h] = mem[h]
  BY <1>1 DEF Report, Goto, TypeOK
<1>4. Driving(h)
  BY DEF Executing, Reviewing, Driving
<1>5. ReviewsKept
  BY DEF ReviewsKept
<1> QED
  BY <1>2, <1>3, <1>4, <1>5 DEF QuietEffect, StaysAttending, Attends, Driving

\* A stage under way goes on to another of its calls, or fails.
LEMMA StepEffect ==
    ASSUME IInv, NEW h \in Handlers, pc[h] \in Executing \ {"fail"},
           NEW step \in {"fail", "create_review", "pause", "mark", "confirm", "ready"},
           pc' = [pc EXCEPT ![h] = step], UNCHANGED <<workflows, target, mem, faults>>,
           \A k \in Handlers \ {h} : pending'[k] = pending[k],
           ReviewsKept,
           step = "confirm" => SessionCompleted(mem[h], review) /\ UNCHANGED review,
           step = "ready" => mem[h].current_stage = PUBLISHING_READINESS
    PROVE  QuietEffect(h)
<1>1. OnlyMoves(h) /\ pc'[h] = step
  BY DEF IInv, OnlyMoves, TypeOK
<1>2. Driving(h) /\ Attends(h)'
  BY <1>1 DEF Executing, Reviewing, Driving, Attends
<1>3. HandlerKnows(h)'
  BY <1>1 DEF HandlerKnows
<1> QED
  BY <1>1, <1>2, <1>3 DEF QuietEffect, StaysAttending

\* The calls of a stage: what they report of the review, they know.
LEMMA ExecutingEffects ==
    ASSUME IInv, NEW h \in Handlers, HandlerKnows(h),
           \/ execute_stage(h) \/ human_review(h) \/ create_review(h) \/ confirm_review(h)
           \/ pause_for_review(h) \/ mark_review_required(h)
           \/ publishing_readiness(h) \/ mark_ready_to_publish(h)
    PROVE  QuietEffect(h)
<1> DEFINE m == mem[h]
           c == m.current_stage
<1>1. /\ TypeOK /\ HandlerView(h)
      /\ UNCHANGED review => ReviewsKept
      /\ ATTRIBUTE_SELECTION # HUMAN_REVIEW /\ PUBLISHING_READINESS # HUMAN_REVIEW
  BY PipelineAssumption, OrchestratorAssumption DEF IInv, ReviewsKept, Stage
<1>2. /\ pc[h] \in {"execute", "create_review", "confirm", "pause", "mark", "ready"}
      /\ pc[h] \in Executing \ {"fail"}
  BY DEF execute_stage, human_review, create_review, confirm_review, pause_for_review,
         mark_review_required, publishing_readiness, mark_ready_to_publish, Executing, Reviewing
<1>3. pc[h] \in Reviewing => c = HUMAN_REVIEW
  BY <1>1 DEF HandlerView
<1>4. /\ m \in CatalogIntelligenceWorkflow
      /\ m.product \in Products /\ m.selection_id \in Selections \cup {NoSelection}
  BY <1>2, SaverView DEF CatalogIntelligenceWorkflow
<1>5. ASSUME NEW step \in {"fail", "create_review", "pause", "mark", "confirm", "ready"},
             Goto(h, step), UNCHANGED <<workflows, faults>>, ReviewsKept,
             step = "confirm" => SessionCompleted(m, review) /\ UNCHANGED review,
             step = "ready" => c = PUBLISHING_READINESS
      PROVE  QuietEffect(h)
  BY <1>2, <1>5, StepEffect DEF Goto
<1>6. CASE execute_stage(h)
  <2>1. c # HUMAN_REVIEW /\ UNCHANGED <<workflows, review, faults>>
    BY <1>6 DEF execute_stage
  <2>2. ASSUME NEW sel, NEW status, Report(h, Outcome(status, sel, 0)),
               c # ATTRIBUTE_SELECTION => sel = NoSelection
        PROVE  QuietEffect(h)
    <3>1. Outcome(status, sel, 0).selection_id = sel
      BY DEF Outcome
    <3> QED
      BY <1>2, <2>1, <2>2, <3>1, ReportEffect
  <2>3. CASE \E sel \in IF c = ATTRIBUTE_SELECTION THEN Selections ELSE {NoSelection} :
                Report(h, Outcome("COMPLETED", sel, 0))
    <3>1. PICK sel \in IF c = ATTRIBUTE_SELECTION THEN Selections ELSE {NoSelection} :
                Report(h, Outcome("COMPLETED", sel, 0))
      BY <2>3
    <3>2. c # ATTRIBUTE_SELECTION => sel = NoSelection
      BY <3>1
    <3> QED
      BY <2>2, <3>1, <3>2
  <2>4. CASE Report(h, Outcome("SKIPPED", NoSelection, 0))
    BY <2>2, <2>4
  <2>5. CASE Goto(h, "fail")
    BY <1>1, <1>5, <2>1, <2>5
  <2> QED
    BY <1>6, <2>3, <2>4, <2>5 DEF execute_stage
<1>7. CASE human_review(h)
  <2>1. UNCHANGED <<workflows, review, faults>>
    BY <1>7 DEF human_review
  <2> DEFINE step == IF m.selection_id = NoSelection THEN "fail"
                     ELSE CASE review[m.product][m.selection_id] = "NONE" -> "create_review"
                            [] review[m.product][m.selection_id] = "OPEN" -> "pause"
                            [] OTHER -> "confirm"
  <2>2. Goto(h, step)
    BY <1>7 DEF human_review
  <2>3. step \in {"fail", "create_review", "pause", "confirm"}
    OBVIOUS
  <2>4. step = "confirm" => SessionCompleted(m, review)
    <3>1. SUFFICES ASSUME step = "confirm" PROVE SessionCompleted(m, review)
      OBVIOUS
    <3>2. m.selection_id \in Selections /\ m.selection_id # NoSelection
      BY <1>4, <3>1
    <3>3. review[m.product][m.selection_id] \in ReviewStatus
      BY <1>1, <1>4, <3>2 DEF TypeOK
    <3>4. review[m.product][m.selection_id] \notin {"NONE", "OPEN"}
      BY <3>1, <3>2
    <3> QED
      BY <3>2, <3>3, <3>4 DEF SessionCompleted, ReviewStatus
  <2> HIDE DEF step
  <2>5. step # "ready"
    BY <2>3
  <2> QED
    BY <1>1, <1>5, <2>1, <2>2, <2>3, <2>4, <2>5
<1>8. CASE create_review(h)
  <2>1. UNCHANGED <<workflows, faults>>
    BY <1>8 DEF create_review
  <2>2. CASE Goto(h, "fail") /\ UNCHANGED review
    BY <1>1, <1>5, <2>1, <2>2
  <2>3. CASE /\ review[m.product][m.selection_id] = "NONE"
             /\ review' = [review EXCEPT ![m.product][m.selection_id] = "OPEN"]
             /\ Goto(h, "pause")
    <3>1. ReviewsKept
      BY <1>1, <1>4, <2>3, ReviewWrite DEF ReviewStatus
    <3> QED
      BY <1>5, <2>1, <2>3, <3>1
  <2> QED
    BY <1>8, <2>2, <2>3 DEF create_review
<1>9. CASE confirm_review(h)
  <2>1. pc[h] = "confirm" /\ UNCHANGED <<workflows, review, faults>>
    BY <1>9 DEF confirm_review
  <2>2. SessionCompleted(m, review)
    BY <2>1 DEF HandlerKnows
  <2> DEFINE outcome == Outcome("COMPLETED", NoSelection, product[m.product].version)
  <2>3. outcome.selection_id = NoSelection
    BY DEF Outcome
  <2>4. Report(h, outcome) \/ Goto(h, "fail")
    BY <1>9 DEF confirm_review
  <2> HIDE DEF outcome
  <2> QED
    BY <1>2, <2>1, <2>2, <2>3, <2>4, ReportEffect
<1>10. CASE pause_for_review(h)
  <2> DEFINE seen == Outcome("WAITING", NoSelection, product[m.product].version)
  <2>1. UNCHANGED <<workflows, review, faults>>
    BY <1>10 DEF pause_for_review
  <2>2. seen.selection_id = NoSelection /\ seen.status = "WAITING"
    BY DEF Outcome
  <2>3. \/ Goto(h, "fail")
        \/ Report(h, seen)
        \/ /\ pc' = [pc EXCEPT ![h] = "mark"]
           /\ pending' = [pending EXCEPT ![h] = seen]
           /\ UNCHANGED <<target, mem>>
    BY <1>10 DEF pause_for_review
  <2> HIDE DEF seen
  <2>4. CASE Goto(h, "fail") \/ Report(h, seen)
    BY <1>2, <2>1, <2>2, <2>4, ReportEffect
  <2>5. CASE /\ pc' = [pc EXCEPT ![h] = "mark"]
             /\ pending' = [pending EXCEPT ![h] = seen]
             /\ UNCHANGED <<target, mem>>
    <3>1. \A k \in Handlers \ {h} : pending'[k] = pending[k]
      BY <1>1, <2>5 DEF TypeOK
    <3> QED
      BY <1>1, <1>2, <2>1, <2>5, <3>1, StepEffect
  <2> QED
    BY <2>3, <2>4, <2>5
<1>11. ASSUME NEW p, NEW seen, NEW status, NEW outcome,
              UpdateProduct(h, p, seen, status, outcome),
              outcome.selection_id = NoSelection,
              c = HUMAN_REVIEW => outcome.status = "WAITING"
       PROVE  QuietEffect(h)
  <2>1. /\ Report(h, outcome) \/ Goto(h, "fail")
        /\ UNCHANGED <<workflows, review>>
        /\ faults' = faults \/ faults' = faults + 1
    BY <1>11 DEF UpdateProduct, Fault
  <2> QED
    BY <1>2, <1>11, <2>1, ReportEffect
<1>12. CASE mark_review_required(h)
  <2> DEFINE seen == pending[h].product_version
             outcome == Outcome("WAITING", NoSelection, seen + 1)
  <2>1. UpdateProduct(h, m.product, seen, "REVIEW_REQUIRED", outcome)
    BY <1>12 DEF mark_review_required
  <2>2. outcome.selection_id = NoSelection /\ outcome.status = "WAITING"
    BY DEF Outcome
  <2> HIDE DEF outcome
  <2> QED
    BY <1>11, <2>1, <2>2
<1>13. CASE publishing_readiness(h)
  <2>1. c = PUBLISHING_READINESS /\ UNCHANGED <<workflows, review, faults>>
    BY <1>13 DEF publishing_readiness
  <2>2. CASE Report(h, Outcome("SKIPPED", NoSelection, 0)) \/ Goto(h, "fail")
    <3> DEFINE outcome == Outcome("SKIPPED", NoSelection, 0)
    <3>1. outcome.selection_id = NoSelection
      BY DEF Outcome
    <3> HIDE DEF outcome
    <3> QED
      BY <1>1, <1>2, <2>1, <2>2, <3>1, ReportEffect DEF outcome
  <2>3. CASE /\ pc' = [pc EXCEPT ![h] = "ready"]
             /\ pending' = [pending EXCEPT ![h].product_version = product[m.product].version]
             /\ UNCHANGED <<target, mem>>
    <3>1. \A k \in Handlers \ {h} : pending'[k] = pending[k]
      BY <1>1, <2>3 DEF TypeOK
    <3> QED
      BY <1>1, <1>2, <2>1, <2>3, <3>1, StepEffect
  <2> QED
    BY <1>13, <2>2, <2>3 DEF publishing_readiness
<1>14. CASE mark_ready_to_publish(h)
  <2>1. /\ pc[h] = "ready"
        /\ UpdateProduct(h, m.product, pending[h].product_version, "READY_TO_PUBLISH", NoOutcome)
    BY <1>14 DEF mark_ready_to_publish
  <2>2. c = PUBLISHING_READINESS
    BY <2>1 DEF HandlerKnows
  <2>3. NoOutcome.selection_id = NoSelection
    BY DEF NoOutcome
  <2> QED
    BY <1>1, <1>11, <2>1, <2>2, <2>3
<1> QED
  BY <1>6, <1>7, <1>8, <1>9, <1>10, <1>12, <1>13, <1>14

\* No step but a save or create_workflow writes a workflow.
LEMMA QuietSteps ==
    ASSUME IInv, NEW h \in Handlers, HandlerKnows(h), QuietStep(h)
    PROVE  QuietEffect(h)
<1>1. CASE crash(h)
  <2>1. /\ pc'[h] = "idle" /\ OnlyMoves(h) /\ UNCHANGED <<workflows, review>>
        /\ faults' = faults + 1 /\ faults \in Nat
    BY <1>1 DEF crash, Fault, Return, OnlyMoves, IInv, TypeOK
  <2>2. ReviewsKept
    BY <2>1 DEF ReviewsKept
  <2> QED
    BY <2>1, <2>2, NothingToKnow DEF QuietEffect
<1> QED
  BY <1>1, IdleSteps, ExecutingEffects DEF QuietStep

-------------------------------------------------------------------------------
(* Every step keeps HistoryInv.                                            *)

\* What create_workflow does.
CreateEffect(h) ==
    /\ pc[h] = "create"
    /\ OnlyMoves(h)
    /\ pc'[h] \in {"begin", "idle"}
    /\ UNCHANGED review
    /\ faults' = faults \/ faults' = faults + 1
    /\ \/ UNCHANGED workflows
       \/ \E w \in WorkflowIds :
            /\ workflows[w] = None
            /\ workflows' = [workflows EXCEPT ![w] = mem[h]]
            /\ faults' = faults => pc'[h] = "begin" /\ target'[h] = w
    /\ faults' = faults => (pc'[h] = "idle" => UNCHANGED workflows)

\* create_workflow stores what the request has, or nothing.
LEMMA CreateForms ==
    ASSUME TypeOK, NEW h \in Handlers, create_workflow(h)
    PROVE  CreateEffect(h)
<1>1. Fault => faults' = faults + 1 /\ faults' # faults
  BY DEF Fault, TypeOK
<1>2. Return(h) => pc'[h] = "idle" /\ OnlyMoves(h)
  BY DEF Return, OnlyMoves, TypeOK
<1>3. PICK w \in WorkflowIds :
        /\ workflows[w] = None
        /\ \/ /\ workflows' = [workflows EXCEPT ![w] = mem[h]]
              /\ pc' = [pc EXCEPT ![h] = "begin"]
              /\ target' = [target EXCEPT ![h] = w]
              /\ UNCHANGED <<mem, pending, faults>>
           \/ Return(h) /\ UNCHANGED <<workflows, faults>>
           \/ /\ Fault /\ Return(h)
              /\ UNCHANGED workflows \/ workflows' = [workflows EXCEPT ![w] = mem[h]]
  BY DEF create_workflow
<1>4. pc[h] = "create" /\ UNCHANGED review
  BY DEF create_workflow
<1>5. CASE /\ workflows' = [workflows EXCEPT ![w] = mem[h]]
           /\ pc' = [pc EXCEPT ![h] = "begin"]
           /\ target' = [target EXCEPT ![h] = w]
           /\ UNCHANGED <<mem, pending, faults>>
  <2>1. OnlyMoves(h) /\ pc'[h] = "begin" /\ target'[h] = w
    BY <1>5 DEF OnlyMoves, TypeOK
  <2> QED
    BY <1>3, <1>4, <1>5, <2>1 DEF CreateEffect
<1>6. CASE Return(h) /\ UNCHANGED <<workflows, faults>>
  BY <1>2, <1>4, <1>6 DEF CreateEffect
<1>7. CASE /\ Fault /\ Return(h)
           /\ UNCHANGED workflows \/ workflows' = [workflows EXCEPT ![w] = mem[h]]
  BY <1>1, <1>2, <1>3, <1>4, <1>7 DEF CreateEffect
<1> QED
  BY <1>3, <1>5, <1>6, <1>7

\* Every step, by its effect on the workflows and on who attends to them.
LEMMA StepForms ==
    ASSUME IInv, \A k \in Handlers : HandlerKnows(k), Next
    PROVE  \/ UNCHANGED <<workflows, handlerVars, faults>> /\ ReviewsKept
           \/ \E h \in Handlers :
                \/ QuietEffect(h)
                \/ CreateEffect(h)
                \/ \E new \in CatalogIntelligenceWorkflow : Saves(h, new)
                \/ UNCHANGED workflows /\ SaveEnd(h) /\ faults' = faults + 1
<1>1. TypeOK
  BY DEF IInv
<1>2. CASE OutsideStep
  BY <1>1, <1>2, OutsideEffect
<1>3. ASSUME NEW h \in Handlers, SavingStep(h) \/ create_workflow(h) \/ QuietStep(h)
      PROVE  \/ QuietEffect(h)
             \/ CreateEffect(h)
             \/ \E new \in CatalogIntelligenceWorkflow : Saves(h, new)
             \/ UNCHANGED workflows /\ SaveEnd(h) /\ faults' = faults + 1
  BY <1>1, <1>3, SavingForms, CreateForms, QuietSteps
<1> QED
  BY <1>2, <1>3, StepKinds

\* A successful saver has the stored workflow, and saves one that keeps its
\* history.
LEMMA SaverKeeps ==
    ASSUME IInv, HistoryInv, NEW h \in Handlers, NEW new, pc[h] \in Saving,
           Transition(h, new), CanSave(h, new)
    PROVE  /\ target[h] \in WorkflowIds /\ Stored(target[h])
           /\ workflows[target[h]] = mem[h] /\ ~Terminal(mem[h])
           /\ new \in CatalogIntelligenceWorkflow /\ Kept(mem[h], new)
<1>1. /\ target[h] \in WorkflowIds /\ Stored(target[h]) /\ ~Terminal(mem[h])
      /\ mem[h].version = workflows[target[h]].version => mem[h] = workflows[target[h]]
  BY SaverView DEF Saving
<1>2. workflows[target[h]] = mem[h]
  BY <1>1 DEF CanSave
<1>3. Verdict(mem[h]) /\ ProgressOK(mem[h]) /\ Passed(mem[h], review) /\ HandlerKnows(h)
  BY <1>1, <1>2 DEF HistoryInv, StoredOK
<1> QED
  BY <1>1, <1>2, <1>3, TransitionKept

\* No stage is done, no progress.
LEMMA ProgressZero ==
    ASSUME NEW stages, \A s \in Stage : stages[s] = "NOT_STARTED"
    PROVE  progress(stages) = 0
<1>1. {s \in Stage : stages[s] \in {"COMPLETED", "SKIPPED"}} = {}
  OBVIOUS
<1>2. Cardinality({}) = 0
  BY FS_EmptySet
<1>3. \A n \in Nat \ {0} : (0 * 100) \div n = 0
  OBVIOUS
<1> QED
  BY <1>1, <1>2, <1>3, PipelineAssumption DEF progress

\* Reviews are never undone, so who passed the review stays past it.
LEMMA PassedKept ==
    ASSUME ReviewsKept, NEW m \in CatalogIntelligenceWorkflow, Passed(m, review)
    PROVE  Passed(m, review')
<1>1. SessionCompleted(m, review) => SessionCompleted(m, review')
  BY DEF SessionCompleted, ReviewsKept, CatalogIntelligenceWorkflow
<1> QED
  BY <1>1 DEF Passed

\* Every step keeps what is known of the stored workflows and of the requests.
LEMMA NextHistory ==
    ASSUME IInv, HistoryInv, [Next]_vars
    PROVE  HistoryInv'
<1>1. TypeOK /\ StoredOK /\ \A k \in Handlers : HandlerKnows(k)
  BY DEF IInv, HistoryInv
<1>2. UNCHANGED review => ReviewsKept
  BY DEF ReviewsKept
<1>3. ASSUME NEW x \in WorkflowIds, Stored(x)', workflows'[x] = workflows[x], ReviewsKept
      PROVE  (Verdict(workflows[x]) /\ ProgressOK(workflows[x]) /\ Passed(workflows[x], review))'
  <2>1. /\ Stored(x) /\ workflows[x] \in CatalogIntelligenceWorkflow
        /\ Verdict(workflows[x]) /\ ProgressOK(workflows[x]) /\ Passed(workflows[x], review)
    BY <1>1, <1>3 DEF Stored, StoredOK, TypeOK
  <2>2. Passed(workflows[x], review')
    BY <1>3, <2>1, PassedKept
  <2>3. Verdict(workflows'[x]) /\ ProgressOK(workflows'[x]) /\ Passed(workflows'[x], review')
    BY <1>3, <2>1, <2>2
  <2> QED
    BY <2>3 DEF Verdict, ProgressOK, may_finish, progress
<1>4. ASSUME UNCHANGED workflows, ReviewsKept PROVE StoredOK'
  BY <1>3, <1>4 DEF StoredOK
<1>5. ASSUME NEW w \in WorkflowIds, NEW new \in CatalogIntelligenceWorkflow,
             workflows' = [workflows EXCEPT ![w] = new], UNCHANGED review,
             Verdict(new), ProgressOK(new), Passed(new, review)
      PROVE  StoredOK'
  <2> SUFFICES ASSUME NEW x \in WorkflowIds, Stored(x)'
               PROVE  (Verdict(workflows[x]) /\ ProgressOK(workflows[x])
                       /\ Passed(workflows[x], review))'
    BY DEF StoredOK
  <2>1. CASE x = w
    <3>1. workflows'[x] = new
      BY <1>1, <1>5, <2>1 DEF TypeOK
    <3>2. Verdict(workflows'[x]) /\ ProgressOK(workflows'[x]) /\ Passed(workflows'[x], review')
      BY <1>5, <3>1
    <3> QED
      BY <3>2 DEF Verdict, ProgressOK, may_finish, progress
  <2>2. CASE x # w
    <3>1. workflows'[x] = workflows[x]
      BY <1>1, <1>5, <2>2 DEF TypeOK
    <3> QED
      BY <1>2, <1>3, <1>5, <3>1
  <2> QED
    BY <2>1, <2>2
<1>6. ASSUME UNCHANGED handlerVars, ReviewsKept PROVE \A k \in Handlers : HandlerKnows(k)'
  BY <1>1, <1>6, KnowledgeKept DEF handlerVars
<1>7. ASSUME NEW h \in Handlers, OnlyMoves(h), ReviewsKept, HandlerKnows(h)'
      PROVE  \A k \in Handlers : HandlerKnows(k)'
  BY <1>1, <1>7, MoverOnly
<1>8. ASSUME NEW h \in Handlers, SaveEnd(h) PROVE ReviewsKept /\ \A k \in Handlers : HandlerKnows(k)'
  <2>1. ReviewsKept /\ OnlyMoves(h) /\ HandlerKnows(h)'
    BY <1>2, <1>8, NothingToKnow DEF SaveEnd
  <2> QED
    BY <1>7, <2>1
<1>9. CASE UNCHANGED vars
  BY <1>2, <1>4, <1>6, <1>9 DEF vars, HistoryInv
<1>10. CASE UNCHANGED <<workflows, handlerVars, faults>> /\ ReviewsKept
  BY <1>4, <1>6, <1>10 DEF HistoryInv
<1>11. ASSUME NEW h \in Handlers, QuietEffect(h) PROVE HistoryInv'
  BY <1>4, <1>7, <1>11 DEF QuietEffect, HistoryInv
<1>12. ASSUME NEW h \in Handlers, UNCHANGED workflows, SaveEnd(h) PROVE HistoryInv'
  BY <1>4, <1>8, <1>12 DEF HistoryInv
<1>13. ASSUME NEW h \in Handlers, NEW new \in CatalogIntelligenceWorkflow, Saves(h, new)
       PROVE  HistoryInv'
  <2>1. pc[h] \in Saving /\ Transition(h, new) /\ SaveEffect(h, new) /\ SaveEnd(h) /\ UNCHANGED review
    BY <1>13 DEF Saves, SaveEnd
  <2>2. CASE UNCHANGED workflows
    BY <1>12, <2>1, <2>2
  <2>3. CASE CanSave(h, new) /\ workflows' = [workflows EXCEPT ![target[h]] = new]
    <3>1. /\ target[h] \in WorkflowIds
          /\ Verdict(new) /\ ProgressOK(new) /\ Passed(new, review)
      BY <2>1, <2>3, SaverKeeps DEF Kept
    <3>2. StoredOK'
      BY <1>5, <2>1, <2>3, <3>1
    <3> QED
      BY <1>8, <2>1, <3>2 DEF HistoryInv
  <2> QED
    BY <2>1, <2>2, <2>3 DEF SaveEffect
<1>14. ASSUME NEW h \in Handlers, CreateEffect(h) PROVE HistoryInv'
  <2>1. /\ pc[h] = "create" /\ OnlyMoves(h) /\ UNCHANGED review /\ ReviewsKept
        /\ pc'[h] \in {"begin", "idle"}
    BY <1>2, <1>14 DEF CreateEffect
  <2>2. \A k \in Handlers : HandlerKnows(k)'
    BY <1>7, <2>1, NothingToKnow
  <2>3. CASE UNCHANGED workflows
    BY <1>4, <2>1, <2>2, <2>3 DEF HistoryInv
  <2>4. ASSUME NEW w \in WorkflowIds, workflows' = [workflows EXCEPT ![w] = mem[h]]
        PROVE  HistoryInv'
    <3> DEFINE new == mem[h]
    <3>1. /\ new \in CatalogIntelligenceWorkflow /\ new.status = "PENDING" /\ new.progress = 0
          /\ \A s \in Stage : new.stages[s] = "NOT_STARTED"
      BY <1>1, <2>1 DEF IInv, HandlerView, HandlerKnows, TypeOK, WorkflowShape
    <3>2. workflows' = [workflows EXCEPT ![w] = new]
      BY <2>4
    <3> HIDE DEF new
    <3>3. Verdict(new)
      BY <3>1 DEF Verdict
    <3>4. ProgressOK(new)
      BY <3>1, ProgressZero DEF ProgressOK
    <3>5. Passed(new, review)
      <4>1. HUMAN_REVIEW .. StageCount \subseteq Stage /\ "NOT_STARTED" \notin Done
        BY PipelineAssumption DEF Stage, Done
      <4> QED
        BY <3>1, <4>1 DEF Passed
    <3>6. StoredOK'
      BY <1>5, <2>1, <3>1, <3>2, <3>3, <3>4, <3>5
    <3> QED
      BY <2>2, <3>6 DEF HistoryInv
  <2> QED
    BY <1>14, <2>3, <2>4 DEF CreateEffect
<1>15. CASE Next
  BY <1>1, <1>10, <1>11, <1>12, <1>13, <1>14, <1>15, StepForms
<1> QED
  BY <1>9, <1>15

-------------------------------------------------------------------------------
(* Without faults every active workflow is attended to.                    *)

\* A handler whose copy is up to date is never refused its save.
LEMMA UpToDateSaves ==
    ASSUME IInv, HistoryInv, NEW h \in Handlers, pc[h] \in Saving, NEW new,
           Transition(h, new), mem[h] = workflows[target[h]]
    PROVE  CanSave(h, new)
<1>1. target[h] \in WorkflowIds /\ Stored(target[h]) /\ ~Terminal(mem[h])
  BY SaverView DEF Saving
<1>2. Verdict(mem[h]) /\ ProgressOK(mem[h]) /\ Passed(mem[h], review) /\ HandlerKnows(h)
  BY <1>1 DEF HistoryInv, StoredOK
<1>3. new.product = mem[h].product
  BY <1>2, TransitionKept DEF Kept
<1>4. guard[mem[h].product] = target[h]
  BY <1>1 DEF IInv, GuardIsTheActiveWorkflow
<1> QED
  BY <1>1, <1>3, <1>4 DEF CanSave, Stored

\* Every step that is no fault leaves somebody with each active workflow.
LEMMA NextFaultFree ==
    ASSUME IInv, HistoryInv, FaultFree, [Next]_vars
    PROVE  FaultFree'
<1>1. SUFFICES ASSUME faults' = 0
               PROVE  /\ Attended'
                      /\ \A k \in Handlers : pc'[k] = "fail" => mem'[k] = workflows'[target'[k]]
  BY DEF FaultFree
<1>2. /\ TypeOK /\ faults \in Nat /\ OneOwner
      /\ \A k \in Handlers : HandlerView(k) /\ HandlerKnows(k)
  BY DEF IInv, TypeOK, HistoryInv
<1>3. ASSUME faults' = faults
      PROVE  Attended /\ \A k \in Handlers : pc[k] = "fail" => mem[k] = workflows[target[k]]
  BY <1>1, <1>3 DEF FaultFree
<1>4. faults' # faults + 1
  BY <1>1, <1>2
<1>5. ASSUME NEW h \in Handlers, OnlyMoves(h), NEW k \in Handlers, k # h
      PROVE  /\ pc'[k] = pc[k] /\ target'[k] = target[k] /\ mem'[k] = mem[k]
             /\ Attends(k) => Attends(k)'
  BY <1>5 DEF OnlyMoves, Attends, Driving
<1>6. CASE UNCHANGED vars \/ UNCHANGED <<workflows, handlerVars, faults>>
  BY <1>3, <1>6 DEF vars, handlerVars, Attended, Attends, Driving, Stored, Active
<1>7. ASSUME NEW h \in Handlers, UNCHANGED <<workflows, faults>>, OnlyMoves(h), StaysAttending(h)
      PROVE  /\ Attended'
             /\ \A k \in Handlers : pc'[k] = "fail" => mem'[k] = workflows'[target'[k]]
  <2>1. Attended'
    <3>1. SUFFICES ASSUME NEW x \in WorkflowIds, Stored(x), Active(workflows[x])
                   PROVE  \E k \in Handlers : target'[k] = x /\ Attends(k)'
      BY <1>7 DEF Attended, Stored, Active
    <3>2. PICK k \in Handlers : target[k] = x /\ Attends(k)
      BY <1>3, <1>7, <3>1 DEF Attended
    <3> QED
      BY <1>5, <1>7, <3>2 DEF StaysAttending
  <2>2. ASSUME pc'[h] = "fail" PROVE mem'[h] = workflows'[target'[h]]
    BY <1>2, <1>7, <2>2 DEF StaysAttending, HandlerView
  <2> QED
    BY <1>3, <1>5, <1>7, <2>1, <2>2
<1>8. ASSUME NEW h \in Handlers, QuietEffect(h)
      PROVE  /\ Attended'
             /\ \A k \in Handlers : pc'[k] = "fail" => mem'[k] = workflows'[target'[k]]
  BY <1>4, <1>7, <1>8 DEF QuietEffect
<1>9. ASSUME NEW h \in Handlers, CreateEffect(h)
      PROVE  /\ Attended'
             /\ \A k \in Handlers : pc'[k] = "fail" => mem'[k] = workflows'[target'[k]]
  <2>1. /\ faults' = faults /\ OnlyMoves(h) /\ pc'[h] # "fail" /\ ~Attends(h)
    BY <1>4, <1>9 DEF CreateEffect, Attends, Driving
  <2>2. CASE UNCHANGED workflows
    BY <1>7, <2>1, <2>2 DEF StaysAttending
  <2>3. ASSUME NEW w \in WorkflowIds, workflows[w] = None,
               workflows' = [workflows EXCEPT ![w] = mem[h]],
               pc'[h] = "begin", target'[h] = w
        PROVE  /\ Attended'
               /\ \A k \in Handlers : pc'[k] = "fail" => mem'[k] = workflows'[target'[k]]
    <3>1. Attended'
      <4>1. SUFFICES ASSUME NEW x \in WorkflowIds, workflows'[x] # None, Active(workflows'[x])
                     PROVE  \E k \in Handlers : target'[k] = x /\ Attends(k)'
        BY DEF Attended, Stored, Active
      <4>2. CASE x = w
        BY <2>3, <4>2 DEF Attends, Driving
      <4>3. CASE x # w
        <5>1. workflows[x] # None /\ Active(workflows[x])
          BY <1>2, <2>3, <4>1, <4>3 DEF TypeOK
        <5>2. PICK k \in Handlers : target[k] = x /\ Attends(k)
          BY <1>3, <2>1, <5>1 DEF Attended, Stored
        <5> QED
          BY <1>5, <2>1, <5>2
      <4> QED
        BY <4>2, <4>3
    <3>2. ASSUME NEW k \in Handlers, pc'[k] = "fail" PROVE mem'[k] = workflows'[target'[k]]
      <4>1. k # h /\ pc[k] = "fail" /\ mem[k] = workflows[target[k]]
        BY <1>3, <1>5, <2>1, <3>2
      <4>2. target[k] \in WorkflowIds /\ workflows[target[k]] # None
        BY <4>1, SaverView DEF Executing, Stored
      <4>3. workflows'[target[k]] = workflows[target[k]]
        BY <1>2, <2>3, <4>2 DEF TypeOK
      <4> QED
        BY <1>5, <2>1, <4>1, <4>3
    <3> QED
      BY <3>1, <3>2
  <2> QED
    BY <1>9, <2>1, <2>2, <2>3 DEF CreateEffect
<1>10. ASSUME NEW h \in Handlers, NEW new \in CatalogIntelligenceWorkflow, Saves(h, new)
       PROVE  /\ Attended'
              /\ \A k \in Handlers : pc'[k] = "fail" => mem'[k] = workflows'[target'[k]]
  <2>1. /\ pc[h] \in Saving /\ Transition(h, new) /\ OnlyMoves(h) /\ faults' = faults
    BY <1>4, <1>10 DEF Saves, SaveEnd
  <2>2. PICK next \in {"idle", "run", "execute"}, onError \in {"idle", "fail"} :
          /\ next = "idle" => ~Active(new)
          /\ onError = "fail" => pc[h] = "apply"
          /\ FaultFreeSave(h, new, next, onError)
    BY <1>10, <2>1 DEF Saves
  <2>3. pc[h] # "resume_save" => mem[h] = workflows[target[h]]
    <3>1. pc[h] # "resume_save" => Driving(h) \/ pc[h] = "fail"
      BY <2>1 DEF Saving, Executing, Reviewing, Driving
    <3> QED
      BY <1>2, <1>3, <2>1, <3>1 DEF HandlerView
  <2>4. CASE ~CanSave(h, new) /\ UNCHANGED workflows /\ pc'[h] = onError
    <3>1. pc[h] = "resume_save"
      BY <2>1, <2>3, <2>4, UpToDateSaves
    <3>2. StaysAttending(h)
      BY <2>2, <2>4, <3>1 DEF StaysAttending, Attends, Driving
    <3> QED
      BY <1>7, <2>1, <2>4, <3>2
  <2>5. CASE /\ CanSave(h, new)
             /\ workflows' = [workflows EXCEPT ![target[h]] = new]
             /\ pc'[h] = next /\ (next # "idle" => target'[h] = target[h])
    <3>1. target[h] \in WorkflowIds /\ workflows[target[h]] = mem[h]
      BY <2>1, <2>5, SaverKeeps
    <3>2. Attended'
      <4>1. SUFFICES ASSUME NEW x \in WorkflowIds, workflows'[x] # None, Active(workflows'[x])
                     PROVE  \E k \in Handlers : target'[k] = x /\ Attends(k)'
        BY DEF Attended, Stored, Active
      <4>2. CASE x = target[h]
        <5>1. workflows'[x] = new
          BY <1>2, <2>5, <4>2 DEF TypeOK
        <5>2. next \in {"run", "execute"} /\ target'[h] = x
          BY <2>2, <2>5, <4>1, <4>2, <5>1
        <5> QED
          BY <2>5, <5>2 DEF Attends, Driving
      <4>3. CASE x # target[h]
        <5>1. workflows[x] # None /\ Active(workflows[x])
          BY <1>2, <2>5, <4>1, <4>3 DEF TypeOK
        <5>2. PICK k \in Handlers : target[k] = x /\ Attends(k)
          BY <1>3, <2>1, <5>1 DEF Attended, Stored
        <5> QED
          BY <1>5, <2>1, <4>3, <5>2
      <4> QED
        BY <4>2, <4>3
    <3>3. ASSUME NEW k \in Handlers, pc'[k] = "fail" PROVE mem'[k] = workflows'[target'[k]]
      <4>1. k # h /\ pc[k] = "fail" /\ mem[k] = workflows[target[k]]
        BY <1>3, <1>5, <2>1, <2>2, <2>5, <3>3
      <4>2. target[k] \in WorkflowIds /\ mem[k].status = "RUNNING"
        BY <4>1, SaverView DEF Executing
      <4>3. target[k] # target[h]
        <5>1. SUFFICES ASSUME target[k] = target[h] PROVE FALSE
          OBVIOUS
        <5>2. pc[h] # "resume_save"
          BY <2>1, <3>1, <4>1, <4>2, <5>1, SaverView DEF Saving
        <5>3. Owner(h) /\ Owner(k)
          BY <2>1, <3>1, <4>1, <5>2 DEF Owner, Saving, Executing
        <5> QED
          BY <1>2, <4>1, <5>1, <5>3 DEF OneOwner
      <4>4. workflows'[target[k]] = workflows[target[k]]
        BY <1>2, <2>5, <4>2, <4>3 DEF TypeOK
      <4> QED
        BY <1>5, <2>1, <4>1, <4>4
    <3> QED
      BY <3>2, <3>3
  <2> QED
    BY <2>2, <2>4, <2>5 DEF FaultFreeSave
<1>11. CASE Next
  BY <1>2, <1>4, <1>6, <1>8, <1>9, <1>10, <1>11, StepForms
<1> QED
  BY <1>6, <1>11

-------------------------------------------------------------------------------
(* The theorems.                                                           *)

\* At first nothing is stored and no request is served.
LEMMA InitHistory ==
    ASSUME Init
    PROVE  HistoryInv /\ FaultFree
<1>1. \A h \in Handlers : pc[h] = "idle"
  BY DEF Init
<1>2. \A w \in WorkflowIds : ~Stored(w)
  BY DEF Init, Stored
<1> QED
  BY <1>1, <1>2 DEF HistoryInv, StoredOK, HandlerKnows, FaultFree, Attended

\* Every reachable state has the history the properties rest on: what every
\* stored workflow went through, what the requests know of its review, and,
\* before any fault, that somebody attends to it.
THEOREM HistoryInvariant == Spec => [](HistoryInv /\ FaultFree)
<1>1. Init => HistoryInv /\ FaultFree
  BY InitHistory
<1>2. IInv /\ HistoryInv /\ FaultFree /\ [Next]_vars => (HistoryInv /\ FaultFree)'
  BY NextHistory, NextFaultFree
<1> QED
  BY <1>1, <1>2, InductiveInvariant, PTL DEF Spec

\* The verdict of a workflow follows from its stages, through failed optional
\* stages, strict configurations and failed or ambiguous saves.
THEOREM VerdictsMatchStages == Spec => []VerdictMatchesStages
<1>1. HistoryInv => VerdictMatchesStages
  BY DEF HistoryInv, StoredOK, Verdict, VerdictMatchesStages
<1> QED
  BY <1>1, HistoryInvariant, PTL

\* No workflow gets past HUMAN_REVIEW without the completed review session of
\* its own selection, whoever resumes it and whatever other sessions say.
THEOREM ReviewIsNeverBypassed == Spec => []NoReviewBypass
<1>1. ASSUME IInv, HistoryInv PROVE NoReviewBypass
  <2>1. SUFFICES ASSUME NEW w \in WorkflowIds, Stored(w),
                        NEW s \in HUMAN_REVIEW .. StageCount,
                        workflows[w].stages[s] \in {"COMPLETED", "SKIPPED"}
                 PROVE  Reviewed(w)
    BY DEF NoReviewBypass
  <2>2. SessionCompleted(workflows[w], review)
    BY <1>1, <2>1 DEF HistoryInv, StoredOK, Passed, Done
  <2>3. workflows[w].selection_id \in Selections
    BY <1>1, <2>1, <2>2 DEF IInv, TypeOK, Stored, SessionCompleted, CatalogIntelligenceWorkflow
  <2> QED
    BY <2>2, <2>3 DEF Reviewed, SessionCompleted
<1> QED
  BY <1>1, InductiveInvariant, HistoryInvariant, PTL

\* A workflow is active with nobody attending to it only after a fault: no
\* interleaving of starts, resumes and reviews alone locks a product for ever.
THEOREM OrphansComeFromFaults == Spec => []OrphanedOnlyByFault
<1>1. ASSUME IInv, FaultFree PROVE OrphanedOnlyByFault
  <2>1. faults = 0 \/ faults > 0
    BY <1>1 DEF IInv, TypeOK
  <2> QED
    BY <1>1, <2>1 DEF FaultFree, Attended, Attends, Active, OrphanedOnlyByFault
<1> QED
  BY <1>1, InductiveInvariant, HistoryInvariant, PTL

\* The guard of a product is that of its one active workflow, and only a fault
\* leaves that workflow to nobody.
THEOREM GuardsAreAccountedFor == Spec => []GuardIsAccountedFor
<1>1. GuardIsTheActiveWorkflow /\ OrphanedOnlyByFault => GuardIsAccountedFor
  BY DEF GuardIsAccountedFor
<1> QED
  BY <1>1, OneActiveWorkflow, OrphansComeFromFaults, PTL

\* The stages end in their order, and the verdict is what they say.
THEOREM StagesTellVerdicts == Spec => []StagesTellTheVerdict
<1>1. FixedOrder /\ VerdictMatchesStages => StagesTellTheVerdict
  BY DEF StagesTellTheVerdict
<1> QED
  BY <1>1, StagesInFixedOrder, VerdictsMatchStages, PTL

\* A change of a stored workflow is a transition that one handler saves from
\* an up-to-date copy.
LEMMA StoredChange ==
    ASSUME IInv, HistoryInv, [Next]_vars, NEW w \in WorkflowIds, Stored(w),
           workflows'[w] # workflows[w]
    PROVE  \E h \in Handlers :
             /\ pc[h] \in Saving /\ target[h] = w /\ mem[h] = workflows[w]
             /\ Transition(h, workflows'[w])
             /\ CanSave(h, workflows'[w])
<1>1. TypeOK /\ \A k \in Handlers : HandlerKnows(k)
  BY DEF IInv, HistoryInv
<1>2. Next /\ ~UNCHANGED workflows
  BY DEF vars
<1>3. PICK h \in Handlers :
        \/ CreateEffect(h)
        \/ \E new \in CatalogIntelligenceWorkflow : Saves(h, new)
  BY <1>1, <1>2, StepForms DEF QuietEffect
<1>4. CASE CreateEffect(h)
  <2>1. PICK x \in WorkflowIds : workflows[x] = None /\ workflows' = [workflows EXCEPT ![x] = mem[h]]
    BY <1>2, <1>4 DEF CreateEffect
  <2>2. x # w
    BY <2>1 DEF Stored
  <2> QED
    BY <1>1, <2>1, <2>2 DEF TypeOK
<1>5. ASSUME NEW new \in CatalogIntelligenceWorkflow, Saves(h, new)
      PROVE  /\ pc[h] \in Saving /\ target[h] = w /\ mem[h] = workflows[w]
             /\ Transition(h, workflows'[w])
             /\ CanSave(h, workflows'[w])
  <2>1. /\ pc[h] \in Saving /\ Transition(h, new) /\ CanSave(h, new)
        /\ workflows' = [workflows EXCEPT ![target[h]] = new]
    BY <1>2, <1>5 DEF Saves, SaveEffect
  <2>2. workflows[target[h]] = mem[h]
    BY <2>1, SaverKeeps
  <2>3. target[h] = w
    BY <1>1, <2>1 DEF TypeOK
  <2>4. workflows'[w] = new
    BY <1>1, <2>1, <2>3 DEF TypeOK
  <2> QED
    BY <2>1, <2>2, <2>3, <2>4
<1> QED
  BY <1>3, <1>4, <1>5

\* The history kept in the table only moves forward: one version at a time,
\* never out of a terminal status, never undoing the outcome of a stage nor
\* the progress, although saves may fail, be repeated or be applied behind an
\* error.
THEOREM HistoryIsPersisted == Spec => PersistedHistory
<1>1. ASSUME IInv, HistoryInv, [Next]_vars, NEW w \in WorkflowIds,
             workflows[w] # None, workflows'[w] # workflows[w]
      PROVE  workflows'[w] # None /\ LegalTransition(workflows[w], workflows'[w])
  <2>1. PICK h \in Handlers :
          /\ pc[h] \in Saving /\ target[h] = w /\ mem[h] = workflows[w]
          /\ Transition(h, workflows'[w])
          /\ CanSave(h, workflows'[w])
    BY <1>1, StoredChange DEF Stored
  <2> DEFINE new == workflows'[w]
  <2>2. new \in CatalogIntelligenceWorkflow /\ Kept(mem[h], new) /\ ~Terminal(mem[h])
    BY <1>1, <2>1, SaverKeeps
  <2>3. new # None
    BY <2>2, OrchestratorAssumption
  <2>4. LegalTransition(mem[h], new)
    BY <2>2 DEF Kept, LegalTransition
  <2> QED
    BY <2>1, <2>3, <2>4
<1>2. IInv /\ HistoryInv /\ [Next]_vars =>
        [\A w \in WorkflowIds :
            workflows[w] # None /\ workflows'[w] # workflows[w] =>
                workflows'[w] # None /\ LegalTransition(workflows[w], workflows'[w])]_workflows
  BY <1>1
<1> QED
  BY <1>2, InductiveInvariant, HistoryInvariant, PTL DEF Spec, PersistedHistory

\* A waiting workflow is taken up again only once the session of its own
\* selection is completed, also by a request that checked it long before.
THEOREM ResumedOnlyAfterReview == Spec => ResumedAfterReview
<1>1. ASSUME IInv, HistoryInv, [Next]_vars, NEW w \in WorkflowIds, Stored(w),
             workflows[w].status = "WAITING_FOR_REVIEW", workflows'[w] # workflows[w]
      PROVE  Reviewed(w)
  <2>1. PICK h \in Handlers : pc[h] \in Saving /\ target[h] = w /\ mem[h] = workflows[w]
    BY <1>1, StoredChange
  <2>2. pc[h] = "resume_save" /\ mem[h] \in CatalogIntelligenceWorkflow
    BY <1>1, <2>1, SaverView DEF Saving
  <2>3. SessionCompleted(workflows[w], review)
    BY <1>1, <2>1, <2>2 DEF HistoryInv, HandlerKnows
  <2>4. workflows[w].selection_id \in Selections
    BY <2>1, <2>2, <2>3 DEF SessionCompleted, CatalogIntelligenceWorkflow
  <2> QED
    BY <2>3, <2>4 DEF Reviewed, SessionCompleted
<1>2. IInv /\ HistoryInv /\ [Next]_vars =>
        [\A w \in WorkflowIds :
            /\ Stored(w)
            /\ workflows[w].status = "WAITING_FOR_REVIEW"
            /\ workflows'[w] # workflows[w]
            => Reviewed(w)]_workflows
  BY <1>1
<1> QED
  BY <1>2, InductiveInvariant, HistoryInvariant, PTL DEF Spec, ResumedAfterReview

(***************************************************************************)
(* The refinement of WorkflowLifecycle.                                    *)
(*                                                                         *)
(* StoredChange and its kin say that what is stored next is a transition   *)
(* of what is stored.  What is left is what a request must have found out  *)
(* before it may save that transition: ReportsInv, the third part of the   *)
(* inductive invariant.                                                    *)
(***************************************************************************)

SessionExists(m, r) == m.selection_id # NoSelection /\ r[m.product][m.selection_id] # "NONE"

\* What a request is about to store of a new workflow, or to report of a stage.
HandlerReports(h) ==
    LET m == mem[h]
        c == m.current_stage
    IN  /\ pc[h] \in {"snapshot", "create"} =>
            /\ m = create(m.product, m.product_version, m.strict, m.snapshot)
            /\ m.product_version # 0
        /\ pc[h] = "create" => m.snapshot # {}
        /\ pc[h] = "create_review" => m.selection_id # NoSelection
        /\ pc[h] \in {"pause", "mark"} => SessionExists(m, review)
        /\ pc[h] = "apply" =>
            IF c = HUMAN_REVIEW
            THEN /\ pending[h].status \in {"COMPLETED", "WAITING"}
                 /\ pending[h].status = "WAITING" => SessionExists(m, review)
            ELSE /\ pending[h].product_version = 0
                 /\ IF c = ATTRIBUTE_SELECTION /\ pending[h].status = "COMPLETED"
                    THEN pending[h].selection_id \in Selections
                    ELSE pending[h].selection_id = NoSelection

ReportsInv == \A h \in Handlers : HandlerReports(h)

\* The transitions of the instance are those of the state machine.
LEMMA SameTransitions ==
    ASSUME NEW m, NEW s, NEW outcome, NEW b, NEW p, NEW v, NEW snapshot
    PROVE  /\ Lifecycle!create(p, v, b, snapshot) = create(p, v, b, snapshot)
           /\ Lifecycle!begin(m) = begin(m)
           /\ Lifecycle!start_stage(m, s) = start_stage(m, s)
           /\ Lifecycle!apply_outcome(m, s, outcome) = apply_outcome(m, s, outcome)
           /\ Lifecycle!resume_review(m) = resume_review(m)
           /\ Lifecycle!fail_stage(m, s, b) = fail_stage(m, s, b)
           /\ Lifecycle!may_finish(m) <=> may_finish(m)
           /\ Lifecycle!finish(m, b) = finish(m, b)
<1>1. Lifecycle!Stage = Stage /\ Lifecycle!NoStage = NoStage
  BY DEF Lifecycle!Stage, Stage, Lifecycle!NoStage, NoStage
<1>2. /\ Lifecycle!TERMINAL_STAGE_STATUSES = TERMINAL_STAGE_STATUSES
      /\ \A stages : Lifecycle!progress(stages) = progress(stages)
      /\ Lifecycle!next_stage(m, s) = next_stage(m, s)
  <2>1. Lifecycle!TERMINAL_STAGE_STATUSES = TERMINAL_STAGE_STATUSES
    BY DEF Lifecycle!TERMINAL_STAGE_STATUSES, TERMINAL_STAGE_STATUSES
  <2>2. \A S : Lifecycle!Cardinality(S) = Cardinality(S)
    BY DEF Lifecycle!Cardinality, Cardinality
  <2>3. \A stages : Lifecycle!progress(stages) = progress(stages)
    BY <1>1, <2>2 DEF Lifecycle!progress, progress
  <2>4. Lifecycle!next_stage(m, s) = next_stage(m, s)
    BY <1>1 DEF Lifecycle!next_stage, next_stage
  <2> QED
    BY <2>1, <2>3, <2>4
<1>3. \A stageStatus, status, current, t :
        Lifecycle!replace_stage(m, t, stageStatus, status, current)
            = replace_stage(m, t, stageStatus, status, current)
  BY <1>2 DEF Lifecycle!replace_stage, replace_stage
<1>4. /\ Lifecycle!create(p, v, b, snapshot) = create(p, v, b, snapshot)
      /\ Lifecycle!begin(m) = begin(m)
      /\ Lifecycle!finish(m, b) = finish(m, b)
      /\ Lifecycle!may_finish(m) <=> may_finish(m)
  BY <1>1, <1>2 DEF Lifecycle!create, create, Lifecycle!begin, begin, Lifecycle!finish, finish,
                    Lifecycle!may_finish, may_finish
<1>5. /\ Lifecycle!start_stage(m, s) = start_stage(m, s)
      /\ Lifecycle!resume_review(m) = resume_review(m)
      /\ Lifecycle!fail_stage(m, s, b) = fail_stage(m, s, b)
  BY <1>1, <1>2, <1>3 DEF Lifecycle!start_stage, start_stage, Lifecycle!resume_review,
                          resume_review, Lifecycle!fail_stage, fail_stage
<1>6. Lifecycle!apply_outcome(m, s, outcome) = apply_outcome(m, s, outcome)
  BY <1>2, <1>3 DEF Lifecycle!apply_outcome, apply_outcome
<1> QED
  BY <1>4, <1>5, <1>6

-------------------------------------------------------------------------------
(* Every step keeps ReportsInv.                                            *)

\* A session that exists goes on existing.
SessionsKept ==
    \A p \in Products, s \in Selections : review[p][s] # "NONE" => review'[p][s] # "NONE"

LEMMA SessionWrite ==
    ASSUME TypeOK, NEW p \in Products, NEW s, NEW status, status # "NONE",
           review' = [review EXCEPT ![p][s] = status]
    PROVE  SessionsKept
<1>1. review \in [Products -> [Selections -> ReviewStatus]]
  BY DEF TypeOK
<1>2. ASSUME NEW q \in Products, NEW t \in Selections, review[q][t] # "NONE"
      PROVE  review'[q][t] # "NONE"
  BY <1>1, <1>2
<1> QED
  BY <1>2 DEF SessionsKept

LEMMA ReviewStepKeeps ==
    ASSUME TypeOK, NEW p \in Products, NEW s \in Selections, Lifecycle!ReviewStep(p, s)
    PROVE  SessionsKept
BY SessionWrite DEF Lifecycle!ReviewStep

\* What a request is about to report stays right while others move.
LEMMA ReportKept ==
    ASSUME IInv, NEW k \in Handlers, HandlerReports(k), SessionsKept,
           pc'[k] = pc[k], mem'[k] = mem[k], pending'[k] = pending[k]
    PROVE  HandlerReports(k)'
<1>1. ASSUME pc[k] \in {"pause", "mark", "apply"}, SessionExists(mem[k], review)
      PROVE  SessionExists(mem[k], review')
  <2>1. mem[k] \in CatalogIntelligenceWorkflow
    BY <1>1, SaverView DEF Executing, Reviewing
  <2> QED
    BY <1>1, <2>1 DEF SessionExists, SessionsKept, CatalogIntelligenceWorkflow
<1> QED
  BY <1>1 DEF HandlerReports

LEMMA ReportsMover ==
    ASSUME IInv, ReportsInv, SessionsKept, NEW h \in Handlers, OnlyMoves(h), HandlerReports(h)'
    PROVE  ReportsInv'
<1>1. ASSUME NEW k \in Handlers, k # h PROVE HandlerReports(k)'
  BY <1>1, ReportKept DEF OnlyMoves, ReportsInv
<1> QED
  BY <1>1 DEF ReportsInv

\* Most steps lead where nothing is about to be reported.
LEMMA NothingToReport ==
    ASSUME NEW h \in Handlers,
           pc'[h] \notin {"snapshot", "create", "create_review", "pause", "mark", "apply"}
    PROVE  HandlerReports(h)'
BY DEF HandlerReports

\* What Report makes of an outcome.
LEMMA OutcomeFields ==
    ASSUME NEW status, NEW selection, NEW version
    PROVE  /\ Outcome(status, selection, version).status = status
           /\ Outcome(status, selection, version).selection_id = selection
           /\ Outcome(status, selection, version).product_version = version
BY DEF Outcome

\* The report of a stage other than the review, or an error.
LEMMA StageReport ==
    ASSUME TypeOK, NEW h \in Handlers, mem[h].current_stage # HUMAN_REVIEW,
           NEW outcome, Report(h, outcome) \/ Goto(h, "fail"),
           outcome.product_version = 0,
           IF mem[h].current_stage = ATTRIBUTE_SELECTION /\ outcome.status = "COMPLETED"
           THEN outcome.selection_id \in Selections
           ELSE outcome.selection_id = NoSelection
    PROVE  HandlerReports(h)'
<1>1. CASE Report(h, outcome)
  <2>1. pc'[h] = "apply" /\ pending'[h] = outcome /\ mem' = mem
    BY <1>1 DEF Report, TypeOK
  <2> QED
    BY <2>1 DEF HandlerReports
<1>2. CASE Goto(h, "fail")
  <2>1. pc'[h] = "fail"
    BY <1>2 DEF Goto, TypeOK
  <2> QED
    BY <2>1, NothingToReport
<1> QED
  BY <1>1, <1>2

\* The report of the review, or an error.
LEMMA ReviewReport ==
    ASSUME TypeOK, NEW h \in Handlers, mem[h].current_stage = HUMAN_REVIEW, UNCHANGED review,
           NEW outcome, Report(h, outcome) \/ Goto(h, "fail"),
           outcome.status \in {"COMPLETED", "WAITING"},
           outcome.status = "WAITING" => SessionExists(mem[h], review)
    PROVE  HandlerReports(h)'
<1>1. CASE Report(h, outcome)
  <2>1. pc'[h] = "apply" /\ pending'[h] = outcome /\ mem' = mem
    BY <1>1 DEF Report, TypeOK
  <2> QED
    BY <2>1 DEF HandlerReports
<1>2. CASE Goto(h, "fail")
  <2>1. pc'[h] = "fail"
    BY <1>2 DEF Goto, TypeOK
  <2> QED
    BY <2>1, NothingToReport
<1> QED
  BY <1>1, <1>2

\* What a request starts, and what it does to resume, is not yet a report.
LEMMA IdleReports ==
    ASSUME IInv, NEW h \in Handlers, HandlerReports(h),
           \/ \E p \in Products, strict \in BOOLEAN : start(h, p, strict)
           \/ source_snapshot(h)
           \/ \E w \in WorkflowIds : resume(h, w)
           \/ resume_sources(h) \/ resume_product(h) \/ resume_review_completed(h)
           \/ crash(h)
    PROVE  HandlerReports(h)' /\ UNCHANGED review
<1>1. TypeOK
  BY DEF IInv
<1>2. CASE \E p \in Products, strict \in BOOLEAN : start(h, p, strict)
  <2>1. PICK p \in Products, strict \in BOOLEAN : start(h, p, strict)
    BY <1>2
  <2> DEFINE new == create(p, product[p].version, strict, {})
  <2>2. /\ new = create(new.product, new.product_version, new.strict, new.snapshot)
        /\ new.product_version # 0
    BY <2>1 DEF create, start
  <2>3. mem' = [mem EXCEPT ![h] = new] /\ pc' = [pc EXCEPT ![h] = "snapshot"] /\ UNCHANGED review
    BY <2>1 DEF start
  <2> HIDE DEF new
  <2>4. mem'[h] = new /\ pc'[h] = "snapshot"
    BY <1>1, <2>3 DEF TypeOK
  <2> QED
    BY <2>2, <2>3, <2>4 DEF HandlerReports
<1>3. CASE source_snapshot(h)
  <2>1. pc[h] = "snapshot" /\ UNCHANGED review
    BY <1>3 DEF source_snapshot
  <2>2. CASE Return(h)
    <3>1. pc'[h] = "idle"
      BY <1>1, <2>2 DEF Return, TypeOK
    <3> QED
      BY <2>1, <3>1, NothingToReport
  <2> DEFINE m == mem[h]
             S == sourceIndex[m.product]
             new == [m EXCEPT !.snapshot = S]
  <2>3. CASE HasSnapshot(m.product) /\ pc' = [pc EXCEPT ![h] = "create"] /\ mem' = [mem EXCEPT ![h] = new]
    <3>1. m \in CatalogIntelligenceWorkflow
      BY <1>1, <2>1 DEF IInv, HandlerView, TypeOK
    <3>2. m = create(m.product, m.product_version, m.strict, m.snapshot) /\ m.product_version # 0
      BY <2>1 DEF HandlerReports
    <3>3. /\ new.product = m.product /\ new.product_version = m.product_version
          /\ new.strict = m.strict /\ new.snapshot = S
      BY <3>1 DEF CatalogIntelligenceWorkflow
    <3>4. new = create(m.product, m.product_version, m.strict, S)
      <4> DEFINE q == m.product
                 v == m.product_version
                 b == m.strict
                 T == m.snapshot
      <4>1. m = create(q, v, b, T)
        BY <3>2
      <4>2. [create(q, v, b, T) EXCEPT !.snapshot = S] = create(q, v, b, S)
        <5> HIDE DEF q, v, b, T, S
        <5> QED BY DEF create
      <4> HIDE DEF q, v, b, T, S, m
      <4>3. [m EXCEPT !.snapshot = S] = create(q, v, b, S)
        BY <4>1, <4>2
      <4> QED BY <4>3 DEF q, v, b, S
    <3>5. S # {}
      BY <2>3 DEF HasSnapshot
    <3> HIDE DEF new, m, S
    <3>6. mem'[h] = new /\ pc'[h] = "create"
      BY <1>1, <2>3 DEF TypeOK
    <3> QED
      BY <2>1, <3>2, <3>3, <3>4, <3>5, <3>6 DEF HandlerReports
  <2> QED
    BY <1>3, <2>2, <2>3 DEF source_snapshot
<1>4. CASE \E w \in WorkflowIds : resume(h, w)
  <2>1. pc'[h] = "resume_sources" /\ UNCHANGED review
    BY <1>1, <1>4 DEF resume, TypeOK
  <2> QED
    BY <2>1, NothingToReport
<1>5. CASE resume_sources(h) \/ resume_product(h) \/ resume_review_completed(h)
  <2>1. /\ UNCHANGED review
        /\ \/ Return(h)
           \/ \E to \in {"resume_product", "resume_review", "resume_save"} : Goto(h, to)
    BY <1>5 DEF resume_sources, resume_product, resume_review_completed, resume_check
  <2>2. pc'[h] \in {"idle", "resume_product", "resume_review", "resume_save"}
    BY <1>1, <2>1 DEF Return, Goto, TypeOK
  <2> QED
    BY <2>1, <2>2, NothingToReport
<1>6. CASE crash(h)
  <2>1. pc'[h] = "idle" /\ UNCHANGED review
    BY <1>1, <1>6 DEF crash, Return, TypeOK
  <2> QED
    BY <2>1, NothingToReport
<1> QED
  BY <1>2, <1>3, <1>4, <1>5, <1>6

\* Of the calls of a stage only create_review writes the session, and what they
\* report is what they have found.
LEMMA ExecutingReports ==
    ASSUME IInv, NEW h \in Handlers, HandlerKnows(h), HandlerReports(h),
           \/ execute_stage(h) \/ human_review(h) \/ create_review(h) \/ confirm_review(h)
           \/ pause_for_review(h) \/ mark_review_required(h)
           \/ publishing_readiness(h) \/ mark_ready_to_publish(h)
    PROVE  /\ HandlerReports(h)'
           /\ \/ UNCHANGED review
              \/ \E p \in Products, s \in Selections : Lifecycle!ReviewStep(p, s)
<1> DEFINE m == mem[h]
           c == m.current_stage
<1>1. /\ TypeOK /\ HandlerView(h)
      /\ ATTRIBUTE_SELECTION # HUMAN_REVIEW /\ PUBLISHING_READINESS # HUMAN_REVIEW
      /\ PUBLISHING_READINESS # ATTRIBUTE_SELECTION
  BY PipelineAssumption, OrchestratorAssumption DEF IInv, Stage
<1>2. pc[h] \in {"execute", "create_review", "confirm", "pause", "mark", "ready"}
  BY DEF execute_stage, human_review, create_review, confirm_review, pause_for_review,
         mark_review_required, publishing_readiness, mark_ready_to_publish
<1>3. /\ pc[h] \in Reviewing => c = HUMAN_REVIEW
      /\ pc[h] \in Executing \cup {"begin", "run", "resume_save"}
  BY <1>1, <1>2 DEF HandlerView, Executing, Reviewing
<1>4. /\ m \in CatalogIntelligenceWorkflow
      /\ m.product \in Products /\ m.selection_id \in Selections \cup {NoSelection}
  BY <1>3, SaverView DEF CatalogIntelligenceWorkflow
<1>5. ASSUME NEW step \in {"fail", "confirm", "ready"}, pc' = [pc EXCEPT ![h] = step]
      PROVE  HandlerReports(h)'
  BY <1>1, <1>5, NothingToReport DEF TypeOK
<1>6. CASE execute_stage(h)
  <2>1. c # HUMAN_REVIEW /\ UNCHANGED review
    BY <1>6 DEF execute_stage
  <2>2. CASE \E sel \in IF c = ATTRIBUTE_SELECTION THEN Selections ELSE {NoSelection} :
                Report(h, Outcome("COMPLETED", sel, 0))
    <3>1. PICK sel \in IF c = ATTRIBUTE_SELECTION THEN Selections ELSE {NoSelection} :
                Report(h, Outcome("COMPLETED", sel, 0))
      BY <2>2
    <3> DEFINE outcome == Outcome("COMPLETED", sel, 0)
    <3>2. outcome.status = "COMPLETED" /\ outcome.selection_id = sel /\ outcome.product_version = 0
      BY OutcomeFields
    <3> HIDE DEF outcome
    <3>3. Report(h, outcome)
      BY <3>1 DEF outcome
    <3> QED
      BY <1>1, <2>1, <3>1, <3>2, <3>3, StageReport
  <2>3. CASE Report(h, Outcome("SKIPPED", NoSelection, 0)) \/ Goto(h, "fail")
    <3> DEFINE outcome == Outcome("SKIPPED", NoSelection, 0)
    <3>1. /\ outcome.status = "SKIPPED" /\ outcome.selection_id = NoSelection
          /\ outcome.product_version = 0
      BY OutcomeFields
    <3> HIDE DEF outcome
    <3>2. Report(h, outcome) \/ Goto(h, "fail")
      BY <2>3 DEF outcome
    <3> QED
      BY <1>1, <2>1, <3>1, <3>2, StageReport
  <2> QED
    BY <1>6, <2>1, <2>2, <2>3 DEF execute_stage
<1>7. CASE human_review(h)
  <2>1. UNCHANGED <<review, mem>>
    BY <1>7 DEF human_review, Goto
  <2> DEFINE step == IF m.selection_id = NoSelection THEN "fail"
                     ELSE CASE review[m.product][m.selection_id] = "NONE" -> "create_review"
                            [] review[m.product][m.selection_id] = "OPEN" -> "pause"
                            [] OTHER -> "confirm"
  <2>2. step \in {"fail", "create_review", "pause", "confirm"}
    OBVIOUS
  <2>3. step = "create_review" => m.selection_id # NoSelection
    OBVIOUS
  <2>4. step = "pause" => SessionExists(m, review)
    BY DEF SessionExists
  <2>5. Goto(h, step)
    BY <1>7 DEF human_review
  <2> HIDE DEF step
  <2>6. pc'[h] = step
    BY <1>1, <2>5 DEF Goto, TypeOK
  <2> QED
    BY <2>1, <2>2, <2>3, <2>4, <2>6 DEF HandlerReports
<1>8. CASE create_review(h)
  <2>1. pc[h] = "create_review" /\ m.selection_id # NoSelection /\ UNCHANGED <<workflows, mem>>
    BY <1>8 DEF create_review, HandlerReports, Goto
  <2>2. m.selection_id \in Selections
    BY <1>4, <2>1
  <2>3. CASE Goto(h, "fail") /\ UNCHANGED review
    BY <1>5, <2>3 DEF Goto
  <2>4. CASE /\ review[m.product][m.selection_id] = "NONE"
             /\ review' = [review EXCEPT ![m.product][m.selection_id] = "OPEN"]
             /\ Goto(h, "pause")
    <3>1. Lifecycle!ReviewStep(m.product, m.selection_id)
      BY <2>1, <2>4 DEF Lifecycle!ReviewStep
    <3>2. review'[m.product][m.selection_id] = "OPEN"
      BY <1>1, <1>4, <2>2, <2>4 DEF TypeOK
    <3>3. pc'[h] = "pause"
      BY <1>1, <2>4 DEF Goto, TypeOK
    <3>4. HandlerReports(h)'
      BY <2>1, <3>2, <3>3 DEF HandlerReports, SessionExists
    <3> QED
      BY <1>4, <2>2, <3>1, <3>4
  <2> QED
    BY <1>8, <2>3, <2>4 DEF create_review
<1>9. CASE confirm_review(h)
  <2> DEFINE outcome == Outcome("COMPLETED", NoSelection, product[m.product].version)
  <2>1. outcome.status = "COMPLETED"
    BY OutcomeFields
  <2>2. /\ pc[h] = "confirm" /\ UNCHANGED review
        /\ Report(h, outcome) \/ Goto(h, "fail")
    BY <1>9 DEF confirm_review
  <2> HIDE DEF outcome
  <2> QED
    BY <1>1, <1>3, <2>1, <2>2, ReviewReport DEF Reviewing
<1>10. CASE pause_for_review(h)
  <2> DEFINE seen == Outcome("WAITING", NoSelection, product[m.product].version)
  <2>1. seen.status = "WAITING"
    BY OutcomeFields
  <2>2. /\ pc[h] = "pause" /\ UNCHANGED review
        /\ \/ Report(h, seen) \/ Goto(h, "fail")
           \/ pc' = [pc EXCEPT ![h] = "mark"] /\ UNCHANGED mem
    BY <1>10 DEF pause_for_review
  <2> HIDE DEF seen
  <2>3. SessionExists(m, review) /\ c = HUMAN_REVIEW
    BY <1>3, <2>2 DEF HandlerReports, Reviewing
  <2>4. CASE pc' = [pc EXCEPT ![h] = "mark"] /\ UNCHANGED mem
    <3>1. pc'[h] = "mark"
      BY <1>1, <2>4 DEF TypeOK
    <3> QED
      BY <2>2, <2>3, <2>4, <3>1 DEF HandlerReports
  <2> QED
    BY <1>1, <2>1, <2>2, <2>3, <2>4, ReviewReport
<1>11. CASE mark_review_required(h)
  <2> DEFINE outcome == Outcome("WAITING", NoSelection, pending[h].product_version + 1)
  <2>1. outcome.status = "WAITING"
    BY OutcomeFields
  <2>2. /\ pc[h] = "mark" /\ UNCHANGED review
        /\ Report(h, outcome) \/ Goto(h, "fail")
    BY <1>11 DEF mark_review_required, UpdateProduct
  <2> HIDE DEF outcome
  <2>3. SessionExists(m, review) /\ c = HUMAN_REVIEW
    BY <1>3, <2>2 DEF HandlerReports, Reviewing
  <2> QED
    BY <1>1, <2>1, <2>2, <2>3, ReviewReport
<1>12. CASE publishing_readiness(h)
  <2> DEFINE outcome == Outcome("SKIPPED", NoSelection, 0)
  <2>1. /\ outcome.status = "SKIPPED" /\ outcome.selection_id = NoSelection
        /\ outcome.product_version = 0
    BY OutcomeFields
  <2>2. /\ c = PUBLISHING_READINESS /\ UNCHANGED review
        /\ \/ Report(h, outcome) \/ Goto(h, "fail")
           \/ pc' = [pc EXCEPT ![h] = "ready"]
    BY <1>12 DEF publishing_readiness
  <2> HIDE DEF outcome
  <2> QED
    BY <1>1, <1>5, <2>1, <2>2, StageReport
<1>13. CASE mark_ready_to_publish(h)
  <2>1. NoOutcome.status = "COMPLETED" /\ NoOutcome.selection_id = NoSelection
        /\ NoOutcome.product_version = 0
    BY DEF NoOutcome
  <2>2. /\ pc[h] = "ready" /\ UNCHANGED review
        /\ Report(h, NoOutcome) \/ Goto(h, "fail")
    BY <1>13 DEF mark_ready_to_publish, UpdateProduct
  <2>3. c = PUBLISHING_READINESS
    BY <2>2 DEF HandlerKnows
  <2> QED
    BY <1>1, <2>1, <2>2, <2>3, StageReport
<1> QED
  BY <1>6, <1>7, <1>8, <1>9, <1>10, <1>11, <1>12, <1>13

\* Who saves a workflow or stores a new one writes no session.
LEMMA SavingReports ==
    ASSUME IInv, NEW h \in Handlers, SavingStep(h) \/ create_workflow(h)
    PROVE  HandlerReports(h)' /\ OnlyMoves(h) /\ UNCHANGED review
<1>1. CASE SavingStep(h)
  <2>1. SaveEnd(h)
    BY <1>1, SavingForms DEF Saves
  <2> QED
    BY <2>1, NothingToReport DEF SaveEnd
<1>2. CASE create_workflow(h)
  <2>1. CreateEffect(h)
    BY <1>2, CreateForms DEF IInv
  <2> QED
    BY <2>1, NothingToReport DEF CreateEffect
<1> QED
  BY <1>1, <1>2

\* Every step keeps what the requests are about to report, and a session is
\* opened or completed by a step that writes no workflow.
LEMMA NextReports ==
    ASSUME IInv, HistoryInv, ReportsInv, Next
    PROVE  /\ ReportsInv'
           /\ \/ UNCHANGED review
              \/ \E p \in Products, s \in Selections : Lifecycle!ReviewStep(p, s)
<1>1. TypeOK /\ \A k \in Handlers : HandlerKnows(k) /\ HandlerReports(k)
  BY DEF IInv, HistoryInv, ReportsInv
<1>2. \/ UNCHANGED review
      \/ \E p \in Products, s \in Selections : Lifecycle!ReviewStep(p, s)
      => SessionsKept
  BY <1>1, ReviewStepKeeps DEF SessionsKept
<1>3. CASE OutsideStep
  <2>1. UNCHANGED handlerVars
    BY <1>1, <1>3, OutsideEffect
  <2>2. \/ UNCHANGED review
        \/ \E p \in Products, s \in Selections : Lifecycle!ReviewStep(p, s)
    BY <1>3 DEF OutsideStep, edit_product, delete_product, change_sources, review_api,
                Lifecycle!ReviewStep
  <2>3. ReportsInv'
    BY <1>1, <1>2, <2>1, <2>2, ReportKept DEF ReportsInv, handlerVars
  <2> QED
    BY <2>2, <2>3
<1>4. ASSUME NEW h \in Handlers, SavingStep(h) \/ create_workflow(h)
      PROVE  ReportsInv' /\ UNCHANGED review
  BY <1>2, <1>4, SavingReports, ReportsMover
<1>5. ASSUME NEW h \in Handlers, QuietStep(h)
      PROVE  /\ ReportsInv'
             /\ \/ UNCHANGED review
                \/ \E p \in Products, s \in Selections : Lifecycle!ReviewStep(p, s)
  <2>1. OnlyMoves(h)
    BY <1>1, <1>5, QuietSteps DEF QuietEffect
  <2>2. /\ HandlerReports(h)'
        /\ \/ UNCHANGED review
           \/ \E p \in Products, s \in Selections : Lifecycle!ReviewStep(p, s)
    BY <1>1, <1>5, IdleReports, ExecutingReports DEF QuietStep
  <2> QED
    BY <1>2, <2>1, <2>2, ReportsMover
<1> QED
  BY <1>3, <1>4, <1>5, StepKinds

\* Every request stores a new workflow only with the sources it has listed, and
\* reports of the review only what it has found of the session.
THEOREM ReportsInvariant == Spec => []ReportsInv
<1>1. Init => ReportsInv
  BY NothingToReport DEF Init, ReportsInv, HandlerReports
<1>2. ASSUME IInv, HistoryInv, ReportsInv, [Next]_vars PROVE ReportsInv'
  <2>1. CASE UNCHANGED vars
    <3>1. SessionsKept
      BY <2>1 DEF vars, SessionsKept
    <3> QED
      BY <1>2, <2>1, <3>1, ReportKept DEF vars, handlerVars, ReportsInv
  <2> QED
    BY <1>2, <2>1, NextReports
<1> QED
  BY <1>1, <1>2, InductiveInvariant, HistoryInvariant, PTL DEF Spec

-------------------------------------------------------------------------------
(* Every step is one of WorkflowLifecycle.                                 *)

\* What a request saves of an up-to-date copy is a move of the workflow.
LEMMA TransitionMoves ==
    ASSUME IInv, HistoryInv, ReportsInv, NEW h \in Handlers, pc[h] \in Saving,
           NEW new, Transition(h, new)
    PROVE  Lifecycle!Moves(mem[h], new)
<1> DEFINE m == mem[h]
           c == m.current_stage
<1>1. /\ HandlerView(h) /\ HandlerKnows(h) /\ HandlerReports(h) /\ TypeOK
      /\ m \in CatalogIntelligenceWorkflow
      /\ pc[h] = "begin" => m.status = "PENDING"
      /\ pc[h] = "resume_save" => m.status = "WAITING_FOR_REVIEW"
      /\ pc[h] \notin {"begin", "resume_save"} => m.status = "RUNNING"
      /\ Lifecycle!NoStage = NoStage /\ Lifecycle!Stage = Stage
  BY SaverView DEF IInv, HistoryInv, ReportsInv, Saving, Lifecycle!NoStage, NoStage,
                   Lifecycle!Stage, Stage
<1>2. \A r : SessionCompleted(m, r) => m.selection_id # NoSelection
  BY DEF SessionCompleted
<1>3. SessionCompleted(m, review) => Lifecycle!Session(m) = "COMPLETED"
  BY DEF SessionCompleted, Lifecycle!Session
<1>4. SessionExists(m, review) => Lifecycle!Session(m) # "NONE"
  BY DEF SessionExists, Lifecycle!Session
<1>5. pc[h] \in Executing => Lifecycle!Executes(m)
  BY <1>1 DEF HandlerView, Lifecycle!Executes, Executing, Reviewing
<1>6. CASE pc[h] = "begin" /\ new = begin(m)
  BY <1>1, <1>6, SameTransitions DEF Lifecycle!Begins, Lifecycle!Moves
<1>7. CASE pc[h] = "resume_save" /\ new = resume_review(m)
  <2>1. Lifecycle!Session(m) = "COMPLETED"
    BY <1>1, <1>3, <1>7 DEF HandlerKnows
  <2> QED
    BY <1>1, <1>7, <2>1, SameTransitions DEF Lifecycle!Resumes, Lifecycle!Moves
<1>8. CASE /\ pc[h] = "run" /\ c # NoStage /\ m.stages[c] = "NOT_STARTED"
           /\ new = start_stage(m, c)
  BY <1>1, <1>8, SameTransitions DEF Lifecycle!StartsStage, Lifecycle!Moves
<1>9. CASE pc[h] = "apply" /\ new = apply_outcome(m, c, pending[h])
  <2>1. Lifecycle!Executes(m)
    BY <1>5, <1>9 DEF Executing
  <2> DEFINE out == pending[h]
  <2>2. /\ out \in CatalogWorkflowStageOutcome
        /\ out = [status |-> out.status, selection_id |-> out.selection_id,
                  product_version |-> out.product_version]
    BY <1>1 DEF TypeOK, CatalogWorkflowStageOutcome
  <2>3. CASE c # HUMAN_REVIEW
    <3>1. /\ out.status \in {"COMPLETED", "SKIPPED"} /\ out.product_version = 0
          /\ out.selection_id \in IF c = ATTRIBUTE_SELECTION /\ out.status = "COMPLETED"
                                  THEN Selections ELSE {NoSelection}
      BY <1>1, <1>9, <2>2, <2>3 DEF HandlerView, HandlerReports, CatalogWorkflowStageOutcome
    <3>2. new = apply_outcome(m, c, [status |-> out.status, selection_id |-> out.selection_id,
                                     product_version |-> 0])
      BY <1>9, <2>2, <3>1
    <3>3. Lifecycle!EndsStage(m, new)
      <4> HIDE DEF out
      <4> QED
        BY <2>1, <2>3, <3>1, <3>2, SameTransitions DEF Lifecycle!EndsStage
    <3> QED
      BY <3>3 DEF Lifecycle!Moves
  <2>4. CASE c = HUMAN_REVIEW
    <3>1. /\ out.status \in {"COMPLETED", "WAITING"} /\ out.selection_id = NoSelection
          /\ out.status = "WAITING" => Lifecycle!Session(m) # "NONE"
          /\ out.status = "COMPLETED" => Lifecycle!Session(m) = "COMPLETED"
      BY <1>1, <1>3, <1>4, <1>9, <2>4, PipelineAssumption DEF HandlerKnows, HandlerReports, Stage
    <3> DEFINE seen == [status |-> out.status, selection_id |-> NoSelection,
                        product_version |-> new.product_version]
    <3>2. new = apply_outcome(m, c, seen)
      <4>1. new.product_version = IF out.product_version = 0 THEN m.product_version
                                  ELSE out.product_version
        BY <1>9 DEF apply_outcome, replace_stage
      <4> QED
        BY <1>9, <2>2, <3>1, <4>1 DEF apply_outcome
    <3>3. Lifecycle!Reviews(m, new, out.status)
      BY <2>1, <2>4, <3>2, SameTransitions DEF Lifecycle!Reviews
    <3> QED
      BY <3>1, <3>3 DEF Lifecycle!Pauses, Lifecycle!Passes, Lifecycle!Moves
  <2> QED
    BY <2>3, <2>4
<1>10. CASE pc[h] = "fail" /\ new = fail_stage(m, c, c \notin OPTIONAL_STAGES \/ m.strict)
  <2>1. Lifecycle!Executes(m)
    BY <1>5, <1>10 DEF Executing
  <2> QED
    BY <1>10, <2>1, SameTransitions DEF Lifecycle!FailsStage, Lifecycle!Moves
<1>11. CASE /\ pc[h] = "run" /\ may_finish(m)
            /\ \E warns \in BOOLEAN :
                 new = finish(m, warns \/ \E s \in Stage : m.stages[s] = "FAILED")
  BY <1>1, <1>11, SameTransitions DEF Lifecycle!Finishes, Lifecycle!Moves
<1> QED
  BY <1>6, <1>7, <1>8, <1>9, <1>10, <1>11 DEF Transition

\* create_workflow, if it stores anything, stores a new workflow of a product
\* whose other workflows have ended: the guard was free.
LEMMA CreateStarts ==
    ASSUME IInv, ReportsInv, NEW h \in Handlers, create_workflow(h), workflows' # workflows
    PROVE  \E w \in WorkflowIds : Lifecycle!WorkflowStep(w)
<1> DEFINE new == mem[h]
<1>1. /\ TypeOK /\ HandlerReports(h) /\ HandlerView(h) /\ GuardIsTheActiveWorkflow
      /\ pc[h] = "create" /\ UNCHANGED review
  BY DEF IInv, ReportsInv, create_workflow
<1>2. PICK w \in WorkflowIds :
        /\ workflows[w] = None
        /\ guard[new.product] = None
        /\ workflows' = [workflows EXCEPT ![w] = new]
  BY DEF create_workflow
<1>3. workflows'[w] = new /\ new # None
  BY <1>1, <1>2 DEF TypeOK, HandlerView
<1>4. /\ new = create(new.product, new.product_version, new.strict, new.snapshot)
      /\ new.product_version # 0 /\ new.snapshot # {}
  BY <1>1 DEF HandlerReports
<1>5. \A v \in WorkflowIds :
        workflows[v] # None /\ workflows[v].product = new.product
            => workflows[v].status \in TERMINAL_WORKFLOW_STATUSES
  BY <1>1, <1>2, OrchestratorAssumption DEF GuardIsTheActiveWorkflow, Stored, Terminal
<1> HIDE DEF new
<1>6. Lifecycle!Starts(new)
  BY <1>4, <1>5, SameTransitions
     DEF Lifecycle!Starts, Lifecycle!TERMINAL_WORKFLOW_STATUSES, TERMINAL_WORKFLOW_STATUSES
<1> QED
  BY <1>1, <1>2, <1>3, <1>6 DEF Lifecycle!WorkflowStep

\* A save that is applied is a move of the stored workflow, also when the
\* request sees an error.
LEMMA SaveMoves ==
    ASSUME IInv, HistoryInv, ReportsInv, NEW h \in Handlers, SavingStep(h),
           workflows' # workflows
    PROVE  \E w \in WorkflowIds : Lifecycle!WorkflowStep(w)
<1>1. PICK new \in CatalogIntelligenceWorkflow : Saves(h, new)
  BY SavingForms
<1>2. /\ pc[h] \in Saving /\ Transition(h, new) /\ CanSave(h, new)
      /\ workflows' = [workflows EXCEPT ![target[h]] = new] /\ UNCHANGED review
  BY <1>1 DEF Saves, SaveEffect, SaveEnd
<1>3. /\ target[h] \in WorkflowIds /\ Stored(target[h]) /\ workflows[target[h]] = mem[h]
  BY <1>2, SaverKeeps
<1>4. Lifecycle!Moves(mem[h], new)
  BY <1>2, TransitionMoves
<1>5. workflows'[target[h]] = new
  BY <1>2, <1>3 DEF IInv, TypeOK
<1>6. new # mem[h]
  BY <1>2, <1>5, <1>3 DEF IInv, TypeOK
<1> QED
  BY <1>2, <1>3, <1>4, <1>5, <1>6 DEF Lifecycle!WorkflowStep, Stored

LEMMA StepImplementsLifecycle ==
    ASSUME IInv, HistoryInv, ReportsInv, [Next]_vars
    PROVE  [Lifecycle!LifecycleNext]_(Lifecycle!lifecycleVars)
<1>1. CASE UNCHANGED <<workflows, review>>
  BY <1>1 DEF Lifecycle!lifecycleVars
<1>2. CASE Next /\ workflows' # workflows
  <2>1. \/ \E h \in Handlers : SavingStep(h) \/ create_workflow(h) \/ QuietStep(h)
        \/ OutsideStep
    BY <1>2, StepKinds
  <2>2. ~OutsideStep
    BY <1>2, OutsideEffect DEF IInv
  <2>3. \A h \in Handlers : ~QuietStep(h)
    BY <1>2, QuietSteps DEF HistoryInv, QuietEffect
  <2> QED
    BY <1>2, <2>1, <2>2, <2>3, CreateStarts, SaveMoves DEF Lifecycle!LifecycleNext
<1>3. CASE Next /\ workflows' = workflows /\ review' # review
  BY <1>3, NextReports DEF Lifecycle!LifecycleNext
<1> QED
  BY <1>1, <1>2, <1>3 DEF vars

\* The stored workflows and sessions move as WorkflowLifecycle says: whatever
\* the racing requests, stale copies, failed or ambiguous saves and crashes do,
\* each workflow is taken through its transitions by one driver at a time.
THEOREM WorkflowsImplementLifecycle == Spec => ImplementsWorkflowLifecycle
<1>1. Init => Lifecycle!LifecycleInit
  BY DEF Init, Lifecycle!LifecycleInit
<1>2. IInv /\ HistoryInv /\ ReportsInv /\ [Next]_vars
        => [Lifecycle!LifecycleNext]_(Lifecycle!lifecycleVars)
  BY StepImplementsLifecycle
<1> QED
  BY <1>1, <1>2, InductiveInvariant, HistoryInvariant, ReportsInvariant, PTL
     DEF Spec, ImplementsWorkflowLifecycle, Lifecycle!LifecycleSpec

===============================================================================
