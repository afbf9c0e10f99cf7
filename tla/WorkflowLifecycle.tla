--------------------------- MODULE WorkflowLifecycle ---------------------------
(***************************************************************************)
(* What the orchestrator promises to those who only read the workflows:    *)
(* they move as if one request at a time drove each of them, always by a   *)
(* transition of the state machine from what is stored, past the review    *)
(* only with a completed session.  There are no requests, no copies of a   *)
(* workflow, no guard and no faults here.                                  *)
(*                                                                         *)
(* The product is not part of this module: the version of it that a        *)
(* workflow notes is whichever the workflow is stored with.                *)
(***************************************************************************)
EXTENDS WorkflowStateMachine

CONSTANTS WorkflowIds, None

VARIABLES
    workflows,  \* by id, None before it is started
    review      \* status of the session of every selection of a product

lifecycleVars == <<workflows, review>>

LifecycleInit ==
    /\ workflows = [w \in WorkflowIds |-> None]
    /\ review = [p \in Products |-> [s \in Selections |-> "NONE"]]

\* Of the workflow's own selection.
Session(m) ==
    IF m.selection_id = NoSelection THEN "NONE" ELSE review[m.product][m.selection_id]

Executes(m) ==
    /\ m.status = "RUNNING"
    /\ m.current_stage # NoStage
    /\ m.stages[m.current_stage] = "RUNNING"

\* A new workflow, while no other one of its product is active.
Starts(new) ==
    /\ new = create(new.product, new.product_version, new.strict, new.snapshot)
    /\ new.product_version # 0
    /\ new.snapshot # {}
    /\ \A v \in WorkflowIds :
        workflows[v] # None /\ workflows[v].product = new.product
            => workflows[v].status \in TERMINAL_WORKFLOW_STATUSES

Begins(m, new) == m.status = "PENDING" /\ new = begin(m)

StartsStage(m, new) ==
    /\ m.status = "RUNNING"
    /\ m.current_stage # NoStage
    /\ m.stages[m.current_stage] = "NOT_STARTED"
    /\ new = start_stage(m, m.current_stage)

\* The selection is made by one stage, the product is read again by one.
EndsStage(m, new) ==
    /\ Executes(m)
    /\ m.current_stage # HUMAN_REVIEW
    /\ \E status \in {"COMPLETED", "SKIPPED"} :
       \E selection \in IF m.current_stage = ATTRIBUTE_SELECTION /\ status = "COMPLETED"
                        THEN Selections ELSE {NoSelection} :
            new = apply_outcome(m, m.current_stage,
                    [status |-> status, selection_id |-> selection, product_version |-> 0])

Reviews(m, new, status) ==
    /\ Executes(m)
    /\ m.current_stage = HUMAN_REVIEW
    /\ new = apply_outcome(m, HUMAN_REVIEW,
                [status |-> status, selection_id |-> NoSelection,
                 product_version |-> new.product_version])

Pauses(m, new) == Reviews(m, new, "WAITING") /\ Session(m) # "NONE"

Passes(m, new) == Reviews(m, new, "COMPLETED") /\ Session(m) = "COMPLETED"

Resumes(m, new) ==
    /\ m.status = "WAITING_FOR_REVIEW"
    /\ Session(m) = "COMPLETED"
    /\ new = resume_review(m)

FailsStage(m, new) ==
    /\ Executes(m)
    /\ new = fail_stage(m, m.current_stage,
                        m.current_stage \notin OPTIONAL_STAGES \/ m.strict)

Finishes(m, new) ==
    /\ m.status = "RUNNING"
    /\ may_finish(m)
    /\ \E warns \in BOOLEAN :
        new = finish(m, warns \/ \E s \in Stage : m.stages[s] = "FAILED")

Moves(m, new) ==
    \/ Begins(m, new) \/ StartsStage(m, new) \/ EndsStage(m, new)
    \/ Pauses(m, new) \/ Passes(m, new) \/ Resumes(m, new)
    \/ FailsStage(m, new) \/ Finishes(m, new)

WorkflowStep(w) ==
    /\ workflows'[w] # workflows[w]
    /\ IF workflows[w] = None THEN Starts(workflows'[w])
       ELSE Moves(workflows[w], workflows'[w])
    /\ workflows' = [workflows EXCEPT ![w] = workflows'[w]]
    /\ UNCHANGED review

ReviewStep(p, s) ==
    /\ \/ review[p][s] = "NONE" /\ review' = [review EXCEPT ![p][s] = "OPEN"]
       \/ review[p][s] = "OPEN" /\ review' = [review EXCEPT ![p][s] = "COMPLETED"]
    /\ UNCHANGED workflows

LifecycleNext ==
    \/ \E w \in WorkflowIds : WorkflowStep(w)
    \/ \E p \in Products, s \in Selections : ReviewStep(p, s)

LifecycleSpec == LifecycleInit /\ [][LifecycleNext]_lifecycleVars

================================================================================
