----------------------------- MODULE ProductReview -----------------------------
(***************************************************************************)
(* The human review of one attribute selection (ProductReviewService over  *)
(* DynamoDBProductReviewRepository) and what becomes of it in the          *)
(* REVIEWED_ATTRIBUTE_MATERIALIZATION stage.                               *)
(*                                                                         *)
(* The requests of several reviewers interleave: a handler reads the       *)
(* session, lists the current decisions and then writes conditionally on   *)
(* the version it has read.  A request that is refused before its write    *)
(* changes nothing and is left out, so the version a request names is the  *)
(* version its handler reads.  Every write may fail without an effect; one *)
(* that takes effect and reports an error is a write here, because a       *)
(* handler keeps nothing it could act on afterwards.                       *)
(*                                                                         *)
(* An approved value is known by its candidate; the value of a manual      *)
(* override is taken to have passed ReviewManualOverride.                  *)
(***************************************************************************)
EXTENDS Naturals, FiniteSets

CONSTANTS
    Attributes, RequiredAttributes,
    Candidates,
    PrimaryCandidate,      \* attribute -> its AUTO_SELECTED candidate or None
    SupportingCandidates,  \* attribute -> supporting_candidate_ids
    ReviewCandidates,      \* attribute -> review_candidate_ids
    Approvable,            \* candidates VALID or VALID_WITH_WARNINGS
    ReviewIds,             \* identifiers that uuid4 may return
    Handlers,              \* requests being served
    Jobs,                  \* PENDING materialization jobs
    MaxDecisions,          \* max_decisions, 1000 in the code
    None

\* ProposedAttributeSelection.__post_init__, and what _select_attribute adds:
\* a primary candidate is one of the VALID candidates it supports.
ASSUME SelectionAssumption ==
    /\ IsFiniteSet(Attributes)
    /\ RequiredAttributes \subseteq Attributes
    /\ Approvable \subseteq Candidates
    /\ PrimaryCandidate \in [Attributes -> Candidates \cup {None}]
    /\ SupportingCandidates \in [Attributes -> SUBSET Approvable]
    /\ ReviewCandidates \in [Attributes -> SUBSET Candidates]
    /\ \A a \in Attributes :
          IF PrimaryCandidate[a] = None
          THEN SupportingCandidates[a] = {}
          ELSE PrimaryCandidate[a] \in SupportingCandidates[a] /\ ReviewCandidates[a] = {}
    /\ MaxDecisions \in Nat
    /\ None \notin ReviewIds

VARIABLES
    guard,            \* target of the SELECTION# record
    sessions,         \* the META records
    decisions,        \* the DECISION# records: review -> sequence -> decision
    current,          \* the CURRENT# records: review -> attribute -> decision
    handling,         \* what each handler has read
    materializing,    \* what each materialization job has read
    materializations  \* the result of each review

vars == <<guard, sessions, decisions, current, handling, materializing, materializations>>

(* ------------------------------- data --------------------------------- *)

AttributeReviewDecisionType ==
    {"APPROVE_CANDIDATE", "APPROVE_PROPOSED", "REJECT_ALL", "MANUAL_OVERRIDE"}

RESOLVING_DECISION_TYPES == AttributeReviewDecisionType \ {"REJECT_ALL"}

AttributeReviewDecision ==
    [ sequence  : 1 .. MaxDecisions,
      attribute : Attributes,
      type      : AttributeReviewDecisionType,
      candidate : Candidates \cup {None} ]

\* What a reviewer submits for an attribute.
Request ==
    [ attribute : Attributes,
      type      : AttributeReviewDecisionType,
      candidate : Candidates \cup {None} ]

\* The CURRENT# records of a review.
View == [Attributes -> AttributeReviewDecision \cup {None}]

ProductReviewSession ==
    [ status            : {"ABSENT", "OPEN", "COMPLETED"},
      version           : Nat,
      decision_count    : 0 .. MaxDecisions,
      required_resolved : Nat,
      optional_resolved : Nat ]

NoSession ==
    [ status |-> "ABSENT", version |-> 0, decision_count |-> 0,
      required_resolved |-> 0, optional_resolved |-> 0 ]

NewSession == [NoSession EXCEPT !.status = "OPEN", !.version = 1]

\* Is the attribute resolved by the decisions of the view?
IsResolved(view, a) == view[a] # None /\ view[a].type \in RESOLVING_DECISION_TYPES

Resolved(view, attributes) == {a \in attributes : IsResolved(view, a)}

RequiredResolved(view) == Cardinality(Resolved(view, RequiredAttributes))

OptionalResolved(view) == Cardinality(Resolved(view, Attributes \ RequiredAttributes))

after_decision(session, view) ==
    [session EXCEPT !.version = @ + 1,
                    !.decision_count = @ + 1,
                    !.required_resolved = RequiredResolved(view),
                    !.optional_resolved = OptionalResolved(view)]

\* The conditions under which submit_decision accepts a request.
Accepts(request) ==
    LET a == request.attribute
        c == request.candidate
    IN  \/ /\ request.type = "APPROVE_PROPOSED"
           /\ PrimaryCandidate[a] # None
           /\ c = PrimaryCandidate[a]
        \/ /\ request.type = "APPROVE_CANDIDATE"
           /\ c \in (SupportingCandidates[a] \cup ReviewCandidates[a]) \cap Approvable
        \/ /\ request.type \in {"REJECT_ALL", "MANUAL_OVERRIDE"}
           /\ c = None

NewDecision(session, request) ==
    [ sequence  |-> session.decision_count + 1,
      attribute |-> request.attribute,
      type      |-> request.type,
      candidate |-> request.candidate ]

\* What a handler has read so far, and the write it is heading for.
Handling ==
    [ pc      : {"idle", "create", "list", "append", "check", "complete"},
      review  : ReviewIds \cup {None},
      session : ProductReviewSession,
      request : Request \cup {None},
      view    : View ]

NoView == [a \in Attributes |-> None]

Idle == [pc |-> "idle", review |-> None, session |-> NoSession, request |-> None, view |-> NoView]

\* A materialization job: the CURRENT# records it has read, then resolved.
Materializing ==
    [ pc     : {"pending", "resolve", "run", "refused", "failed", "completed"},
      review : ReviewIds \cup {None},
      view   : View ]

PendingJob == [pc |-> "pending", review |-> None, view |-> NoView]

\* A stored result: the decision behind each attribute, and whether all its
\* records are there.
Materialization == [attributes : View, whole : BOOLEAN]

\* No decision and no result is None: a record is there or it is not.
ASSUME NoneAssumption == None \notin AttributeReviewDecision \cup Materialization

TypeOK ==
    /\ guard \in ReviewIds \cup {None}
    /\ sessions \in [ReviewIds -> ProductReviewSession]
    /\ decisions \in [ReviewIds -> [1 .. MaxDecisions -> AttributeReviewDecision \cup {None}]]
    /\ current \in [ReviewIds -> View]
    /\ handling \in [Handlers -> Handling]
    /\ materializing \in [Jobs -> Materializing]
    /\ materializations \in [ReviewIds -> Materialization \cup {None}]

Init ==
    /\ guard = None
    /\ sessions = [r \in ReviewIds |-> NoSession]
    /\ decisions = [r \in ReviewIds |-> [n \in 1 .. MaxDecisions |-> None]]
    /\ current = [r \in ReviewIds |-> NoView]
    /\ handling = [h \in Handlers |-> Idle]
    /\ materializing = [j \in Jobs |-> PendingJob]
    /\ materializations = [r \in ReviewIds |-> None]

stored == <<guard, sessions, decisions, current>>

results == <<materializing, materializations>>

Exists(r) == sessions[r].status # "ABSENT"

(* ------------------------------ reviewers ------------------------------ *)

\* The handler is done, whether it succeeded or was refused.
Finish(h) == handling' = [handling EXCEPT ![h] = Idle]

\* create_review, up to get_by_selection_id.  uuid4 returns a fresh id.
create_review(h, r) ==
    /\ handling[h].pc = "idle"
    /\ guard = None
    /\ sessions[r].status = "ABSENT"
    /\ \A other \in Handlers : handling[other].review # r
    /\ handling' = [handling EXCEPT ![h] = [Idle EXCEPT !.pc = "create", !.review = r]]
    /\ UNCHANGED <<stored, results>>

MayCreate(r) == sessions[r].status = "ABSENT" /\ guard = None

\* DynamoDBProductReviewRepository.create: META and guard in one transaction.
create(h) ==
    LET r == handling[h].review
    IN  /\ handling[h].pc = "create"
        /\ Finish(h)
        /\ \/ /\ MayCreate(r)
              /\ guard' = r
              /\ sessions' = [sessions EXCEPT ![r] = NewSession]
           \/ UNCHANGED <<guard, sessions>>
        /\ UNCHANGED <<decisions, current, results>>

UnderLimit(session) == session.decision_count < MaxDecisions

\* submit_decision, up to the checks that precede list_current_decisions.
submit_decision(h, r, request) ==
    /\ handling[h].pc = "idle"
    /\ sessions[r].status = "OPEN"
    /\ UnderLimit(sessions[r])
    /\ Accepts(request)
    /\ handling' = [handling EXCEPT ![h] =
          [Idle EXCEPT !.pc = "list", !.review = r, !.session = sessions[r],
                       !.request = request]]
    /\ UNCHANGED <<stored, results>>

\* Mutant: the counts are those from before the decision.
CurrentWith_before(h) == current[handling[h].review]

\* The current decisions with the new one in place.
CurrentWith(h) ==
    LET request == handling[h].request
    IN  [current[handling[h].review] EXCEPT
            ![request.attribute] = NewDecision(handling[h].session, request)]

list_current_decisions(h) ==
    /\ handling[h].pc = "list"
    /\ handling' = [handling EXCEPT ![h].pc = "append", ![h].view = CurrentWith(h)]
    /\ UNCHANGED <<stored, results>>

\* Mutant: only the sequence is checked.
MayAppend_new_sequence(r, session) == decisions[r][session.decision_count + 1] = None

\* The conditions of append_decision's transaction.
MayAppend(r, session) ==
    /\ sessions[r].version = session.version
    /\ sessions[r].status = "OPEN"
    /\ decisions[r][session.decision_count + 1] = None

\* The decision replaces the CURRENT# record of its attribute.
CurrentAfter(r, decision) == [current EXCEPT ![r][decision.attribute] = decision]

\* append_decision: DECISION#, CURRENT# and META in one transaction, which
\* leaves the status alone.
append_decision(h) ==
    LET r == handling[h].review
        session == handling[h].session
        decision == NewDecision(session, handling[h].request)
    IN  /\ handling[h].pc = "append"
        /\ Finish(h)
        /\ \/ /\ MayAppend(r, session)
              /\ decisions' = [decisions EXCEPT ![r][decision.sequence] = decision]
              /\ current' = CurrentAfter(r, decision)
              /\ sessions' = [sessions EXCEPT ![r] =
                    [after_decision(session, handling[h].view) EXCEPT !.status = sessions[r].status]]
           \/ UNCHANGED <<decisions, current, sessions>>
        /\ UNCHANGED <<guard, results>>

\* complete_review, up to _assert_writable.
complete_review(h, r) ==
    /\ handling[h].pc = "idle"
    /\ sessions[r].status = "OPEN"
    /\ handling' = [handling EXCEPT ![h] =
          [Idle EXCEPT !.pc = "check", !.review = r, !.session = sessions[r]]]
    /\ UNCHANGED <<stored, results>>

\* Mutant: the unresolved attributes are not listed.
MayComplete_counts_agree(session, view) ==
    /\ session.required_resolved = RequiredResolved(view)
    /\ session.optional_resolved = OptionalResolved(view)

\* Everything required is resolved and the counts of META agree.
MayComplete(session, view) ==
    /\ \A a \in RequiredAttributes : IsResolved(view, a)
    /\ session.required_resolved = RequiredResolved(view)
    /\ session.optional_resolved = OptionalResolved(view)

\* complete_review: list the current decisions and check them.
check_resolved(h) ==
    LET view == current[handling[h].review]
    IN  /\ handling[h].pc = "check"
        /\ IF MayComplete(handling[h].session, view)
           THEN handling' = [handling EXCEPT ![h].pc = "complete", ![h].view = view]
           ELSE Finish(h)
        /\ UNCHANGED <<stored, results>>

\* The condition of DynamoDBProductReviewRepository.complete, which sets the
\* status and the version alone.
MayWriteComplete(r, session) ==
    sessions[r].version = session.version /\ sessions[r].status = "OPEN"

write_complete(h) ==
    LET r == handling[h].review
        session == handling[h].session
    IN  /\ handling[h].pc = "complete"
        /\ Finish(h)
        /\ \/ /\ MayWriteComplete(r, session)
              /\ sessions' = [sessions EXCEPT ![r].status = "COMPLETED",
                                               ![r].version = session.version + 1]
           \/ UNCHANGED sessions
        /\ UNCHANGED <<guard, decisions, current, results>>

(* ---------------------------- materialization -------------------------- *)

\* Mutant: the status of the review is not checked.
IsMaterializable_any_status(r) == Exists(r)

\* materialize_for_job reads the review, its result (through an index that may
\* not show it yet) and, once it is known to be completed, the CURRENT# records.
IsMaterializable(r) == sessions[r].status = "COMPLETED"

read_review(j, r) ==
    /\ materializing[j].pc = "pending"
    /\ IsMaterializable(r)
    /\ materializing' = [materializing EXCEPT ![j] =
          [pc |-> "resolve", review |-> r, view |-> current[r]]]
    /\ UNCHANGED <<stored, handling, materializations>>

\* ReviewDecisionResolver.resolve accepts the records: every CURRENT# record
\* is the latest decision about its attribute.
Resolves(view, history) ==
    \A a \in Attributes : view[a] # None =>
        /\ history[view[a].sequence] = view[a]
        /\ view[a].attribute = a
        /\ \A n \in DOMAIN history :
              history[n] # None /\ history[n].attribute = a => n <= view[a].sequence

\* materialize_for_job, after list_decisions: a refused job stays PENDING.
resolve(j) ==
    /\ materializing[j].pc = "resolve"
    /\ materializing' = [materializing EXCEPT ![j].pc =
          IF Resolves(materializing[j].view, decisions[materializing[j].review])
          THEN "run" ELSE "refused"]
    /\ UNCHANGED <<stored, handling, materializations>>

\* ReviewedAttributeMaterializationEngine.materialize accepts the decision.
Materializes(decision) ==
    LET a == decision.attribute
    IN  CASE decision.type = "APPROVE_PROPOSED"  -> decision.candidate = PrimaryCandidate[a]
          [] decision.type = "APPROVE_CANDIDATE" -> decision.candidate \in ReviewCandidates[a]
          [] OTHER -> TRUE

\* The engine accepts the view: an unresolved attribute must be optional.
Materializable(view) ==
    \A a \in Attributes :
        IF IsResolved(view, a) THEN Materializes(view[a]) ELSE a \notin RequiredAttributes

FinalReviewedAttributeSet(view) ==
    [a \in Attributes |-> IF IsResolved(view, a) THEN view[a] ELSE None]

Unmaterialized(r) == materializations[r] = None

\* materialize_for_job, from RUNNING on: META and guard are one transaction,
\* the attributes follow one by one.
materialize(j) ==
    LET r == materializing[j].review
        view == materializing[j].view
    IN  /\ materializing[j].pc = "run"
        /\ \/ /\ Materializable(view) /\ Unmaterialized(r)
              /\ \E whole \in BOOLEAN :
                    /\ materializations' = [materializations EXCEPT ![r] =
                          [attributes |-> FinalReviewedAttributeSet(view), whole |-> whole]]
                    /\ materializing' = [materializing EXCEPT ![j].pc =
                          IF whole THEN "completed" ELSE "failed"]
           \/ /\ materializing' = [materializing EXCEPT ![j].pc = "failed"]
              /\ UNCHANGED materializations
        /\ UNCHANGED <<stored, handling>>

(* ------------------------------ next state ----------------------------- *)

Reviewing(h) ==
    \/ \E r \in ReviewIds :
          \/ create_review(h, r)
          \/ complete_review(h, r)
          \/ \E request \in Request : submit_decision(h, r, request)
    \/ create(h)
    \/ list_current_decisions(h)
    \/ append_decision(h)
    \/ check_resolved(h)
    \/ write_complete(h)

Running(j) ==
    \/ \E r \in ReviewIds : read_review(j, r)
    \/ resolve(j)
    \/ materialize(j)

Next == (\E h \in Handlers : Reviewing(h)) \/ (\E j \in Jobs : Running(j))

Spec == Init /\ [][Next]_vars

(* ------------------------------ properties ----------------------------- *)

\* A selection is reviewed once: two create_review calls that both found no
\* review leave one session, the one the guard points at.
OneReviewPerSelection == \A r \in ReviewIds : Exists(r) <=> guard = r

\* META says what the DECISION# and CURRENT# records say, although its counts
\* were computed from records read after META was: the sequences have no gap,
\* the version counts the writes, and the resolution counts are those of the
\* current decisions.
MetaAgrees ==
    \A r \in ReviewIds : Exists(r) =>
        LET session == sessions[r]
        IN  /\ {n \in 1 .. MaxDecisions : decisions[r][n] # None} = 1 .. session.decision_count
            /\ session.version =
                  session.decision_count + IF session.status = "COMPLETED" THEN 2 ELSE 1
            /\ session.required_resolved = RequiredResolved(current[r])
            /\ session.optional_resolved = OptionalResolved(current[r])

\* The CURRENT# records are the latest decisions about their attributes and no
\* decided attribute is without one, so neither get_by_id nor the resolver
\* finds a review they refuse.
CurrentIsLatest ==
    \A r \in ReviewIds :
        /\ Resolves(current[r], decisions[r])
        /\ \A n \in 1 .. MaxDecisions :
              decisions[r][n] # None => current[r][decisions[r][n].attribute] # None

\* The records of a selection's review agree in every state, between any two
\* writes of any two reviewers: one review, the guard's, whose META, DECISION#
\* and CURRENT# records tell the same story.
ReviewRecordsAgree == OneReviewPerSelection /\ MetaAgrees /\ CurrentIsLatest

\* A completed review has a resolving decision for every required attribute,
\* whatever other reviewers submitted while it was being completed.
CompletedIsResolved ==
    \A r \in ReviewIds : sessions[r].status = "COMPLETED" =>
        \A a \in RequiredAttributes : IsResolved(current[r], a)

\* History is append-only and a completed review never changes again: not even
\* by a handler that read it while it was open.
HistoryIsFinal ==
    [][\A r \in ReviewIds :
          /\ \A n \in 1 .. MaxDecisions :
                decisions[r][n] # None => decisions'[r][n] = decisions[r][n]
          /\ sessions[r].status = "COMPLETED" =>
                /\ sessions'[r] = sessions[r]
                /\ current'[r] = current[r]
                /\ decisions'[r] = decisions[r]]_vars

\* What is materialized is what the completed review decided, attribute by
\* attribute, and nothing of a review that is still open.
MaterializedAsDecided ==
    \A r \in ReviewIds : materializations[r] # None =>
        /\ sessions[r].status = "COMPLETED"
        /\ materializations[r].attributes = FinalReviewedAttributeSet(current[r])

\* A materialization is never overwritten and belongs to one job.
OneMaterialization ==
    [][\A r \in ReviewIds :
          materializations[r] # None => materializations'[r] = materializations[r]]_vars

AcceptableDecisions == {d \in AttributeReviewDecision : Accepts(d)}

\* The review as its readers see it: the one the guard names, by its META and
\* DECISION# records and its materialization.
ReviewOfSelection == INSTANCE SelectionReview WITH
    Acceptable <- AcceptableDecisions,
    status  <- IF guard = None THEN "ABSENT" ELSE sessions[guard].status,
    history <- IF guard = None THEN << >>
               ELSE [n \in 1 .. sessions[guard].decision_count |-> decisions[guard][n]],
    outcome <- IF guard = None \/ materializations[guard] = None THEN None
               ELSE materializations[guard].attributes

\* Racing reviewers, each of whom decides on what was read a while ago, make
\* one list of decisions, complete it once it settles what is required, and
\* nothing is done to it afterwards.
ImplementsReview == ReviewOfSelection!ReviewSpec

\* What the review chain has stored for good stays: a decision, a completed
\* review and its materialization, whatever a slow handler or job still writes.
StoredForGood == HistoryIsFinal /\ OneMaterialization

===============================================================================
