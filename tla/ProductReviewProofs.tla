-------------------------- MODULE ProductReviewProofs --------------------------
(***************************************************************************)
(* Proofs about ProductReview, for any number of reviewers, reviews,       *)
(* attributes, decisions and jobs.                                         *)
(*                                                                         *)
(* A write is conditional on the version its handler has read, while the   *)
(* counts and the completion check come from a second read.  That they fit *)
(* together is what ReadsOK says: as long as the version is the one that   *)
(* was read, so are the session and the current decisions.                 *)
(***************************************************************************)
EXTENDS ProductReview, FiniteSetTheorems, SequenceTheorems, TLAPS

NoHistory == [n \in 1 .. MaxDecisions |-> None]

\* What the conditional writes rely on in what a handler has read.
ReadsOK(x) ==
    /\ x.pc # "idle" => x.review \in ReviewIds
    /\ x.pc \in {"list", "append", "check", "complete"} =>
          /\ Exists(x.review)
          /\ x.session.status = "OPEN"
          /\ x.session.version <= sessions[x.review].version
          /\ x.session.version = sessions[x.review].version => x.session = sessions[x.review]
    /\ x.pc \in {"list", "append"} =>
          /\ x.request \in Request
          /\ Accepts(x.request)
          /\ x.session.decision_count < MaxDecisions
    /\ x.pc = "append" /\ x.session.version = sessions[x.review].version =>
          x.view = [current[x.review] EXCEPT ![x.request.attribute] =
                       NewDecision(x.session, x.request)]
    /\ x.pc = "complete" =>
          /\ \A a \in RequiredAttributes : IsResolved(x.view, a)
          /\ x.session.version = sessions[x.review].version => x.view = current[x.review]

\* A job runs on the frozen decisions of a completed review.
JobReadsOK(x) ==
    x.pc \in {"resolve", "run"} =>
        /\ x.review \in ReviewIds
        /\ sessions[x.review].status = "COMPLETED"
        /\ x.view = current[x.review]

\* A review that was not created has no records.
NoStrayRecords ==
    \A r \in ReviewIds : ~Exists(r) =>
        sessions[r] = NoSession /\ decisions[r] = NoHistory /\ current[r] = NoView

StoredInv ==
    /\ OneReviewPerSelection
    /\ MetaAgrees
    /\ CurrentIsLatest
    /\ CompletedIsResolved
    /\ NoStrayRecords

IInv ==
    /\ TypeOK
    /\ StoredInv
    /\ MaterializedAsDecided
    /\ \A h \in Handlers : ReadsOK(handling[h])
    /\ \A j \in Jobs : JobReadsOK(materializing[j])

-------------------------------------------------------------------------------
(* Operators *)

\* The resolution counts are numbers.
LEMMA CountsAreNumbers ==
    ASSUME NEW view
    PROVE  RequiredResolved(view) \in Nat /\ OptionalResolved(view) \in Nat
<1>1. IsFiniteSet(RequiredAttributes) /\ IsFiniteSet(Attributes \ RequiredAttributes)
  BY SelectionAssumption, FS_Subset
<1>2. IsFiniteSet(Resolved(view, RequiredAttributes))
  BY <1>1, FS_Subset DEF Resolved
<1>3. IsFiniteSet(Resolved(view, Attributes \ RequiredAttributes))
  BY <1>1, FS_Subset DEF Resolved
<1> QED BY <1>2, <1>3, FS_CardinalityType DEF RequiredResolved, OptionalResolved

\* Nothing is resolved before the first decision.
LEMMA NothingResolved == RequiredResolved(NoView) = 0 /\ OptionalResolved(NoView) = 0
<1>1. Resolved(NoView, RequiredAttributes) = {}
  BY SelectionAssumption DEF Resolved, IsResolved, NoView
<1>2. Resolved(NoView, Attributes \ RequiredAttributes) = {}
  BY DEF Resolved, IsResolved, NoView
<1> QED BY <1>1, <1>2, FS_EmptySet DEF RequiredResolved, OptionalResolved

\* A decision within the limit is a decision, and not None.
LEMMA NewDecisionType ==
    ASSUME NEW session \in ProductReviewSession, NEW request \in Request,
           session.decision_count < MaxDecisions
    PROVE  /\ NewDecision(session, request) \in AttributeReviewDecision
           /\ NewDecision(session, request) # None
           /\ NewDecision(session, request).sequence = session.decision_count + 1
           /\ NewDecision(session, request).attribute = request.attribute
<1>1. session.decision_count + 1 \in 1 .. MaxDecisions
  BY SelectionAssumption DEF ProductReviewSession
<1>2. NewDecision(session, request) \in AttributeReviewDecision
  BY <1>1 DEF NewDecision, AttributeReviewDecision, Request
<1> QED BY <1>2, NoneAssumption DEF NewDecision

\* What after_decision makes of a session.
LEMMA AfterDecisionType ==
    ASSUME NEW session \in ProductReviewSession, NEW view, session.decision_count < MaxDecisions
    PROVE  /\ after_decision(session, view) \in ProductReviewSession
           /\ after_decision(session, view).status = session.status
           /\ after_decision(session, view).version = session.version + 1
           /\ after_decision(session, view).decision_count = session.decision_count + 1
           /\ after_decision(session, view).required_resolved = RequiredResolved(view)
           /\ after_decision(session, view).optional_resolved = OptionalResolved(view)
<1>1. PICK v \in Nat, c \in 0 .. MaxDecisions, q \in Nat, o \in Nat :
         /\ v = session.version + 1 /\ c = session.decision_count + 1
         /\ q = RequiredResolved(view) /\ o = OptionalResolved(view)
  BY CountsAreNumbers, SelectionAssumption DEF ProductReviewSession
<1>2. PICK mid : mid = [session EXCEPT !.version = v, !.decision_count = c,
                                       !.required_resolved = q, !.optional_resolved = o]
  OBVIOUS
<1>3. mid = after_decision(session, view)
  BY <1>1, <1>2 DEF after_decision
<1>4. /\ mid \in ProductReviewSession /\ mid.version = v /\ mid.decision_count = c
      /\ mid.required_resolved = q /\ mid.optional_resolved = o
      /\ mid.status = session.status
  BY <1>2 DEF ProductReviewSession
<1> QED BY <1>1, <1>3, <1>4

\* A handler that is done has read nothing.
LEMMA IdleType == Idle \in Handling /\ Idle.pc = "idle"
<1>1. NoSession \in ProductReviewSession
  BY SelectionAssumption DEF NoSession, ProductReviewSession
<1>2. NoView \in View
  BY DEF NoView, View
<1> QED BY <1>1, <1>2 DEF Idle, Handling

-------------------------------------------------------------------------------
(* Steps that change only what one handler, or one job, has read *)

\* A handler that reads something ReadsOK accepts keeps the invariant.
LEMMA HandlerReadsStep ==
    ASSUME IInv, NEW h \in Handlers, NEW x \in Handling, ReadsOK(x),
           handling' = [handling EXCEPT ![h] = x],
           UNCHANGED <<stored, results>>
    PROVE  IInv'
<1> USE DEF stored, results
<1>1. TypeOK'
  BY DEF IInv, TypeOK
<1>2. StoredInv'
  BY DEF IInv, StoredInv, OneReviewPerSelection, MetaAgrees, CurrentIsLatest,
         CompletedIsResolved, NoStrayRecords, Exists
<1>3. MaterializedAsDecided'
  BY DEF IInv, MaterializedAsDecided
<1>4. ASSUME NEW o \in Handlers PROVE ReadsOK(handling[o])'
  <2>1. handling'[o] = x \/ handling'[o] = handling[o]
    BY DEF IInv, TypeOK
  <2>2. ReadsOK(handling'[o])
    BY <2>1 DEF IInv
  <2> QED BY <2>2 DEF ReadsOK, Exists
<1>5. \A j \in Jobs : JobReadsOK(materializing[j])'
  BY DEF IInv, JobReadsOK
<1> QED BY <1>1, <1>2, <1>3, <1>4, <1>5 DEF IInv

\* So does a handler that gives up.
LEMMA FinishStep ==
    ASSUME IInv, NEW h \in Handlers, Finish(h), UNCHANGED <<stored, results>>
    PROVE  IInv'
<1>1. ReadsOK(Idle)
  BY IdleType DEF ReadsOK
<1> QED BY <1>1, IdleType, HandlerReadsStep DEF Finish

\* create_review remembers only the identifier it will write.
LEMMA CreateReviewStep ==
    ASSUME IInv, NEW h \in Handlers, NEW r \in ReviewIds, create_review(h, r)
    PROVE  IInv'
<1> DEFINE x == [Idle EXCEPT !.pc = "create", !.review = r]
<1>1. x \in Handling /\ x.pc = "create" /\ x.review = r
  BY IdleType DEF Handling
<1>2. ReadsOK(x)
  BY <1>1 DEF ReadsOK
<1>3. handling' = [handling EXCEPT ![h] = x] /\ UNCHANGED <<stored, results>>
  BY DEF create_review
<1> QED BY <1>1, <1>2, <1>3, HandlerReadsStep

\* submit_decision starts from the stored session.
LEMMA SubmitStep ==
    ASSUME IInv, NEW h \in Handlers, NEW r \in ReviewIds, NEW request \in Request,
           submit_decision(h, r, request)
    PROVE  IInv'
<1> DEFINE x == [Idle EXCEPT !.pc = "list", !.review = r, !.session = sessions[r],
                             !.request = request]
<1>1. sessions[r] \in ProductReviewSession
  BY DEF IInv, TypeOK
<1>2. /\ x \in Handling /\ x.pc = "list" /\ x.review = r
      /\ x.session = sessions[r] /\ x.request = request
  BY <1>1, IdleType DEF Handling
<1>3. sessions[r].status = "OPEN" /\ sessions[r].decision_count < MaxDecisions
  BY DEF submit_decision, UnderLimit
<1>a. Accepts(x.request)
  BY <1>2 DEF submit_decision
<1>4. sessions[r].version <= sessions[r].version
  BY <1>1 DEF ProductReviewSession
<1>5. ReadsOK(x)
  <2> HIDE DEF x
  <2> QED BY <1>2, <1>3, <1>a, <1>4 DEF ReadsOK, Exists
<1>6. handling' = [handling EXCEPT ![h] = x] /\ UNCHANGED <<stored, results>>
  BY DEF submit_decision
<1> QED BY <1>2, <1>5, <1>6, HandlerReadsStep

\* complete_review starts from the stored session.
LEMMA CompleteReviewStep ==
    ASSUME IInv, NEW h \in Handlers, NEW r \in ReviewIds, complete_review(h, r)
    PROVE  IInv'
<1> DEFINE x == [Idle EXCEPT !.pc = "check", !.review = r, !.session = sessions[r]]
<1>1. sessions[r] \in ProductReviewSession
  BY DEF IInv, TypeOK
<1>2. x \in Handling /\ x.pc = "check" /\ x.review = r /\ x.session = sessions[r]
  BY <1>1, IdleType DEF Handling
<1>3. sessions[r].status = "OPEN"
  BY DEF complete_review
<1>4. sessions[r].version <= sessions[r].version
  BY <1>1 DEF ProductReviewSession
<1>5. ReadsOK(x)
  <2> HIDE DEF x
  <2> QED BY <1>2, <1>3, <1>4 DEF ReadsOK, Exists
<1>6. handling' = [handling EXCEPT ![h] = x] /\ UNCHANGED <<stored, results>>
  BY DEF complete_review
<1> QED BY <1>2, <1>5, <1>6, HandlerReadsStep

\* list_current_decisions reads the current decisions of the version that the
\* handler remembers, or the append will be refused.
LEMMA ListStep ==
    ASSUME IInv, NEW h \in Handlers, list_current_decisions(h)
    PROVE  IInv'
<1> DEFINE y == handling[h]
           x == [y EXCEPT !.pc = "append", !.view = CurrentWith(h)]
<1>1. y \in Handling /\ y.pc = "list" /\ ReadsOK(y)
  BY DEF IInv, TypeOK, list_current_decisions
<1>2. /\ y.review \in ReviewIds /\ y.request \in Request /\ y.session \in ProductReviewSession
      /\ y.session.decision_count < MaxDecisions
  BY <1>1 DEF ReadsOK, Handling
<1>3. CurrentWith(h) = [current[y.review] EXCEPT ![y.request.attribute] =
                           NewDecision(y.session, y.request)]
  BY DEF CurrentWith
<1>4. CurrentWith(h) \in View
  <2>1. current[y.review] \in View
    BY <1>2 DEF IInv, TypeOK
  <2>2. NewDecision(y.session, y.request) \in AttributeReviewDecision
    BY <1>2, NewDecisionType
  <2> QED BY <1>3, <2>1, <2>2 DEF View
<1>5. /\ x \in Handling /\ x.pc = "append" /\ x.review = y.review /\ x.session = y.session
      /\ x.request = y.request /\ x.view = CurrentWith(h)
  BY <1>1, <1>4 DEF Handling
<1>6. ReadsOK(x)
  <2> HIDE DEF x, y
  <2> QED BY <1>1, <1>2, <1>3, <1>5 DEF ReadsOK
<1>7. handling' = [handling EXCEPT ![h] = x] /\ UNCHANGED <<stored, results>>
  BY DEF list_current_decisions, IInv, TypeOK
<1> QED BY <1>5, <1>6, <1>7, HandlerReadsStep

\* A check that passes on an old version leads to a refused write.
LEMMA CheckStep ==
    ASSUME IInv, NEW h \in Handlers, check_resolved(h)
    PROVE  IInv'
<1> DEFINE y == handling[h]
           view == current[y.review]
           x == [y EXCEPT !.pc = "complete", !.view = view]
<1>1. y \in Handling /\ y.pc = "check" /\ ReadsOK(y)
  BY DEF IInv, TypeOK, check_resolved
<1>2. y.review \in ReviewIds
  BY <1>1 DEF ReadsOK
<1>3. view \in View
  BY <1>2 DEF IInv, TypeOK
<1>4. /\ x \in Handling /\ x.pc = "complete" /\ x.review = y.review
      /\ x.session = y.session /\ x.view = view
  BY <1>1, <1>3 DEF Handling
<1>5. CASE MayComplete(y.session, view)
  <2>1. ReadsOK(x)
    <3> HIDE DEF x, y
    <3> QED BY <1>1, <1>4, <1>5 DEF ReadsOK, MayComplete
  <2>2. handling' = [handling EXCEPT ![h] = x] /\ UNCHANGED <<stored, results>>
    BY <1>5 DEF check_resolved, IInv, TypeOK
  <2> QED BY <1>4, <2>1, <2>2, HandlerReadsStep
<1>6. CASE ~MayComplete(y.session, view)
  <2>1. Finish(h) /\ UNCHANGED <<stored, results>>
    BY <1>6 DEF check_resolved
  <2> QED BY <2>1, FinishStep
<1> QED BY <1>5, <1>6

\* A job that learns something JobReadsOK accepts keeps the invariant.
LEMMA JobReadsStep ==
    ASSUME IInv, NEW j \in Jobs, NEW x \in Materializing, JobReadsOK(x),
           materializing' = [materializing EXCEPT ![j] = x],
           MaterializedAsDecided',
           materializations' \in [ReviewIds -> Materialization \cup {None}],
           UNCHANGED <<stored, handling>>
    PROVE  IInv'
<1> USE DEF stored
<1>1. TypeOK'
  BY DEF IInv, TypeOK
<1>2. StoredInv'
  BY DEF IInv, StoredInv, OneReviewPerSelection, MetaAgrees, CurrentIsLatest,
         CompletedIsResolved, NoStrayRecords, Exists
<1>3. \A h \in Handlers : ReadsOK(handling[h])'
  BY DEF IInv, ReadsOK, Exists
<1>4. ASSUME NEW k \in Jobs PROVE JobReadsOK(materializing[k])'
  <2>1. materializing'[k] = x \/ materializing'[k] = materializing[k]
    BY DEF IInv, TypeOK
  <2>2. JobReadsOK(materializing'[k])
    BY <2>1 DEF IInv
  <2> QED BY <2>2 DEF JobReadsOK
<1> QED BY <1>1, <1>2, <1>3, <1>4 DEF IInv

-------------------------------------------------------------------------------
(* Writes *)

\* What a write of review r leaves alone: it changes no other review, makes
\* every copy of r stale, and r was not frozen.
LEMMA WriteStep ==
    ASSUME IInv, NEW h \in Handlers, NEW r \in ReviewIds, NEW session \in ProductReviewSession,
           Finish(h), UNCHANGED results,
           sessions' = [sessions EXCEPT ![r] = session],
           current' \in [ReviewIds -> View],
           \A q \in ReviewIds \ {r} : current'[q] = current[q],
           session.status # "ABSENT",
           session.version > sessions[r].version,
           sessions[r].status # "COMPLETED",
           TypeOK', StoredInv'
    PROVE  IInv'
<1>1. MaterializedAsDecided'
  BY DEF IInv, MaterializedAsDecided, TypeOK, results
<1>2. ASSUME NEW o \in Handlers PROVE ReadsOK(handling[o])'
  <2>1. CASE handling'[o] = Idle
    BY <2>1, IdleType DEF ReadsOK
  <2>2. CASE handling'[o] = handling[o]
    <3>1. PICK x \in Handling : x = handling[o]
      BY DEF IInv, TypeOK
    <3>2. ReadsOK(x) /\ x.session \in ProductReviewSession /\ sessions[r] \in ProductReviewSession
      BY <3>1 DEF IInv, TypeOK, Handling
    <3>3. x.pc # "idle" => x.review \in ReviewIds
      BY <3>2 DEF ReadsOK
    <3>4. ReadsOK(x)'
      <4>1. CASE x.review # r
        <5>1. x.pc # "idle" => /\ sessions'[x.review] = sessions[x.review]
                               /\ current'[x.review] = current[x.review]
          BY <3>3, <4>1 DEF IInv, TypeOK
        <5> QED BY <3>2, <3>3, <5>1 DEF ReadsOK, Exists
      <4>2. CASE x.review = r
        <5>1. sessions'[r] = session
          BY DEF IInv, TypeOK
        <5>2. x.pc \in {"list", "append", "check", "complete"} =>
                 /\ x.session.version <= session.version
                 /\ x.session.version # session.version
          BY <3>2, <4>2 DEF ReadsOK, ProductReviewSession
        <5> QED BY <3>2, <4>2, <5>1, <5>2 DEF ReadsOK, Exists
      <4> QED BY <4>1, <4>2
    <3> QED BY <2>2, <3>1, <3>4 DEF ReadsOK, Exists
  <2> QED BY <2>1, <2>2 DEF Finish, IInv, TypeOK
<1>3. ASSUME NEW j \in Jobs PROVE JobReadsOK(materializing[j])'
  BY DEF IInv, JobReadsOK, TypeOK, results
<1> QED BY <1>1, <1>2, <1>3 DEF IInv

\* create stores a review and the guard that names it together, or nothing.
LEMMA CreateStep ==
    ASSUME IInv, NEW h \in Handlers, create(h)
    PROVE  IInv'
<1> DEFINE r == handling[h].review
<1>1. r \in ReviewIds
  BY DEF IInv, ReadsOK, create
<1>2. Finish(h) /\ UNCHANGED <<decisions, current, results>>
  BY DEF create
<1>3. CASE UNCHANGED <<guard, sessions>>
  BY <1>2, <1>3, FinishStep DEF stored
<1>4. CASE MayCreate(r) /\ guard' = r /\ sessions' = [sessions EXCEPT ![r] = NewSession]
  <2> HIDE DEF r
  <2>1. /\ NewSession \in ProductReviewSession /\ NewSession.status = "OPEN"
        /\ NewSession.version = 1 /\ NewSession.decision_count = 0
        /\ NewSession.required_resolved = 0 /\ NewSession.optional_resolved = 0
    <3>1. /\ NoSession \in ProductReviewSession
          /\ NoSession.decision_count = 0
          /\ NoSession.required_resolved = 0 /\ NoSession.optional_resolved = 0
      BY SelectionAssumption DEF NoSession, ProductReviewSession
    <3> QED BY <3>1 DEF NewSession, ProductReviewSession
  <2>2. /\ sessions'[r] = NewSession
        /\ \A q \in ReviewIds \ {r} : sessions'[q] = sessions[q]
    BY <1>1, <1>4 DEF IInv, TypeOK
  <2>3. TypeOK'
    BY <1>1, <1>2, <1>4, <2>1, IdleType DEF IInv, TypeOK, Finish, results
  <2>4. \A q \in ReviewIds : ~Exists(q)
    BY <1>4, SelectionAssumption DEF MayCreate, IInv, StoredInv, OneReviewPerSelection
  <2>5. sessions[r] = NoSession /\ decisions[r] = NoHistory /\ current[r] = NoView
    BY <1>1, <2>4 DEF IInv, StoredInv, NoStrayRecords
  <2>6. OneReviewPerSelection'
    BY <1>1, <1>4, <2>1, <2>2, <2>4 DEF OneReviewPerSelection, Exists
  <2>7. MetaAgrees'
    <3>1. \A q \in ReviewIds : Exists(q)' => q = r
      BY <2>2, <2>4 DEF Exists
    <3>2. {n \in 1 .. MaxDecisions : decisions'[r][n] # None} = 1 .. 0
      BY <1>2, <2>5, SelectionAssumption DEF NoHistory
    <3>3. current'[r] = NoView
      BY <1>2, <2>5
    <3> QED BY <2>1, <2>2, <3>1, <3>2, <3>3, NothingResolved DEF MetaAgrees
  <2>8. CurrentIsLatest'
    BY <1>2 DEF IInv, StoredInv, CurrentIsLatest
  <2>9. CompletedIsResolved'
    BY <1>2, <2>1, <2>2 DEF IInv, StoredInv, CompletedIsResolved
  <2>10. NoStrayRecords'
    BY <1>2, <2>1, <2>2 DEF IInv, StoredInv, NoStrayRecords, Exists
  <2>11. /\ NewSession.version > sessions[r].version
         /\ sessions[r].status # "COMPLETED"
    BY <2>1, <2>5 DEF NoSession
  <2> QED BY <1>1, <1>2, <1>4, <2>1, <2>3, <2>6, <2>7, <2>8, <2>9, <2>10, <2>11, WriteStep
          DEF StoredInv, TypeOK, IInv
<1> QED BY <1>3, <1>4 DEF create

\* append_decision keeps META, DECISION# and CURRENT# together.
LEMMA AppendStep ==
    ASSUME IInv, NEW h \in Handlers, append_decision(h)
    PROVE  IInv'
<1> DEFINE r == handling[h].review
           session == handling[h].session
           view == handling[h].view
           request == handling[h].request
           decision == NewDecision(session, request)
           next == [after_decision(session, view) EXCEPT !.status = sessions[r].status]
           n == session.decision_count + 1
<1>1. Finish(h) /\ UNCHANGED <<guard, results>>
  BY DEF append_decision
<1>2. CASE UNCHANGED <<decisions, current, sessions>>
  BY <1>1, <1>2, FinishStep DEF stored
<1>3. CASE /\ MayAppend(r, session)
           /\ decisions' = [decisions EXCEPT ![r][decision.sequence] = decision]
           /\ current' = CurrentAfter(r, decision)
           /\ sessions' = [sessions EXCEPT ![r] = next]
  <2>1. /\ r \in ReviewIds /\ request \in Request /\ session \in ProductReviewSession
        /\ Exists(r) /\ session.status = "OPEN" /\ session.decision_count < MaxDecisions
        /\ sessions[r].version = session.version /\ sessions[r].status = "OPEN"
        /\ decisions[r][n] = None
        /\ session = sessions[r]
        /\ view = [current[r] EXCEPT ![request.attribute] = decision]
        /\ view \in View
    <3>1. handling[h] \in Handling /\ ReadsOK(handling[h]) /\ handling[h].pc = "append"
      BY DEF IInv, TypeOK, append_decision
    <3> QED BY <1>3, <3>1 DEF ReadsOK, Handling, MayAppend
  <2>2. /\ decision \in AttributeReviewDecision /\ decision # None
        /\ decision.sequence = n /\ decision.attribute = request.attribute
    BY <2>1, NewDecisionType
  <2>3. /\ n \in 1 .. MaxDecisions /\ session.decision_count \in Nat
        /\ n = session.decision_count + 1
        /\ request.attribute \in Attributes
    BY <2>1, SelectionAssumption DEF ProductReviewSession, Request
  <2>5. /\ next \in ProductReviewSession /\ next.status = "OPEN"
        /\ next.version = session.version + 1 /\ next.decision_count = n
        /\ next.required_resolved = RequiredResolved(view)
        /\ next.optional_resolved = OptionalResolved(view)
    <3> DEFINE mid == after_decision(session, view)
    <3> HIDE DEF session, view, next, mid
    <3>1. /\ mid \in ProductReviewSession /\ mid.version = session.version + 1
          /\ mid.decision_count = session.decision_count + 1
          /\ mid.required_resolved = RequiredResolved(view)
          /\ mid.optional_resolved = OptionalResolved(view)
      BY <2>1, AfterDecisionType DEF mid
    <3>2. next = [mid EXCEPT !.status = "OPEN"]
      BY <2>1 DEF next, mid, r, session, view
    <3> QED BY <3>1, <3>2 DEF ProductReviewSession
  <2> HIDE DEF r, session, view, request, decision, next, n
  <2>6. /\ sessions'[r] = next /\ current'[r] = view
        /\ decisions'[r] = [decisions[r] EXCEPT ![n] = decision]
        /\ \A q \in ReviewIds \ {r} :
              /\ sessions'[q] = sessions[q]
              /\ current'[q] = current[q]
              /\ decisions'[q] = decisions[q]
    BY <1>3, <2>1, <2>2 DEF IInv, TypeOK, CurrentAfter
  <2>7. TypeOK'
    <3>1. sessions' \in [ReviewIds -> ProductReviewSession]
      BY <1>3, <2>5 DEF IInv, TypeOK
    <3>2. decisions' \in [ReviewIds -> [1 .. MaxDecisions -> AttributeReviewDecision \cup {None}]]
      BY <1>3, <2>1, <2>2, <2>3 DEF IInv, TypeOK
    <3>3. current' \in [ReviewIds -> View]
      BY <1>3, <2>1, <2>2, <2>3 DEF IInv, TypeOK, CurrentAfter, View
    <3> QED BY <1>1, <3>1, <3>2, <3>3, IdleType DEF IInv, TypeOK, Finish, results
  <2>8. /\ decisions[r] \in [1 .. MaxDecisions -> AttributeReviewDecision \cup {None}]
        /\ current[r] \in View
        /\ {m \in 1 .. MaxDecisions : decisions[r][m] # None} = 1 .. session.decision_count
        /\ session.version = session.decision_count + 1
        /\ Resolves(current[r], decisions[r])
        /\ \A m \in 1 .. MaxDecisions :
              decisions[r][m] # None => current[r][decisions[r][m].attribute] # None
    BY <2>1 DEF IInv, TypeOK, StoredInv, MetaAgrees, CurrentIsLatest
  <2>9. OneReviewPerSelection'
    BY <1>1, <2>1, <2>5, <2>6 DEF IInv, StoredInv, OneReviewPerSelection, Exists
  <2>10. MetaAgrees'
    <3>1. \A m \in 1 .. MaxDecisions : decisions[r][m] # None <=> m <= session.decision_count
      BY <2>3, <2>8
    <3>2. \A m \in 1 .. MaxDecisions :
             decisions'[r][m] = IF m = n THEN decision ELSE decisions[r][m]
      BY <2>3, <2>6, <2>8
    <3>3. {m \in 1 .. MaxDecisions : decisions'[r][m] # None} = 1 .. next.decision_count
      <4>1. \A m \in 1 .. MaxDecisions : decisions'[r][m] # None <=> m \in 1 .. n
        BY <2>2, <2>3, <3>1, <3>2
      <4>2. 1 .. n \subseteq 1 .. MaxDecisions
        BY <2>3, SelectionAssumption
      <4> QED BY <2>5, <4>1, <4>2
    <3>4. next.version = next.decision_count + 1
      BY <2>3, <2>5, <2>8
    <3>5. ASSUME NEW q \in ReviewIds \ {r}, Exists(q)'
          PROVE  Exists(q) /\ sessions'[q] = sessions[q] /\ decisions'[q] = decisions[q]
                 /\ current'[q] = current[q]
      BY <2>6, <3>5 DEF Exists
    <3>6. MetaAgrees
      BY DEF IInv, StoredInv
    <3>7. SUFFICES ASSUME NEW q \in ReviewIds, Exists(q)'
                   PROVE  (/\ {m \in 1 .. MaxDecisions : decisions[q][m] # None} =
                                 1 .. sessions[q].decision_count
                           /\ sessions[q].version = sessions[q].decision_count +
                                 IF sessions[q].status = "COMPLETED" THEN 2 ELSE 1
                           /\ sessions[q].required_resolved = RequiredResolved(current[q])
                           /\ sessions[q].optional_resolved = OptionalResolved(current[q]))'
      BY DEF MetaAgrees
    <3>8. CASE q = r
      BY <2>5, <2>6, <3>3, <3>4, <3>8
    <3>9. CASE q # r
      BY <3>5, <3>6, <3>7, <3>9 DEF MetaAgrees
    <3> QED BY <3>8, <3>9
  <2>11. CurrentIsLatest'
    <3>1. \A m \in 1 .. MaxDecisions : decisions[r][m] # None => m < n
      BY <2>3, <2>8
    <3>2. \A m \in 1 .. MaxDecisions : decisions'[r][m] = IF m = n THEN decision ELSE decisions[r][m]
      BY <2>3, <2>6, <2>8
    <3>3. \A a \in Attributes :
             current'[r][a] = IF a = request.attribute THEN decision ELSE current[r][a]
      BY <2>1, <2>3, <2>6, <2>8 DEF View
    <3>4. DOMAIN decisions[r] = 1 .. MaxDecisions /\ DOMAIN decisions'[r] = 1 .. MaxDecisions
      BY <2>6, <2>8
    <3>5. \A a \in Attributes : current[r][a] # None => current[r][a].sequence \in 1 .. MaxDecisions
      BY <2>8 DEF View, AttributeReviewDecision
    <3>6. \A m \in 1 .. MaxDecisions : decisions[r][m] # None => decisions[r][m].attribute \in Attributes
      BY <2>8 DEF AttributeReviewDecision
    <3>7. Resolves(current'[r], decisions'[r])
      <4>1. ASSUME NEW a \in Attributes, a # request.attribute, current'[r][a] # None
            PROVE  /\ decisions'[r][current'[r][a].sequence] = current'[r][a]
                   /\ current'[r][a].attribute = a
                   /\ \A m \in 1 .. MaxDecisions :
                         decisions'[r][m] # None /\ decisions'[r][m].attribute = a
                         => m <= current'[r][a].sequence
        <5>1. current'[r][a] = current[r][a] /\ current[r][a] # None
          BY <3>3, <4>1
        <5>2. /\ decisions[r][current[r][a].sequence] = current[r][a]
              /\ current[r][a].attribute = a
              /\ \A m \in 1 .. MaxDecisions :
                    decisions[r][m] # None /\ decisions[r][m].attribute = a
                    => m <= current[r][a].sequence
          BY <2>8, <3>4, <5>1 DEF Resolves
        <5>3. current[r][a].sequence \in 1 .. MaxDecisions /\ current[r][a].sequence # n
          BY <2>3, <3>1, <3>5, <5>1, <5>2
        <5> QED BY <2>2, <3>2, <4>1, <5>1, <5>2, <5>3
      <4>2. /\ decisions'[r][decision.sequence] = decision
            /\ decision.attribute = request.attribute
            /\ \A m \in 1 .. MaxDecisions : decisions'[r][m] # None => m <= decision.sequence
        BY <2>2, <2>3, <3>1, <3>2
      <4> QED BY <3>3, <3>4, <4>1, <4>2 DEF Resolves
    <3>8. \A m \in 1 .. MaxDecisions :
             decisions'[r][m] # None => current'[r][decisions'[r][m].attribute] # None
      BY <2>2, <2>3, <2>8, <3>2, <3>3, <3>6
    <3>9. ASSUME NEW q \in ReviewIds \ {r}
          PROVE  decisions'[q] = decisions[q] /\ current'[q] = current[q]
      BY <2>6
    <3> QED BY <3>7, <3>8, <3>9 DEF IInv, StoredInv, CurrentIsLatest
  <2>12. CompletedIsResolved'
    BY <2>5, <2>6 DEF IInv, StoredInv, CompletedIsResolved
  <2>13. NoStrayRecords'
    BY <2>5, <2>6 DEF IInv, StoredInv, NoStrayRecords, Exists
  <2>14. next.version > sessions[r].version
    BY <2>1, <2>5 DEF ProductReviewSession
  <2> QED BY <1>1, <1>3, <2>1, <2>5, <2>6, <2>7, <2>9, <2>10, <2>11, <2>12, <2>13, <2>14, WriteStep
          DEF StoredInv, TypeOK
<1> QED BY <1>2, <1>3 DEF append_decision

\* complete freezes what its handler has checked.
LEMMA WriteCompleteStep ==
    ASSUME IInv, NEW h \in Handlers, write_complete(h)
    PROVE  IInv'
<1> DEFINE r == handling[h].review
           session == handling[h].session
           next == [sessions[r] EXCEPT !.status = "COMPLETED", !.version = session.version + 1]
<1>1. Finish(h) /\ UNCHANGED <<guard, decisions, current, results>>
  BY DEF write_complete
<1>2. CASE UNCHANGED sessions
  BY <1>1, <1>2, FinishStep DEF stored
<1>3. CASE /\ MayWriteComplete(r, session)
           /\ sessions' = [sessions EXCEPT ![r].status = "COMPLETED",
                                           ![r].version = session.version + 1]
  <2>1. /\ r \in ReviewIds /\ session \in ProductReviewSession
        /\ sessions[r].version = session.version /\ sessions[r].status = "OPEN"
        /\ session = sessions[r]
        /\ \A a \in RequiredAttributes : IsResolved(current[r], a)
    <3>1. handling[h] \in Handling /\ ReadsOK(handling[h]) /\ handling[h].pc = "complete"
      BY DEF IInv, TypeOK, write_complete
    <3> QED BY <1>3, <3>1 DEF ReadsOK, Handling, MayWriteComplete
  <2>2. /\ next \in ProductReviewSession /\ next.status = "COMPLETED"
        /\ next.version = session.version + 1
        /\ next.decision_count = session.decision_count
        /\ next.required_resolved = session.required_resolved
        /\ next.optional_resolved = session.optional_resolved
    <3> HIDE DEF r, session, next
    <3>1. session.version + 1 \in Nat
      BY <2>1 DEF ProductReviewSession
    <3>2. next = [session EXCEPT !.status = "COMPLETED", !.version = session.version + 1]
      BY <2>1 DEF next
    <3> QED BY <2>1, <3>1, <3>2 DEF ProductReviewSession
  <2>3. sessions' = [sessions EXCEPT ![r] = next]
    BY <1>3, <2>1 DEF IInv, TypeOK
  <2> HIDE DEF r, session, next
  <2>4. /\ sessions'[r] = next
        /\ \A q \in ReviewIds \ {r} : sessions'[q] = sessions[q]
    BY <2>1, <2>3 DEF IInv, TypeOK
  <2>5. TypeOK'
    BY <1>1, <2>2, <2>3, IdleType DEF IInv, TypeOK, Finish, results
  <2>6. OneReviewPerSelection'
    BY <1>1, <2>1, <2>2, <2>4 DEF IInv, StoredInv, OneReviewPerSelection, Exists
  <2>7. MetaAgrees'
    <3>1. next.version = next.decision_count + 2
      BY <2>1, <2>2 DEF IInv, StoredInv, MetaAgrees, Exists, ProductReviewSession
    <3> QED BY <1>1, <2>1, <2>2, <2>4, <3>1 DEF IInv, StoredInv, MetaAgrees, Exists
  <2>8. CurrentIsLatest'
    BY <1>1 DEF IInv, StoredInv, CurrentIsLatest
  <2>9. CompletedIsResolved'
    BY <1>1, <2>1, <2>4 DEF IInv, StoredInv, CompletedIsResolved
  <2>10. NoStrayRecords'
    BY <1>1, <2>2, <2>4 DEF IInv, StoredInv, NoStrayRecords, Exists
  <2>11. next.version > sessions[r].version
    BY <2>1, <2>2 DEF ProductReviewSession
  <2> QED BY <1>1, <2>1, <2>2, <2>3, <2>5, <2>6, <2>7, <2>8, <2>9, <2>10, <2>11, WriteStep
          DEF StoredInv, TypeOK, IInv
<1> QED BY <1>2, <1>3 DEF write_complete

-------------------------------------------------------------------------------
(* Materialization *)

\* A job that reads a completed review reads decisions that stay as they are.
LEMMA ReadReviewStep ==
    ASSUME IInv, NEW j \in Jobs, NEW r \in ReviewIds, read_review(j, r)
    PROVE  IInv'
<1> DEFINE x == [pc |-> "resolve", review |-> r, view |-> current[r]]
<1>1. x \in Materializing /\ JobReadsOK(x)
  BY DEF IInv, TypeOK, Materializing, JobReadsOK, read_review, IsMaterializable
<1>2. /\ materializing' = [materializing EXCEPT ![j] = x]
      /\ UNCHANGED <<stored, handling, materializations>>
  BY DEF read_review
<1>3. /\ MaterializedAsDecided'
      /\ materializations' \in [ReviewIds -> Materialization \cup {None}]
  BY <1>2 DEF IInv, TypeOK, MaterializedAsDecided, stored
<1> QED BY <1>1, <1>2, <1>3, JobReadsStep

\* resolve changes only how far its job is.
LEMMA ResolveStep ==
    ASSUME IInv, NEW j \in Jobs, resolve(j)
    PROVE  IInv'
<1>1. PICK y \in Materializing, pc \in {"run", "refused"} :
         /\ y = materializing[j] /\ y.pc = "resolve" /\ JobReadsOK(y)
         /\ materializing' = [materializing EXCEPT ![j].pc = pc]
  BY DEF IInv, TypeOK, resolve
<1> DEFINE x == [y EXCEPT !.pc = pc]
<1>2. x \in Materializing /\ x.pc = pc /\ x.review = y.review /\ x.view = y.view
  BY DEF Materializing
<1>3. JobReadsOK(x)
  <2> HIDE DEF x
  <2> QED BY <1>1, <1>2 DEF JobReadsOK
<1>4. /\ materializing' = [materializing EXCEPT ![j] = x]
      /\ UNCHANGED <<stored, handling, materializations>>
  BY <1>1 DEF resolve, IInv, TypeOK
<1>5. /\ MaterializedAsDecided'
      /\ materializations' \in [ReviewIds -> Materialization \cup {None}]
  BY <1>4 DEF IInv, TypeOK, MaterializedAsDecided, stored
<1> QED BY <1>2, <1>3, <1>4, <1>5, JobReadsStep

\* A result that is stored is made from the decisions of a completed review.
LEMMA MaterializeStep ==
    ASSUME IInv, NEW j \in Jobs, materialize(j)
    PROVE  IInv'
<1>1. PICK y \in Materializing :
         /\ y = materializing[j] /\ y.pc = "run" /\ y.review \in ReviewIds /\ y.view \in View
         /\ sessions[y.review].status = "COMPLETED" /\ y.view = current[y.review]
  BY DEF IInv, TypeOK, Materializing, materialize, JobReadsOK
<1>2. UNCHANGED <<stored, handling>>
  BY DEF materialize
<1>3. PICK pc \in {"completed", "failed"} :
         materializing' = [materializing EXCEPT ![j].pc = pc]
  BY DEF materialize
<1>4. PICK m \in Materialization \cup {None} :
         \/ materializations' = [materializations EXCEPT ![y.review] = m]
            /\ m.attributes = FinalReviewedAttributeSet(y.view)
         \/ UNCHANGED materializations
  <2>1. FinalReviewedAttributeSet(y.view) \in View
    BY <1>1 DEF FinalReviewedAttributeSet, View
  <2>2. ASSUME NEW whole \in BOOLEAN
        PROVE  [attributes |-> FinalReviewedAttributeSet(y.view), whole |-> whole] \in Materialization
    BY <2>1 DEF Materialization
  <2>3. CASE UNCHANGED materializations
    BY <2>3
  <2>4. CASE \E whole \in BOOLEAN : materializations' = [materializations EXCEPT ![y.review] =
                [attributes |-> FinalReviewedAttributeSet(y.view), whole |-> whole]]
    <3>1. PICK whole \in BOOLEAN : materializations' = [materializations EXCEPT ![y.review] =
                [attributes |-> FinalReviewedAttributeSet(y.view), whole |-> whole]]
      BY <2>4
    <3>2. PICK m \in Materialization :
             m = [attributes |-> FinalReviewedAttributeSet(y.view), whole |-> whole]
      BY <2>2
    <3>3. m.attributes = FinalReviewedAttributeSet(y.view)
      BY <3>2
    <3>4. materializations' = [materializations EXCEPT ![y.review] = m]
      BY <3>1, <3>2
    <3> QED BY <3>3, <3>4
  <2> QED BY <1>1, <2>3, <2>4 DEF materialize
<1> DEFINE x == [y EXCEPT !.pc = pc]
<1>5. x \in Materializing /\ x.pc = pc
  BY DEF Materializing
<1>6. JobReadsOK(x)
  <2> HIDE DEF x
  <2> QED BY <1>5 DEF JobReadsOK
<1>7. materializing' = [materializing EXCEPT ![j] = x]
  BY <1>1, <1>3 DEF IInv, TypeOK
<1>8. /\ MaterializedAsDecided'
      /\ materializations' \in [ReviewIds -> Materialization \cup {None}]
  BY <1>1, <1>2, <1>4 DEF IInv, TypeOK, MaterializedAsDecided, stored
<1> QED BY <1>2, <1>5, <1>6, <1>7, <1>8, JobReadsStep

-------------------------------------------------------------------------------
(* Theorems *)

\* Nothing is stored at first.
LEMMA InitIInv == Init => IInv
<1> SUFFICES ASSUME Init PROVE IInv
  OBVIOUS
<1>1. \A r \in ReviewIds : sessions[r] = NoSession /\ decisions[r] = NoHistory /\ current[r] = NoView
  BY DEF Init, NoHistory
<1>2. NoSession \in ProductReviewSession /\ NoSession.status = "ABSENT"
  BY SelectionAssumption DEF NoSession, ProductReviewSession
<1>3. NoView \in View /\ PendingJob \in Materializing /\ PendingJob.pc = "pending"
  BY DEF NoView, View, PendingJob, Materializing
<1>4. TypeOK
  BY <1>2, <1>3, IdleType DEF TypeOK, Init
<1>5. StoredInv
  <2>1. \A r \in ReviewIds : ~Exists(r)
    BY <1>1, <1>2 DEF Exists
  <2>2. OneReviewPerSelection
    BY <2>1, SelectionAssumption DEF OneReviewPerSelection, Init
  <2>3. MetaAgrees
    BY <2>1 DEF MetaAgrees
  <2>4. CurrentIsLatest
    BY DEF Init, CurrentIsLatest, Resolves, NoView
  <2>5. CompletedIsResolved
    BY <1>1, <1>2 DEF CompletedIsResolved
  <2>6. NoStrayRecords
    BY <1>1 DEF NoStrayRecords
  <2> QED BY <2>2, <2>3, <2>4, <2>5, <2>6 DEF StoredInv
<1>6. MaterializedAsDecided
  BY DEF Init, MaterializedAsDecided
<1>7. \A h \in Handlers : ReadsOK(handling[h])
  BY IdleType DEF Init, ReadsOK
<1>8. \A j \in Jobs : JobReadsOK(materializing[j])
  BY <1>3 DEF Init, JobReadsOK
<1> QED BY <1>4, <1>5, <1>6, <1>7, <1>8 DEF IInv

\* Every step keeps the invariant.
LEMMA NextIInv == IInv /\ [Next]_vars => IInv'
<1> SUFFICES ASSUME IInv, [Next]_vars PROVE IInv'
  OBVIOUS
<1>1. ASSUME NEW h \in Handlers, Reviewing(h) PROVE IInv'
  BY <1>1, CreateReviewStep, CompleteReviewStep, SubmitStep, CreateStep, ListStep, AppendStep,
     CheckStep, WriteCompleteStep DEF Reviewing
<1>2. ASSUME NEW j \in Jobs, Running(j) PROVE IInv'
  BY <1>2, ReadReviewStep, ResolveStep, MaterializeStep DEF Running
<1>3. CASE UNCHANGED vars
  BY <1>3 DEF vars, IInv, TypeOK, StoredInv, OneReviewPerSelection, MetaAgrees, CurrentIsLatest,
     CompletedIsResolved, NoStrayRecords, MaterializedAsDecided, ReadsOK, JobReadsOK, Exists
<1> QED BY <1>1, <1>2, <1>3 DEF Next

\* The inductive invariant holds: what is stored is consistent, and what a
\* handler has read of a review is right as long as its version is.
THEOREM ReviewInvariant == Spec => []IInv
BY InitIInv, NextIInv, PTL DEF Spec

\* No reviewer drives the decision count over the limit or writes anything
\* that the entities would not accept.
THEOREM ReviewTypeCorrect == Spec => []TypeOK
<1>1. IInv => TypeOK
  BY DEF IInv
<1> QED BY <1>1, ReviewInvariant, PTL

\* A selection has at most one review, the one its guard names.
THEOREM OneReview == Spec => []OneReviewPerSelection
<1>1. IInv => OneReviewPerSelection
  BY DEF IInv, StoredInv
<1> QED BY <1>1, ReviewInvariant, PTL

\* META agrees with the decision records although it is computed from an
\* earlier read of them.
THEOREM RecordsAgree == Spec => []MetaAgrees
<1>1. IInv => MetaAgrees
  BY DEF IInv, StoredInv
<1> QED BY <1>1, ReviewInvariant, PTL

\* The resolver finds every CURRENT# record to be the latest decision about
\* its attribute.
THEOREM CurrentRecordsAreLatest == Spec => []CurrentIsLatest
<1>1. IInv => CurrentIsLatest
  BY DEF IInv, StoredInv
<1> QED BY <1>1, ReviewInvariant, PTL

\* The records of a review agree between any two writes of its reviewers.
THEOREM AllRecordsAgree == Spec => []ReviewRecordsAgree
<1>1. OneReviewPerSelection /\ MetaAgrees /\ CurrentIsLatest => ReviewRecordsAgree
  BY DEF ReviewRecordsAgree
<1> QED BY <1>1, OneReview, RecordsAgree, CurrentRecordsAreLatest, PTL

\* A decision that races with the completion cannot leave a completed review
\* with an unresolved required attribute.
THEOREM CompletedReviewsAreResolved == Spec => []CompletedIsResolved
<1>1. IInv => CompletedIsResolved
  BY DEF IInv, StoredInv
<1> QED BY <1>1, ReviewInvariant, PTL

\* What is materialized is what the reviewers decided.
THEOREM DecidedIsMaterialized == Spec => []MaterializedAsDecided
<1>1. IInv => MaterializedAsDecided
  BY DEF IInv
<1> QED BY <1>1, ReviewInvariant, PTL

\* History only grows, and a completed review is frozen.
THEOREM FrozenHistory == Spec => HistoryIsFinal
<1> DEFINE Keeps ==
      \A r \in ReviewIds :
          /\ \A n \in 1 .. MaxDecisions :
                decisions[r][n] # None => decisions'[r][n] = decisions[r][n]
          /\ sessions[r].status = "COMPLETED" =>
                /\ sessions'[r] = sessions[r]
                /\ current'[r] = current[r]
                /\ decisions'[r] = decisions[r]
<1>1. ASSUME IInv, [Next]_vars PROVE [Keeps]_vars
  <2>1. CASE UNCHANGED stored
    BY <2>1 DEF stored
  <2>2. ASSUME NEW h \in Handlers, create(h) PROVE Keeps
    BY <1>1, <2>2 DEF create, MayCreate, IInv, TypeOK, ReadsOK
  <2>3. ASSUME NEW h \in Handlers, append_decision(h) PROVE Keeps
    <3> DEFINE r == handling[h].review
               session == handling[h].session
               decision == NewDecision(session, handling[h].request)
    <3>1. r \in ReviewIds
      BY <1>1, <2>3 DEF IInv, ReadsOK, append_decision
    <3>2. CASE UNCHANGED <<decisions, current, sessions>>
      BY <3>2
    <3>3. CASE /\ MayAppend(r, session)
               /\ decisions' = [decisions EXCEPT ![r][decision.sequence] = decision]
               /\ current' = CurrentAfter(r, decision)
               /\ \E s : sessions' = [sessions EXCEPT ![r] = s]
      <4>1. sessions[r].status = "OPEN" /\ decisions[r][decision.sequence] = None
        BY <3>3 DEF MayAppend, NewDecision
      <4>2. \A q \in ReviewIds \ {r} :
               sessions'[q] = sessions[q] /\ current'[q] = current[q] /\ decisions'[q] = decisions[q]
        BY <1>1, <3>1, <3>3 DEF IInv, TypeOK, CurrentAfter
      <4>3. \A n \in 1 .. MaxDecisions :
               decisions[r][n] # None => decisions'[r][n] = decisions[r][n]
        <5> HIDE DEF r, decision
        <5> QED BY <1>1, <3>1, <3>3, <4>1 DEF IInv, TypeOK
      <4> QED BY <4>1, <4>2, <4>3
    <3> QED BY <2>3, <3>2, <3>3 DEF append_decision
  <2>4. ASSUME NEW h \in Handlers, write_complete(h) PROVE Keeps
    BY <1>1, <2>4 DEF write_complete, MayWriteComplete, IInv, TypeOK, ReadsOK
  <2> QED BY <1>1, <2>1, <2>2, <2>3, <2>4
          DEF Next, Reviewing, Running, create_review, complete_review, submit_decision,
              list_current_decisions, check_resolved, read_review, resolve, materialize, vars, stored,
              Finish
<1> QED BY <1>1, ReviewInvariant, PTL DEF Spec, HistoryIsFinal

\* The result of a review is never replaced.
THEOREM MaterializedOnce == Spec => OneMaterialization
<1> DEFINE Keeps ==
      \A r \in ReviewIds :
          materializations[r] # None => materializations'[r] = materializations[r]
<1>1. ASSUME IInv, [Next]_vars PROVE [Keeps]_vars
  <2>1. CASE UNCHANGED materializations
    BY <2>1
  <2>2. ASSUME NEW j \in Jobs, materialize(j) PROVE Keeps
    BY <1>1, <2>2 DEF materialize, Unmaterialized, IInv, TypeOK
  <2> QED BY <1>1, <2>1, <2>2
          DEF Next, Reviewing, Running, create_review, complete_review, submit_decision, create,
              append_decision, write_complete, list_current_decisions, check_resolved, read_review,
              resolve, vars, results
<1> QED BY <1>1, ReviewInvariant, PTL DEF Spec, OneMaterialization

-------------------------------------------------------------------------------
(* The refinement of SelectionReview *)

\* The review of the selection, its decisions and its outcome.
Status == IF guard = None THEN "ABSENT" ELSE sessions[guard].status

History ==
    IF guard = None THEN << >>
    ELSE [n \in 1 .. sessions[guard].decision_count |-> decisions[guard][n]]

Outcome ==
    IF guard = None \/ materializations[guard] = None THEN None
    ELSE materializations[guard].attributes

LEMMA AppendIs ==
    ASSUME NEW S, NEW s \in Seq(S), NEW e \in S
    PROVE  Append(s, e) = [n \in 1 .. Len(s) + 1 |-> IF n = Len(s) + 1 THEN e ELSE s[n]]
<1> DEFINE t == Append(s, e)
<1>1. /\ Len(s) \in Nat /\ t \in Seq(S) /\ Len(t) = Len(s) + 1
      /\ \A i \in 1 .. Len(s) : t[i] = s[i]
      /\ t[Len(s) + 1] = e
  BY AppendProperties, LenProperties
<1>2. t \in [1 .. Len(s) + 1 -> S]
  BY <1>1, LenProperties
<1>3. \A n \in 1 .. Len(s) + 1 : n # Len(s) + 1 => n \in 1 .. Len(s)
  BY <1>1
<1> HIDE DEF t
<1>4. t = [n \in 1 .. Len(s) + 1 |-> IF n = Len(s) + 1 THEN e ELSE s[n]]
  BY <1>1, <1>2, <1>3
<1> QED BY <1>4 DEF t

\* The review that exists is the guard's.
LEMMA GuardsReview ==
    ASSUME IInv, NEW r \in ReviewIds, Exists(r)
    PROVE  guard = r /\ guard # None /\ Status = sessions[r].status
BY SelectionAssumption DEF IInv, StoredInv, OneReviewPerSelection, Status

\* The decisions make a list.
LEMMA HistoryIsAList ==
    ASSUME IInv, guard # None
    PROVE  /\ guard \in ReviewIds
           /\ sessions[guard].decision_count \in 0 .. MaxDecisions
           /\ History \in Seq(AttributeReviewDecision)
           /\ Len(History) = sessions[guard].decision_count
           /\ \A n \in 1 .. sessions[guard].decision_count :
                 History[n] = decisions[guard][n] /\ History[n] \in AttributeReviewDecision
<1>1. guard \in ReviewIds /\ sessions[guard] \in ProductReviewSession /\ Exists(guard)
  BY DEF IInv, TypeOK, StoredInv, OneReviewPerSelection
<1>2. sessions[guard].decision_count \in 0 .. MaxDecisions
  BY <1>1 DEF ProductReviewSession
<1>3. \A n \in 1 .. sessions[guard].decision_count : decisions[guard][n] \in AttributeReviewDecision
  BY <1>1, <1>2, SelectionAssumption DEF IInv, TypeOK, StoredInv, MetaAgrees
<1> QED BY <1>1, <1>2, <1>3 DEF History

\* What is stored as the current decision about an attribute is the last one
\* of the list.
LEMMA LastIsCurrent ==
    ASSUME IInv, guard # None, NEW a \in Attributes
    PROVE  /\ ReviewOfSelection!LastDecision(a) = current[guard][a]
           /\ ReviewOfSelection!Settled(a) <=> IsResolved(current[guard], a)
<1> DEFINE count == sessions[guard].decision_count
           about == ReviewOfSelection!About(a)
           c == current[guard][a]
<1>1. /\ guard \in ReviewIds /\ count \in 0 .. MaxDecisions /\ Len(History) = count
      /\ History \in Seq(AttributeReviewDecision)
      /\ \A n \in 1 .. count : History[n] = decisions[guard][n]
  BY HistoryIsAList
<1>2. about = {n \in 1 .. count : decisions[guard][n].attribute = a}
  <2>1. about = {n \in DOMAIN History : History[n].attribute = a}
    BY DEF ReviewOfSelection!About, History
  <2>2. DOMAIN History = 1 .. count
    BY <1>1
  <2> QED BY <1>1, <2>1, <2>2
<1>3. \A n \in 1 .. MaxDecisions : decisions[guard][n] # None <=> n \in 1 .. count
  BY <1>1 DEF IInv, StoredInv, MetaAgrees, OneReviewPerSelection
<1>4. /\ Resolves(current[guard], decisions[guard])
      /\ \A n \in 1 .. MaxDecisions :
            decisions[guard][n] # None => current[guard][decisions[guard][n].attribute] # None
      /\ c \in AttributeReviewDecision \cup {None}
      /\ DOMAIN decisions[guard] = 1 .. MaxDecisions
  BY <1>1 DEF IInv, TypeOK, StoredInv, CurrentIsLatest, View
<1>5. \A n \in 1 .. count : n \in 1 .. MaxDecisions /\ decisions[guard][n] # None
  BY <1>1, <1>3, SelectionAssumption
<1>6. ReviewOfSelection!LastDecision(a) =
         IF about = {} THEN None ELSE History[CHOOSE n \in about : \A k \in about : k <= n]
  BY DEF ReviewOfSelection!LastDecision, History
<1>7. ReviewOfSelection!LastDecision(a) = c
  <2> HIDE DEF about
  <2>1. CASE c = None
    <3>1. about = {}
      BY <1>2, <1>4, <1>5, <2>1
    <3> QED BY <1>6, <2>1, <3>1
  <2>2. CASE c # None
    <3>1. /\ c.sequence \in 1 .. MaxDecisions /\ decisions[guard][c.sequence] = c
          /\ c.attribute = a
          /\ \A n \in 1 .. MaxDecisions : decisions[guard][n] # None
                /\ decisions[guard][n].attribute = a => n <= c.sequence
      BY <1>4, <2>2 DEF Resolves, AttributeReviewDecision
    <3>2. c.sequence \in about
      BY <1>2, <1>3, <2>2, <3>1
    <3>3. \A n \in about : n \in 1 .. MaxDecisions /\ n <= c.sequence
      BY <1>2, <1>5, <3>1
    <3>4. (CHOOSE n \in about : \A k \in about : k <= n) = c.sequence
      BY <3>1, <3>2, <3>3
    <3>5. c.sequence \in 1 .. count
      BY <1>3, <2>2, <3>1
    <3> QED BY <1>1, <1>6, <3>1, <3>2, <3>4, <3>5
  <2> QED BY <2>1, <2>2
<1>8. \A d \in AttributeReviewDecision : d.type \in RESOLVING_DECISION_TYPES <=> d.type # "REJECT_ALL"
  BY DEF AttributeReviewDecision, RESOLVING_DECISION_TYPES, AttributeReviewDecisionType
<1> QED BY <1>4, <1>7, <1>8 DEF ReviewOfSelection!Settled, IsResolved

\* The four writes of the review chain are the steps of SelectionReview.
LEMMA CreateOpens ==
    ASSUME IInv, NEW h \in Handlers, create(h), ~UNCHANGED <<Status, History, Outcome>>
    PROVE  ReviewOfSelection!OpenReview
<1> DEFINE r == handling[h].review
<1>1. /\ MayCreate(r) /\ guard' = r /\ sessions' = [sessions EXCEPT ![r] = NewSession]
      /\ UNCHANGED <<decisions, current, results>>
  BY DEF create, Status, History, Outcome, results
<1>2. r \in ReviewIds /\ r # None
  BY SelectionAssumption DEF IInv, ReadsOK, create
<1>3. NewSession.status = "OPEN" /\ NewSession.decision_count = 0
  BY DEF NewSession, NoSession
<1>4. sessions'[r] = NewSession
  BY <1>1, <1>2 DEF IInv, TypeOK
<1>5. Status = "ABSENT" /\ Status' = "OPEN"
  BY <1>1, <1>2, <1>3, <1>4 DEF Status, MayCreate
<1>6. History = << >> /\ History' = << >>
  <2>1. guard = None
    BY <1>1 DEF MayCreate
  <2>2. History' = [n \in 1 .. 0 |-> decisions'[r][n]]
    BY <1>1, <1>2, <1>3, <1>4 DEF History
  <2> QED BY <2>1, <2>2 DEF History
<1>7. Outcome = None /\ Outcome' = None
  <2>1. guard = None /\ materializations[r] = None
    BY <1>1, <1>2 DEF MayCreate, IInv, MaterializedAsDecided
  <2>2. materializations' = materializations
    BY <1>1 DEF results
  <2> QED BY <1>1, <2>1, <2>2 DEF Outcome
<1> QED BY <1>5, <1>6, <1>7 DEF ReviewOfSelection!OpenReview, Status, History, Outcome

LEMMA AppendDecides ==
    ASSUME IInv, IInv', NEW h \in Handlers, append_decision(h),
           ~UNCHANGED <<Status, History, Outcome>>
    PROVE  ReviewOfSelection!Decide
<1> DEFINE r == handling[h].review
           session == handling[h].session
           request == handling[h].request
           decision == NewDecision(session, request)
           after == [after_decision(session, handling[h].view) EXCEPT !.status = sessions[r].status]
<1>1. /\ MayAppend(r, session)
      /\ decisions' = [decisions EXCEPT ![r][decision.sequence] = decision]
      /\ sessions' = [sessions EXCEPT ![r] = after]
      /\ UNCHANGED <<guard, results>>
  BY DEF append_decision, Status, History, Outcome, results
<1>2. /\ r \in ReviewIds /\ Exists(r) /\ session = sessions[r] /\ session \in ProductReviewSession
      /\ session.status = "OPEN" /\ request \in Request /\ Accepts(request)
      /\ session.decision_count < MaxDecisions
  BY <1>1 DEF IInv, TypeOK, Handling, ReadsOK, append_decision, MayAppend
<1>3. guard = r /\ guard # None /\ Status = "OPEN"
  BY <1>2, GuardsReview
<1>4. /\ decision \in AttributeReviewDecision
      /\ decision.sequence = session.decision_count + 1 /\ Accepts(decision)
  <2>1. /\ decision.attribute = request.attribute /\ decision.type = request.type
        /\ decision.candidate = request.candidate
    BY DEF NewDecision
  <2> QED BY <1>2, <2>1, NewDecisionType DEF Accepts
<1>5. after.status = "OPEN" /\ after.decision_count = session.decision_count + 1
  BY <1>2, AfterDecisionType DEF ProductReviewSession
<1>6. Status' = "OPEN"
  <2>1. sessions'[r] = after
    BY <1>1, <1>2 DEF IInv, TypeOK
  <2> QED BY <1>1, <1>3, <1>5, <2>1 DEF Status
<1>7. Outcome' = Outcome
  BY <1>1, <1>3 DEF Outcome, results
<1>8. History' = Append(History, decision) /\ Len(History) = session.decision_count
  <2>1. /\ session.decision_count \in Nat /\ History \in Seq(AttributeReviewDecision)
        /\ Len(History) = session.decision_count
        /\ \A n \in 1 .. session.decision_count : History[n] = decisions[r][n]
    BY <1>2, <1>3, HistoryIsAList, SelectionAssumption
  <2>2. sessions'[r].decision_count = session.decision_count + 1
    BY <1>1, <1>2, <1>5 DEF IInv, TypeOK
  <2>3. History' = [n \in 1 .. session.decision_count + 1 |-> decisions'[r][n]]
    BY <1>1, <1>3, <2>2 DEF History
  <2>4. \A n \in 1 .. session.decision_count + 1 :
           decisions'[r][n] = IF n = session.decision_count + 1 THEN decision ELSE decisions[r][n]
    <3> HIDE DEF decision
    <3>1. \A n \in 1 .. session.decision_count + 1 : n \in 1 .. MaxDecisions
      BY <1>2, <2>1, SelectionAssumption
    <3> QED BY <1>1, <1>2, <1>4, <3>1 DEF IInv, TypeOK
  <2>5. Append(History, decision) =
           [n \in 1 .. session.decision_count + 1 |->
              IF n = session.decision_count + 1 THEN decision ELSE decisions[r][n]]
    <3>1. Append(History, decision) =
             [n \in 1 .. session.decision_count + 1 |->
                IF n = session.decision_count + 1 THEN decision ELSE History[n]]
      BY <1>4, <2>1, AppendIs
    <3>2. \A n \in 1 .. session.decision_count + 1 :
             n # session.decision_count + 1 => n \in 1 .. session.decision_count
      BY <2>1
    <3> HIDE DEF decision
    <3> QED BY <2>1, <3>1, <3>2
  <2> QED BY <2>1, <2>3, <2>4, <2>5
<1>9. decision \in AcceptableDecisions
  BY <1>4 DEF AcceptableDecisions
<1>10. decision.sequence = Len(History) + 1 /\ Len(History) < MaxDecisions
  BY <1>2, <1>4, <1>8
<1> HIDE DEF decision
<1> QED BY <1>3, <1>6, <1>7, <1>8, <1>9, <1>10
        DEF ReviewOfSelection!Decide, Status, History, Outcome

LEMMA WriteCompletes ==
    ASSUME IInv, NEW h \in Handlers, write_complete(h), ~UNCHANGED <<Status, History, Outcome>>
    PROVE  ReviewOfSelection!CompleteReview
<1> DEFINE r == handling[h].review
           session == handling[h].session
<1>1. /\ MayWriteComplete(r, session)
      /\ sessions' = [sessions EXCEPT ![r].status = "COMPLETED", ![r].version = session.version + 1]
      /\ UNCHANGED <<guard, decisions, results>>
  BY DEF write_complete, Status, History, Outcome, results
<1>2. /\ r \in ReviewIds /\ Exists(r) /\ sessions[r].status = "OPEN"
      /\ \A a \in RequiredAttributes : IsResolved(current[r], a)
      /\ sessions[r] \in ProductReviewSession
  BY <1>1 DEF IInv, TypeOK, ReadsOK, write_complete, MayWriteComplete
<1>3. guard = r /\ guard # None /\ Status = "OPEN"
  BY <1>2, GuardsReview
<1>4. \A a \in RequiredAttributes : ReviewOfSelection!Settled(a)
  BY <1>2, <1>3, LastIsCurrent, SelectionAssumption
<1>5. sessions'[r].status = "COMPLETED" /\ sessions'[r].decision_count = sessions[r].decision_count
  BY <1>1, <1>2 DEF IInv, TypeOK, ProductReviewSession
<1>6. Status' = "COMPLETED" /\ History' = History /\ Outcome' = Outcome
  BY <1>1, <1>3, <1>5 DEF Status, History, Outcome, results
<1> QED BY <1>3, <1>4, <1>6 DEF ReviewOfSelection!CompleteReview, Status, History, Outcome

LEMMA JobMaterializes ==
    ASSUME IInv, NEW j \in Jobs, materialize(j), ~UNCHANGED <<Status, History, Outcome>>
    PROVE  ReviewOfSelection!Materialize
<1> DEFINE r == materializing[j].review
           view == materializing[j].view
<1>1. r \in ReviewIds /\ sessions[r].status = "COMPLETED" /\ view = current[r]
  BY DEF IInv, JobReadsOK, materialize
<1>2. PICK whole \in BOOLEAN :
         /\ Unmaterialized(r)
         /\ materializations' = [materializations EXCEPT ![r] =
               [attributes |-> FinalReviewedAttributeSet(view), whole |-> whole]]
  BY DEF materialize, Status, History, Outcome, stored
<1>3. guard = r /\ guard # None /\ Status = "COMPLETED"
  BY <1>1, GuardsReview DEF Exists
<1>4. UNCHANGED <<guard, sessions, decisions>>
  BY DEF materialize, stored
<1>5. Status' = Status /\ History' = History
  BY <1>4 DEF Status, History
<1>6. PICK m : m = [attributes |-> FinalReviewedAttributeSet(view), whole |-> whole]
  OBVIOUS
<1>7. materializations'[r] = m /\ m \in Materialization /\ m.attributes = FinalReviewedAttributeSet(view)
  <2>1. FinalReviewedAttributeSet(view) \in View
    BY <1>1 DEF IInv, TypeOK, FinalReviewedAttributeSet, View
  <2> QED BY <1>1, <1>2, <1>6, <2>1 DEF IInv, TypeOK, Materialization
<1>8. m # None
  BY <1>7, NoneAssumption
<1>9. Outcome = None /\ Outcome' = FinalReviewedAttributeSet(current[r])
  BY <1>1, <1>2, <1>3, <1>4, <1>7, <1>8 DEF Outcome, Unmaterialized
<1>10. FinalReviewedAttributeSet(current[r]) =
          [a \in Attributes |-> IF ReviewOfSelection!Settled(a)
                                THEN ReviewOfSelection!LastDecision(a) ELSE None]
  BY <1>3, LastIsCurrent DEF FinalReviewedAttributeSet
<1> QED BY <1>3, <1>5, <1>9, <1>10 DEF ReviewOfSelection!Materialize, Status, History, Outcome

\* Nobody else changes what is stored of the review.
LEMMA StepImplementsReview ==
    ASSUME IInv, IInv', [Next]_vars
    PROVE  [ReviewOfSelection!ReviewNext]_<<Status, History, Outcome>>
<1> SUFFICES ASSUME ~UNCHANGED <<Status, History, Outcome>>
             PROVE  ReviewOfSelection!ReviewNext
  OBVIOUS
<1>1. CASE UNCHANGED <<stored, materializations>>
  BY <1>1 DEF stored, Status, History, Outcome
<1>2. ASSUME NEW h \in Handlers,
             create(h) \/ append_decision(h) \/ write_complete(h)
      PROVE  ReviewOfSelection!ReviewNext
  BY <1>2, CreateOpens, AppendDecides, WriteCompletes DEF ReviewOfSelection!ReviewNext
<1>3. ASSUME NEW j \in Jobs, materialize(j)
      PROVE  ReviewOfSelection!ReviewNext
  BY <1>3, JobMaterializes DEF ReviewOfSelection!ReviewNext
<1> QED BY <1>1, <1>2, <1>3
        DEF Next, Reviewing, Running, create_review, complete_review, submit_decision,
            list_current_decisions, check_resolved, read_review, resolve, vars, stored, results

\* However many reviewers race, and however old what they have read is, the
\* review is one list of decisions, completed once it settles what the schema
\* requires, and materialized at most once as its last decisions say.
THEOREM ReviewersMakeOneReview == Spec => ImplementsReview
<1>1. Init => ReviewOfSelection!ReviewInit
  BY DEF Init, ReviewOfSelection!ReviewInit
<1>2. IInv /\ IInv' /\ [Next]_vars =>
        [ReviewOfSelection!ReviewNext]_(ReviewOfSelection!reviewVars)
  BY StepImplementsReview DEF ReviewOfSelection!reviewVars, Status, History, Outcome
<1> QED BY <1>1, <1>2, ReviewInvariant, PTL
        DEF Spec, ImplementsReview, ReviewOfSelection!ReviewSpec

\* What the chain of a review has stored for good stays as it is.
THEOREM WhatIsStoredStays == Spec => StoredForGood
<1> QED BY FrozenHistory, MaterializedOnce, PTL DEF StoredForGood

===============================================================================
