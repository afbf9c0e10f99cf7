---------------------------- MODULE SelectionReview ----------------------------
(***************************************************************************)
(* What the review of one selection promises to those who wait for it,     *)
(* however many reviewers work on it: it is one list of decisions, each    *)
(* made by somebody who saw all earlier ones.  It is open, then completed  *)
(* once the last decision about every required attribute settles it, and   *)
(* then final; at most one outcome is made of it, what the last decisions  *)
(* say.  There are no handlers, no versions and no counts here.            *)
(***************************************************************************)
EXTENDS Naturals, Sequences

CONSTANTS
    Attributes, RequiredAttributes,
    Acceptable,    \* the decisions that the selection admits
    MaxDecisions,
    None

VARIABLES
    status,   \* of the review
    history,  \* the decisions, in the order they were made
    outcome   \* what was made of the review

reviewVars == <<status, history, outcome>>

About(a) == {n \in DOMAIN history : history[n].attribute = a}

\* The last decision about an attribute, or None.
LastDecision(a) ==
    IF About(a) = {} THEN None
    ELSE history[CHOOSE n \in About(a) : \A k \in About(a) : k <= n]

\* A rejection of all candidates leaves the attribute unsettled.
Settled(a) == LastDecision(a) # None /\ LastDecision(a).type # "REJECT_ALL"

ReviewInit == status = "ABSENT" /\ history = << >> /\ outcome = None

OpenReview ==
    /\ status = "ABSENT"
    /\ status' = "OPEN"
    /\ UNCHANGED <<history, outcome>>

Decide ==
    /\ status = "OPEN"
    /\ Len(history) < MaxDecisions
    /\ UNCHANGED <<status, outcome>>
    /\ \E decision \in Acceptable :
        /\ decision.sequence = Len(history) + 1
        /\ history' = Append(history, decision)

CompleteReview ==
    /\ status = "OPEN"
    /\ \A a \in RequiredAttributes : Settled(a)
    /\ status' = "COMPLETED"
    /\ UNCHANGED <<history, outcome>>

Materialize ==
    /\ status = "COMPLETED"
    /\ outcome = None
    /\ outcome' = [a \in Attributes |-> IF Settled(a) THEN LastDecision(a) ELSE None]
    /\ UNCHANGED <<status, history>>

ReviewNext ==
    \/ OpenReview
    \/ Decide
    \/ CompleteReview
    \/ Materialize

ReviewSpec == ReviewInit /\ [][ReviewNext]_reviewVars

================================================================================
