---------------------------- MODULE SlidingWindow ----------------------------
(***************************************************************************)
(* What a sliding-window rate limiter promises its callers, with no store, *)
(* no key expiry and no network: a request may be granted only when fewer  *)
(* than MaxRequests requests of the same identifier were granted during    *)
(* the Span before it.  Refusing a request is always allowed and leaves no *)
(* trace, so it is a stuttering step.                                      *)
(***************************************************************************)
EXTENDS Integers, FiniteSets

CONSTANTS
    Identifiers,    \* who is limited: the user ids
    MaxRequests,    \* grants allowed in any window
    Span            \* length of the window

VARIABLES
    last,           \* stamp of the last request issued
    grants          \* the requests granted: [id, stamp, n]

Recent(id, s) == {g \in grants : g.id = id /\ g.stamp > s - Span}

Init ==
    /\ last = 0
    /\ grants = {}

\* Requests are stamped in the order they are issued.
Grant(id, s, n) ==
    /\ s >= last
    /\ Cardinality(Recent(id, s)) < MaxRequests
    /\ grants' = grants \cup {[id |-> id, stamp |-> s, n |-> n]}
    /\ last' = s

\* A refusal, or time passing.
Pass ==
    /\ last' \in Nat /\ last' >= last
    /\ UNCHANGED grants

\* An administrative reset forgets what the identifier was granted.
Forget(id) ==
    /\ grants' = {g \in grants : g.id # id}
    /\ UNCHANGED last

Next ==
    \/ Pass
    \/ \E id \in Identifiers : Forget(id)
    \/ \E id \in Identifiers : \E g \in grants' : Grant(id, g.stamp, g.n)

Spec == Init /\ [][Next]_<<last, grants>>
==============================================================================
