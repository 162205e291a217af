----------------------------- MODULE BillingLock -----------------------------
(***************************************************************************)
(* The subscription of one organization and the cached verdict on whether  *)
(* it is locked for non-payment.                                           *)
(*                                                                         *)
(* The worker keeps the verdict under billing-status:<tenant>, the API     *)
(* keeps it inside billing:snapshot:<tenant>; both fill the key from a     *)
(* read of the subscription and set it in a call of its own, so the        *)
(* subscription may change, and the key be deleted, between the two.       *)
(***************************************************************************)
EXTENDS Integers, FiniteSets

CONSTANT Caches   \* the cached copies: the worker's, the API's

VARIABLES
    sub,        \* the Subscription row, as far as the lock looks at it
    cache,      \* cache[c]: the entry under the key of c
    resolving,  \* resolving[c]: the await its resolver is at
    read,       \* read[c]: the verdict its resolver has computed
    late        \* entries set from a read that no longer held

lockVars == <<cache, resolving, read, late>>

Statuses == {"trial", "active", "past_due", "canceled"}
Graces   == {"none", "running", "over"}   \* gracePeriodEndsAt
Verdicts == {"open", "locked"}
Nothing  == [verdict |-> "open", held |-> FALSE, expires |-> FALSE]

LockTypeOK ==
    /\ sub \in [status : Statuses, grace : Graces, aged : BOOLEAN]
    /\ cache \in [Caches -> [verdict : Verdicts, held : BOOLEAN, expires : BOOLEAN]]
    /\ resolving \in [Caches -> {"idle", "fill"}]
    /\ read \in [Caches -> Verdicts]
    /\ late \subseteq Caches

LockInit ==
    /\ sub = [status |-> "trial", grace |-> "none", aged |-> FALSE]
    /\ cache = [c \in Caches |-> Nothing]
    /\ resolving = [c \in Caches |-> "idle"]
    /\ read = [c \in Caches |-> "open"]
    /\ late = {}

\* The verdict on the row as it stands; a row without gracePeriodEndsAt is
\* measured from its updatedAt.
Verdict ==
    IF /\ sub.status = "past_due"
       /\ sub.grace = "over" \/ (sub.grace = "none" /\ sub.aged)
    THEN "locked" ELSE "open"

Stale(c) == cache[c].held /\ cache[c].verdict # Verdict

\* Time: gracePeriodEndsAt passes, or the grace period counted from updatedAt.
GraceEnds ==
    /\ sub.status = "past_due" /\ sub.grace # "over"
    /\ sub' = IF sub.grace = "running" THEN [sub EXCEPT !.grace = "over"]
                                       ELSE [sub EXCEPT !.aged = TRUE]
    /\ sub' # sub
    /\ UNCHANGED lockVars

-----------------------------------------------------------------------------
(* createBillingLockResolver and getBillingSnapshot.                       *)

\* The key is missing and the subscription is read; nothing that happens
\* between the two calls changes what follows.
Query(c) ==
    /\ resolving[c] = "idle" /\ ~cache[c].held
    /\ read' = [read EXCEPT ![c] = Verdict]
    /\ resolving' = [resolving EXCEPT ![c] = "fill"]
    /\ UNCHANGED <<sub, cache, late>>

\* Variant: SET without EX.
FillForever(c) ==
    /\ resolving[c] = "fill"
    /\ cache' = [cache EXCEPT ![c] =
                    [verdict |-> read[c], held |-> TRUE, expires |-> FALSE]]
    /\ resolving' = [resolving EXCEPT ![c] = "idle"]
    /\ read' = [read EXCEPT ![c] = "open"]
    /\ late' = IF read[c] = Verdict THEN late \ {c} ELSE late \cup {c}
    /\ UNCHANGED sub

Fill(c) ==
    /\ resolving[c] = "fill"
    /\ cache' = [cache EXCEPT ![c] =
                    [verdict |-> read[c], held |-> TRUE, expires |-> TRUE]]
    /\ resolving' = [resolving EXCEPT ![c] = "idle"]
    /\ read' = [read EXCEPT ![c] = "open"]
    /\ late' = IF read[c] = Verdict THEN late \ {c} ELSE late \cup {c}
    /\ UNCHANGED sub

Forget(C) ==
    /\ cache' = [c \in Caches |-> IF c \in C THEN Nothing ELSE cache[c]]
    /\ late' = late \ C

\* Redis drops an entry at the end of its TTL.
Expire(c) ==
    /\ cache[c].held /\ cache[c].expires
    /\ Forget({c})
    /\ UNCHANGED <<sub, resolving, read>>
=============================================================================
