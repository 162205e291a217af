--------------------------- MODULE WorkflowCanvas ---------------------------
(***************************************************************************)
(* The published canvas of one workflow, as the runner reads it: the step  *)
(* keys, the routed transitions between them, and the rule that picks the  *)
(* transitions a recorded outcome follows.  A step's output is abstracted  *)
(* to the truth value of output.result, the only part of it that routing   *)
(* looks at.                                                               *)
(***************************************************************************)
EXTENDS FiniteSets

CONSTANTS
    Keys,         \* the step keys of the canvas
    Trigger,      \* the key of its TRIGGER_* step, the one root
    Transitions,  \* its transitions: [src, dst, route] records
    OnError       \* OnError[k]: column WorkflowStep.onError of step k

Routes == {"ALWAYS", "ON_SUCCESS", "IF_TRUE", "IF_FALSE", "ON_FAILURE", "FALLBACK"}

\* What a StepResult row says: a success with a truthy or a falsy
\* output.result, or a failure.  "none" is the absent row.
Outputs  == {"true", "false"}
Outcomes == Outputs \cup {"none", "FAILED"}

\* isConditionTrue
ConditionTrue(out) == out = "true"

ShouldFollow(route, out, failed) ==
    \/ failed /\ route \in {"ON_FAILURE", "FALLBACK"}
    \/ ~failed /\ route \in {"ALWAYS", "ON_SUCCESS"}
    \/ ~failed /\ route = "IF_TRUE" /\ ConditionTrue(out)
    \/ ~failed /\ route = "IF_FALSE" /\ ~ConditionTrue(out)

\* findMatchingTransitions
Matching(k, out, failed) ==
    {t \in Transitions : t.src = k /\ ShouldFollow(t.route, out, failed)}

\* The transitions an exhausted step takes: only under onError = CONTINUE.
Fallbacks(k) == IF OnError[k] = "CONTINUE" THEN Matching(k, "false", TRUE) ELSE {}

\* The transitions an outcome of step k opens.
Opened(k, outcome) ==
    IF outcome \in Outputs THEN Matching(k, outcome, FALSE)
    ELSE IF outcome = "FAILED" THEN Fallbacks(k) ELSE {}

ASSUME CanvasAssumption ==
    /\ Trigger \in Keys
    /\ IsFiniteSet(Keys) /\ IsFiniteSet(Transitions)
    /\ Transitions \subseteq [src : Keys, dst : Keys, route : Routes]
    /\ OnError \in [Keys -> {"STOP", "CONTINUE"}]
=============================================================================
