--------------------------- MODULE JobQueueProofs ---------------------------
(* Lemmas that the proofs about the queue's handlers share.                *)
EXTENDS JobQueue, FiniteSetTheorems, TLAPS

\* The queue's operations keep the queue well typed.
LEMMA QueueType ==
    ASSUME QueueTypeOK, NEW s \in Slots, NEW j \in Jobs,
           \/ Add(j) \/ Claim(s, j) \/ Complete(s, j) \/ Reject(s, j)
           \/ Abandon(s, j) \/ Redeliver(j)
    PROVE  QueueTypeOK'
<1>1. CASE Add(j) \/ Claim(s, j)
  BY <1>1 DEF QueueTypeOK, JobStates, Add, Claim
<1>2. CASE Complete(s, j)
  BY <1>2 DEF QueueTypeOK, JobStates, Complete
<1>3. CASE Reject(s, j)
  BY <1>3 DEF QueueTypeOK, JobStates, Reject
<1>4. CASE Abandon(s, j) \/ Redeliver(j)
  BY <1>4 DEF QueueTypeOK, JobStates, Abandon, Redeliver
<1> QED BY <1>1, <1>2, <1>3, <1>4

\* The weight of a condition
One(p) == IF p THEN 1 ELSE 0

\* Job j is yet to be claimed, or claimed again, without a further fault: it
\* waits, it has been abandoned, or the slot that holds it is going to reject.
MayRun(j, rejecting) ==
    \/ jobs[j] \in {"absent", "waiting"}
    \/ jobs[j] = "active" /\ lock[j] \in {NoSlot} \cup rejecting

\* Two finite sets that agree except on x differ in size by x at most.
LEMMA SizeSwap ==
    ASSUME NEW S, IsFiniteSet(S), NEW T, NEW x, S \ {x} = T \ {x}
    PROVE  /\ IsFiniteSet(T)
           /\ Cardinality(S) \in Nat /\ Cardinality(T) \in Nat
           /\ Cardinality(T) = Cardinality(S) - One(x \in S) + One(x \in T)
<1>1. /\ IsFiniteSet(S \ {x})
      /\ Cardinality(S \ {x}) = Cardinality(S) - One(x \in S)
      /\ Cardinality(S) \in Nat
  BY FS_RemoveElement, FS_CardinalityType DEF One
<1>2. IsFiniteSet(T) /\ Cardinality(T) = Cardinality(T \ {x}) + One(x \in T)
  <2>1. CASE x \in T
    <3>1. T = (S \ {x}) \cup {x} /\ x \notin S \ {x}
      BY <2>1
    <3>2. IsFiniteSet(T) /\ Cardinality(T) = Cardinality(S \ {x}) + 1
      BY <1>1, <3>1, FS_AddElement
    <3> QED BY <2>1, <3>2 DEF One
  <2>2. CASE x \notin T
    <3>1. T = S \ {x} /\ T \ {x} = T
      BY <2>2
    <3>2. IsFiniteSet(T)
      BY <1>1, <3>1, Zenon
    <3>3. Cardinality(T) \in Nat
      BY <3>2, FS_CardinalityType
    <3> QED BY <2>2, <3>1, <3>2, <3>3 DEF One
  <2> QED BY <2>1, <2>2
<1>3. Cardinality(T) \in Nat
  BY <1>2, FS_CardinalityType
<1> QED BY <1>1, <1>2, <1>3
=============================================================================
