------------------------ MODULE WorkflowEngineProofs ------------------------
(***************************************************************************)
(* Safety of WorkflowEngine for every canvas, every number of executions   *)
(* and slots, and every bound on attempts, stalls, depth and faults.       *)
(***************************************************************************)
EXTENDS WorkflowEngine, FiniteSetTheorems, TLAPS

-----------------------------------------------------------------------------
(* Type correctness.                                                       *)

\* A job's attempt number is one of the attempts.
LEMMA AttemptOfType ==
    ASSUME NEW j \in JobIds
    PROVE  /\ j.exec \in Execs /\ j.key \in Keys
           /\ AttemptOf(j) \in Attempts
BY EngineAssumption DEF JobIds, AttemptOf, Attempts, EngineAssumption

\* Adding a job keeps the queue well typed, and never removes one.
LEMMA AddedType ==
    ASSUME TypeOK, NEW j
    PROVE  /\ Added(j) \in [JobIds -> {"absent", "waiting", "active", "completed", "failed"}]
           /\ \A i \in JobIds : jobs[i] # "absent" => Added(j)[i] # "absent"
           /\ \A i \in JobIds : i # j => Added(j)[i] = jobs[i]
BY DEF TypeOK, Added

\* Writing a StepResult row keeps the rows well typed.
LEMMA RowWriteType ==
    ASSUME TypeOK, NEW e \in Execs, NEW k \in Keys, NEW a \in Attempts, NEW o \in Outcomes
    PROVE  [results EXCEPT ![e][k][a] = o] \in [Execs -> [Keys -> [Attempts -> Outcomes]]]
BY DEF TypeOK

\* The initial state is well typed.
LEMMA InitTypeOK == Init => TypeOK
BY EngineAssumption DEF Init, TypeOK, EngineAssumption, Statuses, PCs, Outcomes, Outputs

\* Every step keeps the state well typed.
LEMMA NextTypeOK == TypeOK /\ [Next]_vars => TypeOK'
<1> SUFFICES ASSUME TypeOK, [Next]_vars PROVE TypeOK'
  OBVIOUS
<1> USE DEF TypeOK, rowVars, queueVars, slotVars, Statuses, PCs, Outcomes, Outputs
<1>1. ASSUME NEW e \in Execs, CreateExecution(e) PROVE TypeOK'
  BY <1>1 DEF CreateExecution
<1>2. ASSUME NEW e \in Execs, EnqueueTrigger(e) PROVE TypeOK'
  <2>1. jobs' \in [JobIds -> {"absent", "waiting", "active", "completed", "failed"}]
    BY <1>2, AddedType DEF EnqueueTrigger
  <2> QED BY <1>2, <2>1 DEF EnqueueTrigger
<1>3. ASSUME NEW e \in Execs, LaunchLost(e) PROVE TypeOK'
  BY <1>3, EngineAssumption DEF LaunchLost, EngineAssumption
<1>4. ASSUME NEW e \in Execs, Cancel(e) PROVE TypeOK'
  BY <1>4 DEF Cancel
<1>5. ASSUME NEW w \in Workers, NEW j \in JobIds, Take(w, j) PROVE TypeOK'
  BY <1>5 DEF Take, Goto
<1>6. ASSUME NEW w \in Workers, Handle(w) PROVE TypeOK'
  <2> USE DEF Goto
  <2>0. pc[w] # "idle" => /\ Exec(w) \in Execs /\ Key(w) \in Keys
                          /\ Att(w) \in Attempts
    BY AttemptOfType DEF Exec, Key, Att
  <2>0a. ASSUME Release(w) PROVE /\ pc' \in [Workers -> PCs]
                                 /\ job' \in [Workers -> JobIds \cup {NoJob}]
                                 /\ \A v \in Workers : pc'[v] # "idle" => job'[v] \in JobIds
                                 /\ seen' \in [Workers -> Nat]
                                 /\ out' \in [Workers -> Outputs]
                                 /\ todo' \in [Workers -> SUBSET Transitions]
                                 /\ \A v \in Workers :
                                      pc'[v] \in {"enqueue", "fallback"} => todo'[v] # {}
    BY <2>0a DEF Release
  <2>1. CASE Load(w)
    BY <2>0, <2>1 DEF Load
  <2>2. CASE FailTooDeep(w)
    BY <2>2 DEF FailTooDeep
  <2>3. CASE RunStep(w)
    <3>1. PICK label \in {"record", "recordFailed"} : pc[w] = "run" /\ pc' = [pc EXCEPT ![w] = label]
      BY <2>3 DEF RunStep
    <3>2. out' \in [Workers -> Outputs]
      BY <2>3 DEF RunStep
    <3> QED BY <2>3, <3>1, <3>2 DEF RunStep
  <2>4. CASE RecordSuccess(w)
    <3>1. out[w] \in Outcomes /\ Exec(w) \in Execs /\ Key(w) \in Keys /\ Att(w) \in Attempts
      BY <2>0, <2>4 DEF RecordSuccess
    <3>a. [results EXCEPT ![Exec(w)][Key(w)][Att(w)] = out[w]]
            \in [Execs -> [Keys -> [Attempts -> Outcomes]]]
      BY <3>1, RowWriteType
    <3>b. results' = [results EXCEPT ![Exec(w)][Key(w)][Att(w)] = out[w]] \/ results' = results
      BY <2>4 DEF RecordSuccess
    <3>2. results' \in [Execs -> [Keys -> [Attempts -> Outcomes]]]
      BY <3>a, <3>b
    <3> QED BY <2>4, <3>2 DEF RecordSuccess
  <2>5. CASE Deepen(w)
    <3>1. todo' = [todo EXCEPT ![w] = Matching(Key(w), out[w], FALSE)]
      BY <2>5 DEF Deepen, RouteSuccess
    <3>2. Matching(Key(w), out[w], FALSE) \subseteq Transitions
      BY DEF Matching
    <3>3. pc' = [pc EXCEPT ![w] =
                    IF Matching(Key(w), out[w], FALSE) = {} THEN "succeed" ELSE "enqueue"]
      BY <2>5 DEF Deepen, RouteSuccess
    <3>4. todo' \in [Workers -> SUBSET Transitions]
      BY <3>1, <3>2
    <3>5. depth' \in [Execs -> Nat]
      <4>1. depth' = [depth EXCEPT ![Exec(w)] = seen[w] + 1]
        BY <2>5 DEF Deepen
      <4>2. seen[w] + 1 \in Nat
        OBVIOUS
      <4> QED BY <4>1, <4>2
    <3> QED BY <2>5, <3>1, <3>3, <3>4, <3>5 DEF Deepen
  <2>6. CASE MarkSuccess(w)
    BY <2>6 DEF MarkSuccess
  <2>7. ASSUME NEW t \in Transitions, EnqueueNext(w, t) PROVE TypeOK'
    <3>1. jobs' \in [JobIds -> {"absent", "waiting", "active", "completed", "failed"}]
      BY <2>7, AddedType DEF EnqueueNext, AddStamped
    <3>2. todo' \in [Workers -> SUBSET Transitions]
      BY <2>7 DEF EnqueueNext
    <3>3. pc' \in [Workers -> PCs]
      BY <2>7 DEF EnqueueNext
    <3>4. \A v \in Workers : pc'[v] \in {"enqueue", "fallback"} => todo'[v] # {}
      BY <2>7 DEF EnqueueNext
    <3>5. \A v \in Workers : pc'[v] # "idle" => job'[v] \in JobIds
      BY <2>7 DEF EnqueueNext
    <3> QED BY <2>7, <3>1, <3>2, <3>3, <3>4, <3>5 DEF EnqueueNext
  <2>8. CASE RecordFailure(w)
    <3>1. "FAILED" \in Outcomes /\ Exec(w) \in Execs /\ Key(w) \in Keys /\ Att(w) \in Attempts
      BY <2>0, <2>8 DEF RecordFailure
    <3>a. [results EXCEPT ![Exec(w)][Key(w)][Att(w)] = "FAILED"]
            \in [Execs -> [Keys -> [Attempts -> Outcomes]]]
      BY <3>1, RowWriteType
    <3>b. results' = [results EXCEPT ![Exec(w)][Key(w)][Att(w)] = "FAILED"] \/ results' = results
      BY <2>8 DEF RecordFailure
    <3>2. results' \in [Execs -> [Keys -> [Attempts -> Outcomes]]]
      BY <3>a, <3>b
    <3>3. Fallbacks(Key(w)) \subseteq Transitions
      BY DEF Fallbacks, Matching
    <3>4. ASSUME RouteFailure(w) PROVE /\ pc' \in [Workers -> PCs]
                                       /\ todo' \in [Workers -> SUBSET Transitions]
                                       /\ \A v \in Workers :
                                            pc'[v] \in {"enqueue", "fallback"} => todo'[v] # {}
                                       /\ \A v \in Workers \ {w} : pc'[v] = pc[v]
      <4> DEFINE next == IF Att(w) >= MaxAttempts THEN Fallbacks(Key(w)) ELSE {}
                 label == IF ~(Att(w) >= MaxAttempts) THEN "retry"
                          ELSE IF next # {} THEN "fallback" ELSE "fail"
      <4>1. todo' = [todo EXCEPT ![w] = next] /\ pc' = [pc EXCEPT ![w] = label]
        BY <3>4 DEF RouteFailure
      <4>2. next \subseteq Transitions /\ label \in PCs /\ (label = "fallback" => next # {})
            /\ label # "enqueue"
        BY <3>3
      <4> HIDE DEF next, label
      <4> QED BY <4>1, <4>2
    <3>5. CASE Row(w) = "none"
      BY <2>8, <3>2, <3>4, <3>5 DEF RecordFailure
    <3>6. CASE Row(w) # "none"
      BY <2>8, <3>2, <3>6 DEF RecordFailure
    <3> QED BY <3>5, <3>6
  <2>9. CASE ScheduleRetry(w)
    <3>1. jobs' \in [JobIds -> {"absent", "waiting", "active", "completed", "failed"}]
      BY <2>9, AddedType DEF ScheduleRetry
    <3> QED BY <2>9, <3>1 DEF ScheduleRetry
  <2>10. CASE FailExecution(w)
    BY <2>10 DEF FailExecution
  <2>11. CASE Finish(w)
    <3>1. Release(w)
      BY <2>11 DEF Finish
    <3>2. jobs' \in [JobIds -> {"absent", "waiting", "active", "completed", "failed"}]
          /\ lock' \in [JobIds -> Workers \cup {NoWorker}]
      <4>1. CASE lock[job[w]] = w
        <5>1. jobs' = [jobs EXCEPT ![job[w]] = "completed"]
              /\ lock' = [lock EXCEPT ![job[w]] = NoWorker]
          BY <2>11, <4>1 DEF Finish
        <5> QED BY <5>1
      <4>2. CASE lock[job[w]] # w
        BY <2>11, <4>2 DEF Finish
      <4> QED BY <4>1, <4>2
    <3> QED BY <2>11, <2>0a, <3>1, <3>2 DEF Finish
  <2>12. CASE Throw(w)
    <3>1. Release(w)
      BY <2>12 DEF Throw
    <3>2. jobs' \in [JobIds -> {"absent", "waiting", "active", "completed", "failed"}]
          /\ lock' \in [JobIds -> Workers \cup {NoWorker}]
      <4>1. CASE lock[job[w]] = w
        <5> DEFINE state == IF tries[job[w]] + 1 < JobAttempts THEN "waiting" ELSE "failed"
        <5>1. jobs' = [jobs EXCEPT ![job[w]] = state]
              /\ lock' = [lock EXCEPT ![job[w]] = NoWorker]
          BY <2>12, <4>1 DEF Throw
        <5>2. state \in {"waiting", "failed"}
          OBVIOUS
        <5> HIDE DEF state
        <5> QED BY <5>1, <5>2
      <4>2. CASE lock[job[w]] # w
        BY <2>12, <4>2 DEF Throw
      <4> QED BY <4>1, <4>2
    <3>3. tries' \in [JobIds -> Nat]
      <4>1. CASE lock[job[w]] = w
        <5>1. tries' = [tries EXCEPT ![job[w]] = tries[job[w]] + 1] /\ job[w] \in JobIds
          BY <2>12, <4>1 DEF Throw
        <5>2. tries[job[w]] + 1 \in Nat
          BY <5>1
        <5> QED BY <5>1, <5>2
      <4>2. CASE lock[job[w]] # w
        BY <2>12, <4>2 DEF Throw
      <4> QED BY <4>1, <4>2
    <3> QED BY <2>12, <2>0a, <3>1, <3>2, <3>3 DEF Throw
  <2> QED
    BY <1>6, <2>1, <2>2, <2>3, <2>4, <2>5, <2>6, <2>7, <2>8, <2>9, <2>10, <2>11, <2>12
    DEF Handle
<1>7. ASSUME NEW w \in Workers, Disturb(w) PROVE TypeOK'
  <2>1. CASE Fault(w)
    <3>1. faults' \in 0 .. MaxFaults
      BY <2>1, EngineAssumption DEF Fault, EngineAssumption
    <3>2. PICK label \in {"recordFailed", "throw"} :
              pc' = [pc EXCEPT ![w] = label] /\ pc[w] # "idle"
      BY <2>1 DEF Fault, Goto
    <3> QED BY <2>1, <3>1, <3>2 DEF Fault
  <2>2. CASE Crash(w)
    BY <1>7, <2>2, EngineAssumption DEF Crash, Release, Goto, EngineAssumption
  <2>3. CASE LockExpires(w)
    BY <1>7, <2>3, EngineAssumption DEF LockExpires, EngineAssumption
  <2> QED BY <1>7, <2>1, <2>2, <2>3 DEF Disturb
<1>8. ASSUME NEW j \in JobIds, Redeliver(j) PROVE TypeOK'
  BY <1>8 DEF Redeliver
<1>9. CASE UNCHANGED vars
  BY <1>9 DEF vars
<1> QED
  BY <1>1, <1>2, <1>3, <1>4, <1>5, <1>6, <1>7, <1>8, <1>9 DEF Next

\* The engine's state is always well typed: in particular a slot that runs
\* always holds a job, and a slot that enqueues has a transition to enqueue
\* (the zero-transition case of handleSuccessfulExecution is a return).
THEOREM TypeCorrect == Spec => []TypeOK
BY InitTypeOK, NextTypeOK, PTL DEF Spec

-----------------------------------------------------------------------------
(* One step, one success.  AttemptsLinear is not inductive: a job of       *)
(* attempt a could still be queued although an earlier attempt succeeded.  *)
(* The jobs and the slots that are about to add one carry the missing      *)
(* facts.                                                                  *)

\* A job of attempt a is queued only after every earlier attempt failed.
JobsLinear ==
    \A e \in Execs, k \in Keys, a \in Attempts :
        jobs[AttemptJob(e, k, a)] # "absent" => \A b \in 1 .. (a - 1) : results[e][k][b] = "FAILED"

\* The job of a busy slot exists, and a slot that is about to add the retry
\* has recorded its failure and has an attempt left.
SlotsLinear ==
    \A w \in Workers :
        /\ pc[w] # "idle" => jobs[job[w]] # "absent"
        /\ pc[w] = "retry" => Att(w) < MaxAttempts /\ Row(w) = "FAILED"

LinearInv == TypeOK /\ AttemptsLinear /\ JobsLinear /\ SlotsLinear

\* Rows, once written, stay.
RowsStay ==
    \A e \in Execs, k \in Keys, a \in Attempts :
        results[e][k][a] # "none" => results'[e][k][a] = results[e][k][a]

\* Jobs, once added, stay.
JobsStay == \A j \in JobIds : jobs[j] # "absent" => jobs'[j] # "absent"

\* No row, no job and no busy slot: the initial state satisfies the invariant.
LEMMA InitLinear == Init => LinearInv
<1> SUFFICES ASSUME Init PROVE AttemptsLinear /\ JobsLinear /\ SlotsLinear
  BY InitTypeOK DEF LinearInv
<1>1. \A e \in Execs, k \in Keys, a \in Attempts : AttemptJob(e, k, a) \in JobIds
  BY DEF AttemptJob, JobIds
<1> QED BY <1>1 DEF Init, AttemptsLinear, JobsLinear, SlotsLinear

\* A step that writes no row, adds no attempt job and starts no retry keeps
\* the invariant.
LEMMA LinearFrame ==
    ASSUME LinearInv, TypeOK', results' = results, JobsStay,
           \A e \in Execs, k \in Keys, a \in Attempts :
               jobs'[AttemptJob(e, k, a)] # "absent" =>
                   a = 1 \/ jobs[AttemptJob(e, k, a)] # "absent",
           \A w \in Workers :
               \/ pc'[w] = "idle"
               \/ pc'[w] # "retry" /\ job'[w] = job[w] /\ pc[w] # "idle"
               \/ pc'[w] # "retry" /\ jobs'[job'[w]] # "absent"
               \/ pc'[w] = pc[w] /\ job'[w] = job[w]
    PROVE  LinearInv'
<1>1. AttemptsLinear'
  BY DEF LinearInv, AttemptsLinear
<1>2. JobsLinear'
  BY DEF LinearInv, JobsLinear, Attempts
<1>3. SlotsLinear'
  <2> SUFFICES ASSUME NEW w \in Workers
               PROVE  /\ pc'[w] # "idle" => jobs'[job'[w]] # "absent"
                      /\ pc'[w] = "retry" => Att(w)' < MaxAttempts /\ Row(w)' = "FAILED"
    BY DEF SlotsLinear
  <2>1. pc[w] # "idle" => job[w] \in JobIds /\ jobs'[job[w]] # "absent"
    BY DEF LinearInv, TypeOK, SlotsLinear, JobsStay
  <2>2. CASE pc'[w] = pc[w] /\ job'[w] = job[w]
    BY <2>1, <2>2 DEF LinearInv, SlotsLinear, Att, Row, Exec, Key
  <2>3. CASE ~(pc'[w] = pc[w] /\ job'[w] = job[w])
    BY <2>1, <2>3
  <2> QED BY <2>2, <2>3
<1> QED BY <1>1, <1>2, <1>3 DEF LinearInv

\* Writing the row of a busy slot: jobs stay as they are, the row was absent.
LEMMA LinearWrite ==
    ASSUME LinearInv, TypeOK', NEW w \in Workers, pc[w] # "idle", Row(w) = "none",
           NEW o \in Outcomes,
           results' = [results EXCEPT ![Exec(w)][Key(w)][Att(w)] = o],
           jobs' = jobs, job' = job,
           NEW label \in PCs, pc' = [pc EXCEPT ![w] = label],
           label = "retry" => Att(w) < MaxAttempts /\ o = "FAILED"
    PROVE  LinearInv'
<1>0. /\ job[w] \in JobIds /\ jobs[job[w]] # "absent"
      /\ Exec(w) \in Execs /\ Key(w) \in Keys /\ Att(w) \in Attempts
  BY AttemptOfType DEF LinearInv, TypeOK, SlotsLinear, Exec, Key, Att
<1>1. /\ results'[Exec(w)][Key(w)][Att(w)] = o
      /\ \A e \in Execs, k \in Keys, a \in Attempts :
             <<e, k, a>> # <<Exec(w), Key(w), Att(w)>> => results'[e][k][a] = results[e][k][a]
  BY <1>0 DEF LinearInv, TypeOK
<1>2. RowsStay
  BY <1>1 DEF RowsStay, Row
<1>3. \A b \in 1 .. (Att(w) - 1) : results[Exec(w)][Key(w)][b] = "FAILED"
  <2>1. CASE job[w].by = "attempt"
    <3>1. Att(w) = job[w].n /\ job[w] = AttemptJob(Exec(w), Key(w), Att(w))
      BY <2>1, <1>0 DEF Att, AttemptOf, AttemptJob, JobIds, Exec, Key
    <3> QED BY <3>1, <1>0 DEF LinearInv, JobsLinear
  <2>2. CASE job[w].by # "attempt"
    BY <2>2 DEF Att, AttemptOf
  <2> QED BY <2>1, <2>2
<1>4. \A a \in Attempts : 1 .. (a - 1) \subseteq Attempts
  BY EngineAssumption DEF Attempts, EngineAssumption
<1>5. AttemptsLinear'
  <2> SUFFICES ASSUME NEW e \in Execs, NEW k \in Keys, NEW a \in Attempts,
                      results'[e][k][a] # "none", NEW b \in 1 .. (a - 1)
               PROVE  results'[e][k][b] = "FAILED"
    BY DEF AttemptsLinear
  <2>1. results[e][k][b] = "FAILED"
    BY <1>1, <1>3 DEF LinearInv, AttemptsLinear
  <2> QED BY <2>1, <1>2, <1>4 DEF RowsStay
<1>6. JobsLinear'
  BY <1>2, <1>4 DEF LinearInv, JobsLinear, RowsStay
<1>7. SlotsLinear'
  <2> SUFFICES ASSUME NEW v \in Workers
               PROVE  /\ pc'[v] # "idle" => jobs'[job'[v]] # "absent"
                      /\ pc'[v] = "retry" => Att(v)' < MaxAttempts /\ Row(v)' = "FAILED"
    BY DEF SlotsLinear
  <2>1. CASE v = w
    BY <2>1, <1>0, <1>1 DEF LinearInv, TypeOK, Att, Row, Exec, Key
  <2>2. CASE v # w
    <3>1. pc'[v] = pc[v]
      BY <2>2 DEF LinearInv, TypeOK
    <3>2. pc[v] # "idle" => Exec(v) \in Execs /\ Key(v) \in Keys /\ Att(v) \in Attempts
      BY AttemptOfType DEF LinearInv, TypeOK, Exec, Key, Att
    <3> QED BY <3>1, <3>2, <1>2 DEF LinearInv, SlotsLinear, RowsStay, Att, Row, Exec, Key
  <2> QED BY <2>1, <2>2
<1> QED BY <1>5, <1>6, <1>7 DEF LinearInv

\* Adding the job of attempt a leaves the other attempt jobs alone, and a
\* stamped add leaves them all alone.
LEMMA AddedAttempts ==
    ASSUME TypeOK, NEW j, jobs' = Added(j)
    PROVE  /\ JobsStay
           /\ \A e \in Execs, k \in Keys, a \in Attempts :
                 AttemptJob(e, k, a) # j => jobs'[AttemptJob(e, k, a)] = jobs[AttemptJob(e, k, a)]
<1>1. \A e \in Execs, k \in Keys, a \in Attempts : AttemptJob(e, k, a) \in JobIds
  BY DEF AttemptJob, JobIds
<1> QED BY <1>1, AddedType DEF JobsStay

\* Every step keeps the invariant.
LEMMA NextLinear == LinearInv /\ [Next]_vars => LinearInv'
<1> SUFFICES ASSUME LinearInv, [Next]_vars PROVE LinearInv'
  OBVIOUS
<1> USE DEF rowVars, queueVars, slotVars
<1>a. TypeOK /\ TypeOK'
  BY NextTypeOK DEF LinearInv
<1>b. \A e \in Execs, k \in Keys, a \in Attempts : AttemptJob(e, k, a) \in JobIds
  BY DEF AttemptJob, JobIds
<1>1. ASSUME NEW e \in Execs, CreateExecution(e) \/ LaunchLost(e) \/ Cancel(e) PROVE LinearInv'
  BY <1>1, <1>a, LinearFrame DEF CreateExecution, LaunchLost, Cancel, JobsStay
<1>2. ASSUME NEW e \in Execs, EnqueueTrigger(e) PROVE LinearInv'
  <2>1. jobs' = Added(AttemptJob(e, Trigger, 1)) /\ results' = results /\ pc' = pc /\ job' = job
    BY <1>2 DEF EnqueueTrigger
  <2>2. \A f \in Execs, k \in Keys, a \in Attempts :
            jobs'[AttemptJob(f, k, a)] # "absent" =>
                a = 1 \/ jobs[AttemptJob(f, k, a)] # "absent"
    BY <2>1, <1>a, AddedAttempts DEF AttemptJob
  <2> QED BY <2>1, <2>2, <1>a, AddedAttempts, LinearFrame
<1>3. ASSUME NEW w \in Workers, NEW j \in JobIds, Take(w, j) PROVE LinearInv'
  <2>1. jobs' = [jobs EXCEPT ![j] = "active"] /\ jobs[j] = "waiting" /\ results' = results
        /\ pc' = [pc EXCEPT ![w] = "load"] /\ job' = [job EXCEPT ![w] = j]
    BY <1>3 DEF Take, Goto
  <2>2. JobsStay /\ jobs'[j] = "active"
        /\ \A i \in JobIds : jobs'[i] # "absent" => jobs[i] # "absent"
    BY <2>1, <1>a DEF TypeOK, JobsStay
  <2>3. \A v \in Workers : \/ v = w /\ pc'[v] # "retry" /\ job'[v] = j
                           \/ pc'[v] = pc[v] /\ job'[v] = job[v]
    BY <2>1, <1>a DEF TypeOK
  <2> QED BY <2>1, <2>2, <2>3, <1>a, <1>b, LinearFrame
<1>4. ASSUME NEW w \in Workers, NEW label \in PCs \ {"retry"}, pc[w] # "idle",
             pc' = [pc EXCEPT ![w] = label], job' = job, results' = results, jobs' = jobs
      PROVE  LinearInv'
  <2>1. \A v \in Workers : \/ v = w /\ pc'[v] # "retry" /\ job'[v] = job[v] /\ pc[v] # "idle"
                           \/ pc'[v] = pc[v] /\ job'[v] = job[v]
    BY <1>4, <1>a DEF TypeOK
  <2> QED BY <1>4, <2>1, <1>a, LinearFrame DEF JobsStay
<1>5. ASSUME NEW w \in Workers, Release(w), results' = results, JobsStay,
             \A i \in JobIds : jobs'[i] # "absent" => jobs[i] # "absent"
      PROVE  LinearInv'
  <2>1. \A v \in Workers : pc'[v] = "idle" \/ (pc'[v] = pc[v] /\ job'[v] = job[v])
    BY <1>5, <1>a DEF TypeOK, Release, Goto
  <2> QED BY <1>5, <2>1, <1>a, <1>b, LinearFrame
<1>6. ASSUME NEW w \in Workers, Handle(w) PROVE LinearInv'
  <2> USE DEF Goto
  <2>1. CASE Load(w) \/ FailTooDeep(w) \/ MarkSuccess(w) \/ FailExecution(w)
    BY <2>1, <1>4 DEF Load, FailTooDeep, MarkSuccess, FailExecution, PCs
  <2>2. CASE RunStep(w)
    BY <2>2, <1>4 DEF RunStep, PCs
  <2>3. CASE Deepen(w)
    BY <2>3, <1>4 DEF Deepen, RouteSuccess, PCs
  <2>4. CASE RecordSuccess(w)
    <3>1. CASE Row(w) = "none"
      <4>1. out[w] \in Outcomes /\ "deepen" \in PCs /\ "deepen" # "retry"
        BY <1>a DEF TypeOK, Outcomes, PCs
      <4> QED BY <2>4, <3>1, <4>1, <1>a, LinearWrite DEF RecordSuccess
    <3>2. CASE Row(w) # "none"
      BY <2>4, <3>2, <1>4 DEF RecordSuccess, PCs
    <3> QED BY <3>1, <3>2
  <2>5. CASE RecordFailure(w)
    <3>1. CASE Row(w) = "none"
      <4> DEFINE label == IF ~(Att(w) >= MaxAttempts) THEN "retry"
                          ELSE IF Fallbacks(Key(w)) # {} THEN "fallback" ELSE "fail"
      <4>1. pc' = [pc EXCEPT ![w] = label] /\ pc[w] # "idle" /\ jobs' = jobs /\ job' = job
            /\ results' = [results EXCEPT ![Exec(w)][Key(w)][Att(w)] = "FAILED"]
        BY <2>5, <3>1 DEF RecordFailure, RouteFailure
      <4>2. Att(w) \in Nat /\ MaxAttempts \in Nat
        BY <4>1, <1>a, AttemptOfType, EngineAssumption
        DEF TypeOK, Att, Attempts, EngineAssumption
      <4>3. label \in PCs /\ (label = "retry" => Att(w) < MaxAttempts)
        BY <4>2 DEF PCs
      <4>4. "FAILED" \in Outcomes
        BY DEF Outcomes
      <4> HIDE DEF label
      <4> QED BY <3>1, <4>1, <4>3, <4>4, <1>a, LinearWrite
    <3>2. CASE Row(w) # "none"
      BY <2>5, <3>2, <1>4 DEF RecordFailure, PCs
    <3> QED BY <3>1, <3>2
  <2>6. ASSUME NEW t \in Transitions, EnqueueNext(w, t) PROVE LinearInv'
    <3>1. PICK s \in 1 .. MaxStamps : jobs' = Added(StampJob(Exec(w), t.dst, s))
      BY <2>6 DEF EnqueueNext, AddStamped
    <3>2. JobsStay /\ \A e \in Execs, k \in Keys, a \in Attempts :
              jobs'[AttemptJob(e, k, a)] = jobs[AttemptJob(e, k, a)]
      BY <3>1, <1>a, AddedAttempts DEF AttemptJob, StampJob
    <3>3. \A v \in Workers :
             \/ v = w /\ pc'[v] # "retry" /\ job'[v] = job[v] /\ pc[v] # "idle"
             \/ pc'[v] = pc[v] /\ job'[v] = job[v]
      BY <2>6, <1>a DEF EnqueueNext, TypeOK
    <3>4. results' = results
      BY <2>6 DEF EnqueueNext
    <3> QED BY <3>2, <3>3, <3>4, <1>a, LinearFrame
  <2>7. CASE ScheduleRetry(w)
    <3>1. /\ jobs' = Added(AttemptJob(Exec(w), Key(w), Att(w) + 1))
          /\ pc[w] = "retry" /\ pc' = [pc EXCEPT ![w] = "finish"]
          /\ results' = results /\ job' = job
      BY <2>7 DEF ScheduleRetry
    <3>2. /\ Row(w) = "FAILED" /\ Att(w) \in Attempts
          /\ Exec(w) \in Execs /\ Key(w) \in Keys
      BY <3>1, <1>a, AttemptOfType DEF LinearInv, TypeOK, SlotsLinear, Exec, Key, Att
    <3>3. JobsStay
      BY <3>1, <1>a, AddedAttempts
    <3>4. AttemptsLinear'
      BY <3>1 DEF LinearInv, AttemptsLinear
    <3>5. JobsLinear'
      <4> SUFFICES ASSUME NEW e \in Execs, NEW k \in Keys, NEW a \in Attempts,
                          jobs'[AttemptJob(e, k, a)] # "absent", NEW b \in 1 .. (a - 1)
                   PROVE  results'[e][k][b] = "FAILED"
        BY DEF JobsLinear
      <4>1. CASE AttemptJob(e, k, a) = AttemptJob(Exec(w), Key(w), Att(w) + 1)
        <5>1. e = Exec(w) /\ k = Key(w) /\ a = Att(w) + 1
          BY <4>1 DEF AttemptJob
        <5>2. b = Att(w) \/ b \in 1 .. (Att(w) - 1)
          BY <5>1, <3>2 DEF Attempts
        <5>3. results[e][k][Att(w)] # "none"
          BY <5>1, <3>2 DEF Row
        <5> QED BY <5>1, <5>2, <5>3, <3>1, <3>2 DEF LinearInv, AttemptsLinear, Row
      <4>2. CASE AttemptJob(e, k, a) # AttemptJob(Exec(w), Key(w), Att(w) + 1)
        BY <4>2, <3>1, <1>a, AddedAttempts DEF LinearInv, JobsLinear
      <4> QED BY <4>1, <4>2
    <3>6. SlotsLinear'
      <4> SUFFICES ASSUME NEW v \in Workers
                   PROVE  /\ pc'[v] # "idle" => jobs'[job'[v]] # "absent"
                          /\ pc'[v] = "retry" => Att(v)' < MaxAttempts /\ Row(v)' = "FAILED"
        BY DEF SlotsLinear
      <4>1. pc[v] # "idle" => job[v] \in JobIds /\ jobs'[job[v]] # "absent"
        BY <3>3, <1>a DEF LinearInv, TypeOK, SlotsLinear, JobsStay
      <4>2. (pc'[v] = "finish" /\ pc[v] # "idle") \/ pc'[v] = pc[v]
        BY <3>1, <1>a DEF TypeOK
      <4> QED BY <4>1, <4>2, <3>1 DEF LinearInv, SlotsLinear, Att, Row, Exec, Key
    <3> QED BY <3>4, <3>5, <3>6, <1>a DEF LinearInv
  <2>8. CASE Finish(w)
    <3>1. \A i \in JobIds : jobs'[i] = jobs[i] \/ (i = job[w] /\ jobs'[i] = "completed")
      BY <2>8, <1>a DEF Finish, TypeOK
    <3>2. jobs[job[w]] # "absent"
      BY <2>8 DEF Finish, LinearInv, SlotsLinear
    <3> QED BY <2>8, <3>1, <3>2, <1>5 DEF Finish, JobsStay
  <2>9. CASE Throw(w)
    <3>1. \A i \in JobIds : jobs'[i] = jobs[i] \/ (i = job[w] /\ jobs'[i] # "absent")
      BY <2>9, <1>a DEF Throw, TypeOK
    <3>2. jobs[job[w]] # "absent"
      BY <2>9 DEF Throw, LinearInv, SlotsLinear
    <3> QED BY <2>9, <3>1, <3>2, <1>5 DEF Throw, JobsStay
  <2> QED
    BY <1>6, <2>1, <2>2, <2>3, <2>4, <2>5, <2>6, <2>7, <2>8, <2>9 DEF Handle
<1>7. ASSUME NEW w \in Workers, Disturb(w) PROVE LinearInv'
  <2>1. CASE Fault(w)
    <3>1. PICK label \in {"recordFailed", "throw"} :
              pc' = [pc EXCEPT ![w] = label] /\ pc[w] # "idle"
      BY <2>1 DEF Fault, Goto
    <3>2. label \in PCs \ {"retry"}
      BY DEF PCs
    <3> QED BY <2>1, <3>1, <3>2, <1>4 DEF Fault
  <2>2. CASE Crash(w)
    BY <2>2, <1>5 DEF Crash, JobsStay
  <2>3. CASE LockExpires(w)
    BY <2>3, <1>a, LinearFrame DEF LockExpires, JobsStay
  <2> QED BY <1>7, <2>1, <2>2, <2>3 DEF Disturb
<1>8. ASSUME NEW j \in JobIds, Redeliver(j) PROVE LinearInv'
  <2>1. JobsStay /\ \A i \in JobIds : jobs'[i] # "absent" => jobs[i] # "absent"
    BY <1>8, <1>a DEF Redeliver, TypeOK, JobsStay
  <2> QED BY <1>8, <2>1, <1>a, <1>b, LinearFrame DEF Redeliver
<1>9. CASE UNCHANGED vars
  BY <1>9, <1>a, LinearFrame DEF vars, JobsStay
<1> QED
  BY <1>1, <1>2, <1>3, <1>6, <1>7, <1>8, <1>9 DEF Next

\* For any number of slots, redeliveries, joins and faults: the row of an
\* attempt exists only when all earlier attempts of that step failed, so no
\* step of an execution is ever recorded as succeeded twice.
THEOREM AttemptsAreLinear == Spec => []AttemptsLinear
<1>1. LinearInv => AttemptsLinear
  BY DEF LinearInv
<1> QED BY <1>1, InitLinear, NextLinear, PTL DEF Spec

-----------------------------------------------------------------------------
(* What follows from linear attempts: an execution never takes back what   *)
(* its rows and jobs show.                                                 *)

\* What the rows of step k of e, or a row of it, say of its outcome
OutcomeRule(e, k) ==
    /\ \A a \in Attempts : results[e][k][a] \in Outputs => Outcome(e, k) = results[e][k][a]
    /\ results[e][k][MaxAttempts] = "FAILED" <=> Outcome(e, k) = "FAILED"
    /\ Outcome(e, k) \in Outputs => \E a \in Attempts : results[e][k][a] = Outcome(e, k)
    /\ Outcome(e, k) \in Outcomes

OutcomeRules == \A e \in Execs, k \in Keys : OutcomeRule(e, k)

\* As attempts are linear, a step settles on the outcome that any of its rows
\* shows.
LEMMA RowsSettle == TypeOK /\ AttemptsLinear => OutcomeRules
<1> SUFFICES ASSUME TypeOK, AttemptsLinear, NEW e \in Execs, NEW k \in Keys
             PROVE  OutcomeRule(e, k)
  BY DEF OutcomeRules
<1>1. /\ MaxAttempts \in Attempts /\ Attempts \subseteq Nat
      /\ \A b, c \in Attempts : b < c => b \in 1 .. (c - 1)
      /\ \A b \in Attempts : b <= MaxAttempts
  BY EngineAssumption DEF EngineAssumption, Attempts
<1>2. \A b, c \in Attempts : results[e][k][b] \in Outputs /\ results[e][k][c] # "none" => c <= b
  BY <1>1 DEF AttemptsLinear, Outputs
<1>3. \A b, c \in Attempts :
          results[e][k][b] \in Outputs /\ results[e][k][c] \in Outputs => b = c
  BY <1>1, <1>2 DEF Outputs
<1>4. results[e][k][MaxAttempts] = "FAILED" => ~ \E b \in Attempts : results[e][k][b] \in Outputs
  BY <1>1, <1>2 DEF Outputs
<1>5. ASSUME NEW b \in Attempts, results[e][k][b] \in Outputs PROVE Outcome(e, k) = results[e][k][b]
  <2>1. (CHOOSE c \in Attempts : results[e][k][c] \in Outputs) = b
    BY <1>3, <1>5
  <2> QED BY <1>5, <2>1 DEF Outcome
<1>6. (~ \E b \in Attempts : results[e][k][b] \in Outputs) =>
          Outcome(e, k) = IF results[e][k][MaxAttempts] = "FAILED" THEN "FAILED" ELSE "none"
  BY DEF Outcome
<1> QED BY <1>1, <1>4, <1>5, <1>6 DEF OutcomeRule, Outputs, Outcomes

\* An execution that is not closed
IsOpen(e) == status[e] \in {"NONE", "RUNNING"}

\* What no step takes back: rows, jobs, and that an execution exists or is
\* closed.
Grows ==
    /\ RowsStay /\ JobsStay
    /\ \A e \in Execs : /\ status[e] # "NONE" => status'[e] # "NONE"
                        /\ IsOpen(e)' => IsOpen(e)

\* Every step lets the state grow.
LEMMA NextGrows ==
    ASSUME LinearInv, LinearInv', [Next]_vars
    PROVE  Grows
<1> USE DEF rowVars, queueVars, slotVars
<1>t. /\ TypeOK /\ status \in [Execs -> Statuses]
      /\ \A w \in Workers : pc[w] # "idle" => /\ job[w] \in JobIds /\ jobs[job[w]] # "absent"
                                              /\ Exec(w) \in Execs /\ Key(w) \in Keys
                                              /\ Att(w) \in Attempts
  BY AttemptOfType DEF LinearInv, TypeOK, SlotsLinear, Exec, Key, Att
<1>s. ASSUME UNCHANGED <<results, status>>, JobsStay PROVE Grows
  BY <1>s DEF Grows, RowsStay, IsOpen
<1>c. ASSUME UNCHANGED <<results, jobs>>, NEW e \in Execs, NEW new \in {"SUCCESS", "FAILED"},
             status' = [status EXCEPT ![e] = new]
      PROVE  Grows
  BY <1>c, <1>t DEF Grows, RowsStay, JobsStay, IsOpen
<1>r. ASSUME UNCHANGED <<jobs, status>>, NEW w \in Workers, pc[w] # "idle", Row(w) = "none",
             NEW o, results' = [results EXCEPT ![Exec(w)][Key(w)][Att(w)] = o]
      PROVE  Grows
  <2>1. \A e \in Execs, k \in Keys, a \in Attempts :
            <<e, k, a>> # <<Exec(w), Key(w), Att(w)>> => results'[e][k][a] = results[e][k][a]
    BY <1>r, <1>t DEF TypeOK
  <2> QED BY <1>r, <1>t, <2>1 DEF Grows, RowsStay, JobsStay, IsOpen, Row
<1>1. ASSUME NEW e \in Execs, CreateExecution(e) \/ EnqueueTrigger(e) \/ LaunchLost(e) \/ Cancel(e)
      PROVE  Grows
  <2>1. CASE CreateExecution(e) \/ Cancel(e)
    BY <1>t, <2>1 DEF CreateExecution, Cancel, Grows, RowsStay, JobsStay, IsOpen
  <2>2. CASE EnqueueTrigger(e)
    BY <1>s, <1>t, <2>2, AddedType DEF EnqueueTrigger, JobsStay
  <2>3. CASE LaunchLost(e)
    BY <1>s, <2>3 DEF LaunchLost, JobsStay
  <2> QED BY <1>1, <2>1, <2>2, <2>3
<1>2. ASSUME NEW w \in Workers, NEW j \in JobIds, Take(w, j) PROVE Grows
  BY <1>2, <1>s, <1>t DEF Take, JobsStay, TypeOK
<1>3. ASSUME NEW w \in Workers, Handle(w) PROVE Grows
  <2>1. CASE Load(w) \/ RunStep(w) \/ Deepen(w)
    BY <1>s, <2>1 DEF Load, RunStep, Deepen, JobsStay
  <2>2. CASE FailTooDeep(w) \/ MarkSuccess(w) \/ FailExecution(w)
    BY <1>c, <1>t, <2>2 DEF FailTooDeep, MarkSuccess, FailExecution
  <2>3. CASE RecordSuccess(w)
    <3>1. CASE Row(w) = "none"
      BY <1>r, <2>3, <3>1 DEF RecordSuccess
    <3>2. CASE Row(w) # "none"
      BY <1>s, <2>3, <3>2 DEF RecordSuccess, JobsStay
    <3> QED BY <3>1, <3>2
  <2>4. CASE RecordFailure(w)
    <3>1. CASE Row(w) = "none"
      BY <1>r, <2>4, <3>1 DEF RecordFailure
    <3>2. CASE Row(w) # "none"
      BY <1>s, <2>4, <3>2 DEF RecordFailure, JobsStay
    <3> QED BY <3>1, <3>2
  <2>5. ASSUME NEW t \in Transitions, EnqueueNext(w, t) PROVE Grows
    BY <1>s, <1>t, <2>5, AddedType DEF EnqueueNext, AddStamped, JobsStay
  <2>6. CASE ScheduleRetry(w)
    BY <1>s, <1>t, <2>6, AddedType DEF ScheduleRetry, JobsStay
  <2>7. CASE Finish(w)
    BY <1>s, <1>t, <2>7 DEF Finish, JobsStay, TypeOK
  <2>8. CASE Throw(w)
    BY <1>s, <1>t, <2>8 DEF Throw, JobsStay, TypeOK
  <2> QED BY <1>3, <2>1, <2>2, <2>3, <2>4, <2>5, <2>6, <2>7, <2>8 DEF Handle
<1>4. ASSUME NEW w \in Workers, Disturb(w) PROVE Grows
  BY <1>4, <1>s DEF Disturb, Fault, Crash, LockExpires, JobsStay
<1>5. ASSUME NEW j \in JobIds, Redeliver(j) PROVE Grows
  BY <1>5, <1>s, <1>t DEF Redeliver, JobsStay, TypeOK
<1>6. CASE UNCHANGED vars
  BY <1>6, <1>s DEF vars, JobsStay
<1> QED BY <1>1, <1>2, <1>3, <1>4, <1>5, <1>6 DEF Next

-----------------------------------------------------------------------------
(* What an execution accumulates.                                          *)

\* How many rows say that a step of e succeeded
Size(e) == Cardinality(SuccessRows(e))

Stamps       == 1 .. MaxStamps
Stamped(e, k) == {s \in Stamps : jobs[StampJob(e, k, s)] # "absent"}

\* The transitions that row o of attempt a of step k opens
FollowUps(k, a, o) ==
    IF o \in Outputs THEN Matching(k, o, FALSE)
    ELSE IF o = "FAILED" /\ a = MaxAttempts THEN Fallbacks(k) ELSE {}

Follows(w) == FollowUps(Key(w), Att(w), Row(w))

\* All that attempt a of step k leads to has been queued.
Followed(e, k, a) ==
    /\ results[e][k][a] # "none"
    /\ \A t \in FollowUps(k, a, results[e][k][a]) : Stamped(e, t.dst) # {}
    /\ results[e][k][a] = "FAILED" /\ a < MaxAttempts => jobs[AttemptJob(e, k, a + 1)] # "absent"

\* Step k is the trigger, or a settled step opened it.
IsReached(e, k) ==
    \/ k = Trigger
    \/ \E t \in Transitions : t.dst = k /\ t \in Opened(t.src, Outcome(e, t.src))

\* The rows that say a step succeeded are finitely many.
SizeRule == \A e \in Execs : IsFiniteSet(SuccessRows(e)) /\ Size(e) \in Nat

\* There are finitely many keys and attempts.
LEMMA SizeType == SizeRule
<1> SUFFICES ASSUME NEW e \in Execs PROVE IsFiniteSet(SuccessRows(e)) /\ Size(e) \in Nat
  BY DEF SizeRule
<1>1. IsFiniteSet(Keys) /\ IsFiniteSet(Attempts)
  BY CanvasAssumption, EngineAssumption, FS_Interval
     DEF CanvasAssumption, EngineAssumption, Attempts
<1>2. IsFiniteSet(Keys \X Attempts)
  BY <1>1, FS_Product
<1>3. SuccessRows(e) \in SUBSET (Keys \X Attempts)
  BY DEF SuccessRows
<1> QED BY <1>2, <1>3, FS_Subset, FS_CardinalityType DEF Size

\* What has been accumulated stays.
LEMMA Accumulates ==
    ASSUME LinearInv, LinearInv', Grows, NEW e \in Execs
    PROVE  /\ Size(e)' \in Nat /\ Size(e) \in Nat /\ Size(e) <= Size(e)'
           /\ \A k \in Keys : /\ Outcome(e, k) # "none" => Outcome(e, k)' = Outcome(e, k)
                              /\ Stamped(e, k) \subseteq Stamped(e, k)'
                              /\ IsReached(e, k) => IsReached(e, k)'
                              /\ \A a \in Attempts : Followed(e, k, a) => Followed(e, k, a)'
<1>t. TypeOK /\ TypeOK' /\ AttemptsLinear /\ AttemptsLinear' /\ RowsStay /\ JobsStay
      /\ MaxAttempts \in Attempts /\ Attempts \subseteq Nat
  BY EngineAssumption DEF LinearInv, Grows, EngineAssumption, Attempts
<1>r. OutcomeRules /\ OutcomeRules'
  BY <1>t, RowsSettle, PTL
<1>1. Size(e) \in Nat /\ Size(e)' \in Nat /\ Size(e) <= Size(e)'
  <2>1. SizeRule /\ SizeRule'
    BY <1>t, SizeType, PTL
  <2>2. SuccessRows(e) \in SUBSET SuccessRows(e)'
    <3> SUFFICES ASSUME NEW k \in Keys, NEW a \in Attempts, results[e][k][a] \in Outputs
                 PROVE  results'[e][k][a] \in Outputs
      BY DEF SuccessRows
    <3> QED BY <1>t DEF RowsStay, Outputs
  <2> QED BY <2>1, <2>2, FS_Subset DEF SizeRule, Size
<1>2. ASSUME NEW k \in Keys, Outcome(e, k) # "none" PROVE Outcome(e, k)' = Outcome(e, k)
  <2>r. OutcomeRule(e, k) /\ OutcomeRule(e, k)'
    BY <1>r DEF OutcomeRules
  <2>1. CASE Outcome(e, k) \in Outputs
    <3>1. PICK b \in Attempts : results[e][k][b] = Outcome(e, k)
      BY <2>1, <2>r DEF OutcomeRule
    <3>2. results'[e][k][b] = Outcome(e, k)
      BY <1>t, <2>1, <3>1 DEF RowsStay, Outputs
    <3> QED BY <2>1, <2>r, <3>2 DEF OutcomeRule
  <2>2. CASE Outcome(e, k) = "FAILED"
    <3>1. results'[e][k][MaxAttempts] = "FAILED"
      BY <1>t, <2>2, <2>r DEF RowsStay, OutcomeRule
    <3> QED BY <2>2, <2>r, <3>1 DEF OutcomeRule
  <2> QED BY <1>2, <2>1, <2>2, <2>r DEF OutcomeRule, Outcomes
<1>3. ASSUME NEW k \in Keys PROVE Stamped(e, k) \subseteq Stamped(e, k)'
  <2>1. \A s \in Stamps : StampJob(e, k, s) \in JobIds
    BY DEF StampJob, JobIds, Stamps
  <2> QED BY <1>t, <2>1 DEF Stamped, JobsStay
<1>4. \A t \in Transitions : t.src \in Keys /\ t.dst \in Keys
  BY CanvasAssumption DEF CanvasAssumption
<1>5. ASSUME NEW k \in Keys, IsReached(e, k) PROVE IsReached(e, k)'
  BY <1>2, <1>4, <1>5 DEF IsReached, Opened, Outputs
<1>6. ASSUME NEW k \in Keys, NEW a \in Attempts, Followed(e, k, a) PROVE Followed(e, k, a)'
  <2>1. results'[e][k][a] = results[e][k][a]
    BY <1>t, <1>6 DEF Followed, RowsStay
  <2>2. \A t \in FollowUps(k, a, results[e][k][a]) : t.dst \in Keys
    BY <1>4 DEF FollowUps, Fallbacks, Matching
  <2>3. a < MaxAttempts => AttemptJob(e, k, a + 1) \in JobIds
    BY EngineAssumption DEF AttemptJob, JobIds, Attempts, EngineAssumption
  <2> QED BY <1>t, <1>3, <1>6, <2>1, <2>2, <2>3 DEF Followed, JobsStay
<1> QED BY <1>1, <1>2, <1>3, <1>5, <1>6

-----------------------------------------------------------------------------
(* The handlers and the queue.  A handler never forgets what the row it    *)
(* wrote leads to, and a job is not completed before that is queued.       *)

\* What the position of slot w says of the row it is about.
SlotFact(w) ==
    /\ pc[w] \in {"run", "record"} => seen[w] <= Size(Exec(w))
    /\ pc[w] = "deepen" => Row(w) = out[w] /\ seen[w] < Size(Exec(w))
    /\ pc[w] = "tooDeep" => MaxDepth <= Size(Exec(w))
    /\ pc[w] \in {"succeed", "enqueue"} => Row(w) \in Outputs
    /\ pc[w] \in {"fallback", "fail"} => Row(w) = "FAILED" /\ Att(w) = MaxAttempts
    /\ pc[w] \in {"succeed", "fail"} => Follows(w) = {}
    /\ pc[w] \in {"enqueue", "fallback"} =>
           /\ todo[w] \subseteq Follows(w)
           /\ \A t \in Follows(w) \ todo[w] : Stamped(Exec(w), t.dst) # {}
    /\ pc[w] = "finish" /\ IsOpen(Exec(w)) => Followed(Exec(w), Key(w), Att(w))

\* What a job says of its execution and its step.
JobFact(j) ==
    /\ jobs[j] = "completed" /\ IsOpen(j.exec) => Followed(j.exec, j.key, AttemptOf(j))
    /\ jobs[j] # "absent" => status[j.exec] # "NONE" /\ IsReached(j.exec, j.key)

\* A row was written for a job.
RowFact(e, k, a) ==
    results[e][k][a] # "none" =>
        \E j \in JobIds : j.exec = e /\ j.key = k /\ AttemptOf(j) = a /\ jobs[j] # "absent"

\* What an execution's counters say.
ExecFact(e) ==
    /\ depth[e] <= Size(e)
    /\ launch[e] = "created" => status[e] # "NONE"

Facts ==
    /\ \A w \in Workers : SlotFact(w)
    /\ \A j \in JobIds : JobFact(j)
    /\ \A e \in Execs, k \in Keys, a \in Attempts : RowFact(e, k, a)
    /\ \A e \in Execs : ExecFact(e)

\* The slot of a busy handler
LEMMA Busy ==
    ASSUME LinearInv, NEW w \in Workers, pc[w] # "idle"
    PROVE  /\ job[w] \in JobIds /\ jobs[job[w]] # "absent"
           /\ Exec(w) \in Execs /\ Key(w) \in Keys /\ Att(w) \in Attempts
           /\ Exec(w) = job[w].exec /\ Key(w) = job[w].key /\ Att(w) = AttemptOf(job[w])
           /\ Row(w) \in Outcomes
BY AttemptOfType DEF LinearInv, TypeOK, SlotsLinear, Exec, Key, Att, Row

\* A slot that a step leaves alone keeps its facts.
LEMMA SlotStays ==
    ASSUME LinearInv, LinearInv', Grows, NEW w \in Workers, SlotFact(w),
           pc'[w] = pc[w], job'[w] = job[w], seen'[w] = seen[w], out'[w] = out[w], todo'[w] = todo[w]
    PROVE  SlotFact(w)'
<1>1. CASE pc[w] = "idle"
  BY <1>1 DEF SlotFact
<1>2. CASE pc[w] # "idle"
  <2>1. /\ Exec(w) \in Execs /\ Key(w) \in Keys /\ Att(w) \in Attempts
        /\ Exec(w)' = Exec(w) /\ Key(w)' = Key(w) /\ Att(w)' = Att(w)
    BY <1>2, Busy DEF Exec, Key, Att
  <2>2. /\ Size(Exec(w)) <= Size(Exec(w))' /\ Size(Exec(w)) \in Nat /\ Size(Exec(w))' \in Nat
        /\ \A k \in Keys : Stamped(Exec(w), k) \subseteq Stamped(Exec(w), k)'
        /\ Followed(Exec(w), Key(w), Att(w)) => Followed(Exec(w), Key(w), Att(w))'
        /\ IsOpen(Exec(w))' => IsOpen(Exec(w))
    <3>1. ASSUME NEW e \in Execs, Exec(w) = e
          PROVE  /\ Size(Exec(w)) <= Size(Exec(w))' /\ Size(Exec(w)) \in Nat /\ Size(Exec(w))' \in Nat
                 /\ \A k \in Keys : Stamped(Exec(w), k) \subseteq Stamped(Exec(w), k)'
                 /\ Followed(Exec(w), Key(w), Att(w)) => Followed(Exec(w), Key(w), Att(w))'
                 /\ IsOpen(Exec(w))' => IsOpen(Exec(w))
      <4>1. Exec(w)' = e
        BY <2>1, <3>1
      <4>2. Size(Exec(w))' = Size(e)' /\ Size(Exec(w)) = Size(e)
        BY <3>1, <4>1 DEF Size, SuccessRows
      <4>3. \A k \in Keys : Stamped(Exec(w), k)' = Stamped(e, k)' /\ Stamped(Exec(w), k) = Stamped(e, k)
        BY <3>1, <4>1 DEF Stamped
      <4>4. /\ Followed(Exec(w), Key(w), Att(w))' <=> Followed(e, Key(w), Att(w))'
            /\ Followed(Exec(w), Key(w), Att(w)) <=> Followed(e, Key(w), Att(w))
        BY <3>1, <4>1 DEF Followed, Stamped
      <4>5. Followed(e, Key(w), Att(w)) => Followed(e, Key(w), Att(w))'
        <5>1. ASSUME NEW k \in Keys, NEW a \in Attempts, Key(w) = k, Att(w) = a
              PROVE  Followed(e, Key(w), Att(w)) => Followed(e, Key(w), Att(w))'
          <6>1. Key(w)' = k /\ Att(w)' = a
            BY <2>1, <5>1
          <6>2. Followed(e, k, a) => Followed(e, k, a)'
            BY Accumulates
          <6> QED BY <5>1, <6>1, <6>2 DEF Followed
        <5> QED BY <2>1, <5>1
      <4>6. IsOpen(Exec(w))' <=> IsOpen(e)'
        BY <4>1 DEF IsOpen
      <4>7. IsOpen(e)' => IsOpen(e)
        BY DEF Grows
      <4>8. /\ Size(e) <= Size(e)' /\ Size(e) \in Nat /\ Size(e)' \in Nat
            /\ \A k \in Keys : Stamped(e, k) \subseteq Stamped(e, k)'
        BY Accumulates
      <4> QED BY <3>1, <4>2, <4>3, <4>4, <4>5, <4>6, <4>7, <4>8
    <3> QED BY <2>1, <3>1
  <2>3. Row(w) # "none" => Row(w)' = Row(w) /\ Follows(w)' = Follows(w)
    BY <2>1 DEF Grows, RowsStay, Row, Follows, FollowUps
  <2>4. \A t \in Follows(w) : t.dst \in Keys
    BY CanvasAssumption DEF CanvasAssumption, Follows, FollowUps, Fallbacks, Matching
  <2>5. seen[w] \in Nat /\ MaxDepth \in Nat /\ out[w] \in Outputs
    BY EngineAssumption DEF EngineAssumption, LinearInv, TypeOK
  <2>6. MaxDepth <= Size(Exec(w)) => MaxDepth <= Size(Exec(w))'
    BY <2>2, <2>5
  <2>7. /\ seen[w] <= Size(Exec(w)) => seen[w] <= Size(Exec(w))'
        /\ seen[w] < Size(Exec(w)) => seen[w] < Size(Exec(w))'
    BY <2>2, <2>5
  <2>8. /\ Row(w) = out[w] => Row(w) # "none"
        /\ Row(w) \in Outputs => Row(w) # "none"
        /\ Row(w) = "FAILED" => Row(w) # "none"
    BY <2>5 DEF Outputs
  <2>9. /\ pc[w] = "deepen" => Row(w)' = out[w]
        /\ pc[w] \in {"succeed", "enqueue"} => Row(w)' \in Outputs
        /\ pc[w] \in {"fallback", "fail"} => Row(w)' = "FAILED" /\ Att(w)' = MaxAttempts
        /\ pc[w] \in {"succeed", "enqueue", "fallback", "fail"} => Follows(w)' = Follows(w)
    BY <2>1, <2>3, <2>8 DEF SlotFact
  <2>10. pc[w] \in {"enqueue", "fallback"} =>
           /\ todo'[w] \subseteq Follows(w)'
           /\ \A t \in Follows(w)' \ todo'[w] : Stamped(Exec(w), t.dst)' # {}
    BY <2>2, <2>4, <2>9 DEF SlotFact
  <2>11. pc[w] = "finish" /\ IsOpen(Exec(w))' => Followed(Exec(w), Key(w), Att(w))'
    BY <2>2 DEF SlotFact
  <2> QED BY <2>6, <2>7, <2>9, <2>10, <2>11 DEF SlotFact
<1> QED BY <1>1, <1>2

\* What a slot that arrives at an await must have.
LEMMA SlotArrives ==
    ASSUME NEW w \in Workers, NEW e \in Execs, NEW k \in Keys, NEW a \in Attempts, NEW at,
           job'[w].exec = e, job'[w].key = k, AttemptOf(job'[w]) = a, pc'[w] = at,
           at \in {"run", "record"} => seen'[w] <= Size(e)',
           at = "deepen" => results'[e][k][a] = out'[w] /\ seen'[w] < Size(e)',
           at = "tooDeep" => MaxDepth <= Size(e)',
           at \in {"succeed", "enqueue"} => results'[e][k][a] \in Outputs,
           at \in {"fallback", "fail"} => results'[e][k][a] = "FAILED" /\ a = MaxAttempts,
           at \in {"succeed", "fail"} => FollowUps(k, a, results'[e][k][a]) = {},
           at \in {"enqueue", "fallback"} =>
               /\ todo'[w] \subseteq FollowUps(k, a, results'[e][k][a])
               /\ \A t \in FollowUps(k, a, results'[e][k][a]) \ todo'[w] : Stamped(e, t.dst)' # {},
           at = "finish" /\ IsOpen(e)' => Followed(e, k, a)'
    PROVE  SlotFact(w)'
<1>1. Exec(w)' = e /\ Key(w)' = k /\ Att(w)' = a
  BY DEF Exec, Key, Att
<1>2. Row(w)' = results'[e][k][a] /\ Follows(w)' = FollowUps(k, a, results'[e][k][a])
  BY <1>1 DEF Row, Follows, FollowUps
<1>3. Size(Exec(w))' = Size(e)'
  BY <1>1 DEF Size, SuccessRows
<1>4. \A x : Stamped(Exec(w), x)' = Stamped(e, x)'
  BY <1>1 DEF Stamped
<1>5. Followed(Exec(w), Key(w), Att(w))' <=> Followed(e, k, a)'
  BY <1>1 DEF Followed, Stamped
<1>6. IsOpen(Exec(w))' <=> IsOpen(e)'
  BY <1>1 DEF IsOpen
<1> QED BY <1>1, <1>2, <1>3, <1>4, <1>5, <1>6 DEF SlotFact

\* Only slot w moves.
OnlyMoves(w) ==
    \A v \in Workers : v # w => /\ pc'[v] = pc[v] /\ job'[v] = job[v] /\ seen'[v] = seen[v]
                                /\ out'[v] = out[v] /\ todo'[v] = todo[v]

\* A success row that a slot adds makes its execution larger.
LEMMA RowAdds ==
    ASSUME TypeOK, TypeOK', NEW e \in Execs, NEW k \in Keys, NEW a \in Attempts, NEW o \in Outputs,
           results[e][k][a] = "none", results' = [results EXCEPT ![e][k][a] = o]
    PROVE  Size(e)' = Size(e) + 1
<1>1. results'[e][k][a] = o
      /\ \A x \in Keys, y \in Attempts : <<x, y>> # <<k, a>> => results'[e][x][y] = results[e][x][y]
  BY DEF TypeOK
<1>2. SuccessRows(e)' = SuccessRows(e) \cup {<<k, a>>}
  <2>1. ASSUME NEW x \in Keys, NEW y \in Attempts
        PROVE  <<x, y>> \in SuccessRows(e)' <=> <<x, y>> \in SuccessRows(e) \cup {<<k, a>>}
    BY <1>1 DEF SuccessRows
  <2>2. SuccessRows(e)' \subseteq Keys \X Attempts
        /\ SuccessRows(e) \cup {<<k, a>>} \subseteq Keys \X Attempts
    BY DEF SuccessRows
  <2> QED BY <2>1, <2>2
<1>3. <<k, a>> \notin SuccessRows(e)
  BY DEF SuccessRows, Outputs
<1>4. IsFiniteSet(SuccessRows(e))
  BY SizeType DEF SizeRule
<1>5. Cardinality(SuccessRows(e)') = Cardinality(SuccessRows(e)) + 1
  BY <1>2, <1>3, <1>4, FS_AddElement
<1> QED BY <1>5 DEF Size

\* Each step of a handler arrives with the facts of its new await.
LEMMA HandlerArrives ==
    ASSUME LinearInv, LinearInv', Grows, Facts, NEW w \in Workers, Handle(w)
    PROVE  SlotFact(w)' /\ OnlyMoves(w)
<1> USE DEF Goto
<1>t. /\ TypeOK /\ TypeOK' /\ pc \in [Workers -> PCs] /\ job \in [Workers -> JobIds \cup {NoJob}]
      /\ seen \in [Workers -> Nat] /\ out \in [Workers -> Outputs]
      /\ todo \in [Workers -> SUBSET Transitions] /\ depth \in [Execs -> Nat]
      /\ status \in [Execs -> Statuses] /\ MaxDepth \in Nat /\ SlotFact(w)
      /\ MaxAttempts \in Attempts /\ Attempts \subseteq 1 .. MaxAttempts
  BY EngineAssumption DEF LinearInv, TypeOK, EngineAssumption, Facts, Attempts
<1>0. pc[w] # "idle"
  BY DEF Handle, Load, FailTooDeep, RunStep, RecordSuccess, Deepen, MarkSuccess, EnqueueNext,
         RecordFailure, ScheduleRetry, FailExecution, Finish, Throw
<1>1. PICK e \in Execs, k \in Keys, a \in Attempts :
          e = Exec(w) /\ k = Key(w) /\ a = Att(w) /\ e = job[w].exec /\ k = job[w].key
          /\ a = AttemptOf(job[w]) /\ Row(w) = results[e][k][a]
  BY <1>0, Busy DEF Row
<1>2. /\ Size(e) \in Nat /\ Size(e)' \in Nat /\ Size(e) <= Size(e)'
      /\ \A x \in Keys : Stamped(e, x) \subseteq Stamped(e, x)'
  BY Accumulates
<1>m. ASSUME NEW at, pc' = [pc EXCEPT ![w] = at], UNCHANGED <<job, seen, out, todo>>
      PROVE  OnlyMoves(w) /\ pc'[w] = at
  BY <1>m, <1>t DEF OnlyMoves
<1>3. CASE Load(w)
  <2>1. OnlyMoves(w) /\ job' = job /\ seen'[w] = depth[e]
    BY <1>1, <1>3, <1>t DEF Load, OnlyMoves
  <2>2. pc'[w] = IF status[e] = "CANCELLED" THEN "finish"
                 ELSE IF depth[e] >= MaxDepth THEN "tooDeep" ELSE "run"
    BY <1>1, <1>3, <1>t DEF Load
  <2>3. depth[e] <= Size(e)' /\ depth[e] \in Nat
    BY <1>2, <1>t DEF Facts, ExecFact
  <2>4. status'[e] = status[e]
    BY <1>3 DEF Load, rowVars
  <2>5. CASE status[e] = "CANCELLED"
    BY <1>1, <2>1, <2>2, <2>4, <2>5, SlotArrives DEF IsOpen
  <2>6. CASE status[e] # "CANCELLED" /\ depth[e] >= MaxDepth
    <3>1. pc'[w] = "tooDeep" /\ MaxDepth <= Size(e)'
      BY <1>2, <1>t, <2>2, <2>3, <2>6
    <3> QED BY <1>1, <2>1, <3>1, SlotArrives
  <2>7. CASE status[e] # "CANCELLED" /\ ~(depth[e] >= MaxDepth)
    <3>1. pc'[w] = "run" /\ seen'[w] <= Size(e)'
      BY <2>1, <2>2, <2>3, <2>7
    <3> QED BY <1>1, <2>1, <3>1, SlotArrives
  <2> QED BY <2>1, <2>5, <2>6, <2>7
<1>4. CASE FailTooDeep(w) \/ MarkSuccess(w) \/ FailExecution(w)
  <2>1. OnlyMoves(w) /\ job' = job /\ pc'[w] = "finish" /\ ~IsOpen(e)'
    BY <1>1, <1>4, <1>m, <1>t DEF FailTooDeep, MarkSuccess, FailExecution, IsOpen
  <2> QED BY <1>1, <2>1, SlotArrives
<1>5. CASE RunStep(w)
  <2>1. /\ OnlyMoves(w) /\ job' = job /\ seen' = seen /\ pc[w] = "run"
        /\ pc'[w] \in {"record", "recordFailed"}
    BY <1>5, <1>t DEF RunStep, OnlyMoves
  <2>2. seen[w] <= Size(e)'
    <3>1. seen[w] <= Size(e) /\ seen[w] \in Nat
      BY <1>1, <1>t, <2>1 DEF SlotFact
    <3> QED BY <1>2, <3>1
  <2> QED BY <1>1, <2>1, <2>2, SlotArrives
<1>6. CASE RecordSuccess(w)
  <2>1. OnlyMoves(w) /\ UNCHANGED <<job, seen, out, todo>> /\ pc[w] = "record"
    BY <1>6, <1>t DEF RecordSuccess, OnlyMoves
  <2>2. CASE Row(w) = "none"
    <3>1. /\ results' = [results EXCEPT ![e][k][a] = out[w]] /\ results[e][k][a] = "none"
          /\ pc'[w] = "deepen" /\ out[w] \in Outputs
      BY <1>1, <1>6, <1>t, <2>2 DEF RecordSuccess
    <3>2. Size(e)' = Size(e) + 1
      BY <1>t, <3>1, RowAdds
    <3>3. seen[w] <= Size(e) /\ seen[w] \in Nat
      BY <1>1, <1>t, <2>1 DEF SlotFact
    <3>4. results'[e][k][a] = out[w]
      BY <1>t, <3>1 DEF TypeOK
    <3>5. seen'[w] < Size(e)' /\ out'[w] = out[w]
      BY <1>2, <2>1, <3>2, <3>3
    <3> QED BY <1>1, <2>1, <3>1, <3>4, <3>5, SlotArrives
  <2>3. CASE Row(w) # "none"
    <3>1. pc'[w] = "recordFailed"
      BY <1>6, <1>t, <2>3 DEF RecordSuccess
    <3> QED BY <1>1, <2>1, <3>1, SlotArrives
  <2> QED BY <2>2, <2>3
<1>7. CASE Deepen(w)
  <2>1. /\ OnlyMoves(w) /\ job' = job /\ results' = results /\ pc[w] = "deepen"
        /\ todo'[w] = Matching(k, out[w], FALSE)
        /\ pc'[w] = IF Matching(k, out[w], FALSE) = {} THEN "succeed" ELSE "enqueue"
    BY <1>1, <1>7, <1>t DEF Deepen, RouteSuccess, OnlyMoves
  <2>2. results[e][k][a] = out[w] /\ out[w] \in Outputs
    BY <1>1, <1>t, <2>1 DEF SlotFact
  <2>3. FollowUps(k, a, results'[e][k][a]) = Matching(k, out[w], FALSE)
    BY <2>1, <2>2 DEF FollowUps
  <2>4. CASE Matching(k, out[w], FALSE) = {}
    <3>1. pc'[w] = "succeed" /\ FollowUps(k, a, results'[e][k][a]) = {}
          /\ results'[e][k][a] \in Outputs
      BY <2>1, <2>2, <2>3, <2>4
    <3> QED BY <1>1, <2>1, <3>1, SlotArrives
  <2>5. CASE Matching(k, out[w], FALSE) # {}
    <3>1. /\ pc'[w] = "enqueue" /\ results'[e][k][a] \in Outputs
          /\ todo'[w] \subseteq FollowUps(k, a, results'[e][k][a])
          /\ FollowUps(k, a, results'[e][k][a]) \ todo'[w] = {}
      BY <2>1, <2>2, <2>3, <2>5
    <3> QED BY <1>1, <2>1, <3>1, SlotArrives
  <2> QED BY <2>1, <2>4, <2>5
<1>8. ASSUME NEW t \in Transitions, EnqueueNext(w, t) PROVE SlotFact(w)' /\ OnlyMoves(w)
  <2>1. /\ OnlyMoves(w) /\ job' = job /\ results' = results /\ pc[w] \in {"enqueue", "fallback"}
        /\ todo'[w] = todo[w] \ {t} /\ t \in todo[w]
        /\ pc'[w] = IF todo[w] = {t} THEN "finish" ELSE pc[w]
    <3>1. /\ job' = job /\ seen' = seen /\ out' = out /\ results' = results
          /\ pc[w] \in {"enqueue", "fallback"} /\ t \in todo[w]
          /\ todo' = [todo EXCEPT ![w] = todo[w] \ {t}]
          /\ pc' = IF todo[w] = {t} THEN [pc EXCEPT ![w] = "finish"] ELSE pc
      BY <1>8 DEF EnqueueNext, rowVars
    <3>2. /\ pc'[w] = IF todo[w] = {t} THEN "finish" ELSE pc[w]
          /\ \A v \in Workers : v # w => pc'[v] = pc[v]
      BY <1>t, <3>1
    <3>3. /\ todo'[w] = todo[w] \ {t}
          /\ \A v \in Workers : v # w => todo'[v] = todo[v]
      BY <1>t, <3>1
    <3> QED BY <3>1, <3>2, <3>3 DEF OnlyMoves
  <2>2. /\ todo[w] \subseteq FollowUps(k, a, results[e][k][a])
        /\ \A u \in FollowUps(k, a, results[e][k][a]) \ todo[w] : Stamped(e, u.dst) # {}
    BY <1>1, <1>t, <2>1 DEF SlotFact, Follows
  <2>3. /\ pc[w] = "enqueue" => results[e][k][a] \in Outputs
        /\ pc[w] = "fallback" => results[e][k][a] = "FAILED" /\ a = MaxAttempts
    BY <1>1, <1>t DEF SlotFact
  <2>4. Stamped(e, t.dst)' # {}
    <3>1. PICK s \in 1 .. MaxStamps :
              jobs' = Added(StampJob(e, t.dst, s)) /\ jobs[StampJob(e, t.dst, s)] \in {"absent", "waiting"}
      BY <1>1, <1>8 DEF EnqueueNext, AddStamped
    <3>2. t.dst \in Keys
      BY CanvasAssumption DEF CanvasAssumption
    <3>3. StampJob(e, t.dst, s) \in JobIds
      BY <3>2 DEF StampJob, JobIds
    <3>4. jobs'[StampJob(e, t.dst, s)] # "absent"
      BY <1>t, <3>1, <3>3 DEF Added, TypeOK
    <3> QED BY <3>4 DEF Stamped, Stamps
  <2>5. \A u \in FollowUps(k, a, results[e][k][a]) \ todo'[w] : Stamped(e, u.dst)' # {}
    <3>1. \A u \in FollowUps(k, a, results[e][k][a]) : u.dst \in Keys
      BY CanvasAssumption DEF CanvasAssumption, FollowUps, Fallbacks, Matching
    <3> QED BY <1>2, <2>1, <2>2, <2>4, <3>1
  <2>6. pc'[w] = "finish" => Followed(e, k, a)'
    <3>1. todo[w] = {t} => \A u \in FollowUps(k, a, results'[e][k][a]) : Stamped(e, u.dst)' # {}
      BY <2>1, <2>5
    <3>2. results'[e][k][a] # "none" /\ ~(results'[e][k][a] = "FAILED" /\ a < MaxAttempts)
      BY <1>t, <2>1, <2>3 DEF Outputs, Attempts
    <3>3. pc'[w] = "finish" => todo[w] = {t}
      BY <2>1
    <3> QED BY <3>1, <3>2, <3>3 DEF Followed
  <2>7. pc'[w] \in {"finish", "enqueue", "fallback"} /\ (pc'[w] # "finish" => pc'[w] = pc[w])
    BY <2>1
  <2>8. todo'[w] \subseteq FollowUps(k, a, results'[e][k][a])
    BY <2>1, <2>2
  <2>9. \A u \in FollowUps(k, a, results'[e][k][a]) \ todo'[w] : Stamped(e, u.dst)' # {}
    BY <2>1, <2>5
  <2> QED BY <1>1, <2>1, <2>3, <2>6, <2>7, <2>8, <2>9, SlotArrives
<1>9. CASE RecordFailure(w)
  <2>1. /\ OnlyMoves(w) /\ job' = job /\ pc[w] = "recordFailed"
        /\ Row(w) # "none" => pc'[w] = "throw"
        /\ Row(w) = "none" => /\ results' = [results EXCEPT ![e][k][a] = "FAILED"]
                              /\ todo'[w] = IF a >= MaxAttempts THEN Fallbacks(k) ELSE {}
                              /\ a < MaxAttempts => pc'[w] = "retry"
                              /\ a >= MaxAttempts =>
                                     pc'[w] = IF Fallbacks(k) # {} THEN "fallback" ELSE "fail"
    <3>1. CASE Row(w) # "none"
      <4>1. /\ UNCHANGED <<job, seen, out, todo>> /\ pc[w] = "recordFailed"
            /\ pc' = [pc EXCEPT ![w] = "throw"]
        BY <1>9, <3>1 DEF RecordFailure
      <4> QED BY <3>1, <4>1, <1>m
    <3>2. CASE Row(w) = "none"
      <4> DEFINE next  == IF a >= MaxAttempts THEN Fallbacks(k) ELSE {}
                 label == IF ~(a >= MaxAttempts) THEN "retry"
                          ELSE IF next # {} THEN "fallback" ELSE "fail"
      <4>1. /\ UNCHANGED <<job, seen, out>> /\ pc[w] = "recordFailed"
            /\ pc' = [pc EXCEPT ![w] = label] /\ todo' = [todo EXCEPT ![w] = next]
            /\ results' = [results EXCEPT ![e][k][a] = "FAILED"]
        BY <1>1, <1>9, <3>2 DEF RecordFailure, RouteFailure
      <4>2. /\ a < MaxAttempts => label = "retry"
            /\ a >= MaxAttempts => label = IF Fallbacks(k) # {} THEN "fallback" ELSE "fail"
        BY <1>t DEF Attempts
      <4>3. pc'[w] = label /\ todo'[w] = next /\ OnlyMoves(w)
        <5> HIDE DEF label, next
        <5> QED BY <1>t, <4>1 DEF OnlyMoves
      <4> QED BY <3>2, <4>1, <4>2, <4>3
    <3> QED BY <3>1, <3>2
  <2>2. CASE Row(w) # "none"
    BY <1>1, <2>1, <2>2, SlotArrives
  <2>3. CASE Row(w) = "none" /\ a < MaxAttempts
    BY <1>1, <2>1, <2>3, SlotArrives
  <2>4. CASE Row(w) = "none" /\ ~(a < MaxAttempts)
    <3>1. a = MaxAttempts /\ a >= MaxAttempts
      BY <1>t, <2>4, EngineAssumption DEF Attempts, EngineAssumption
    <3>2. results'[e][k][a] = "FAILED"
      BY <1>t, <2>1, <2>4 DEF TypeOK
    <3>3. FollowUps(k, a, results'[e][k][a]) = Fallbacks(k)
      BY <3>1, <3>2 DEF FollowUps, Outputs
    <3>4. todo'[w] = Fallbacks(k) /\ job'[w] = job[w]
          /\ pc'[w] = IF Fallbacks(k) # {} THEN "fallback" ELSE "fail"
      BY <2>1, <2>4, <3>1
    <3>5. CASE Fallbacks(k) = {}
      <4>1. pc'[w] = "fail" /\ FollowUps(k, a, results'[e][k][a]) = {}
        BY <3>3, <3>4, <3>5
      <4> QED BY <1>1, <2>1, <3>1, <3>2, <3>4, <4>1, SlotArrives
    <3>6. CASE Fallbacks(k) # {}
      <4>1. /\ pc'[w] = "fallback" /\ todo'[w] \subseteq FollowUps(k, a, results'[e][k][a])
            /\ FollowUps(k, a, results'[e][k][a]) \ todo'[w] = {}
        BY <3>3, <3>4, <3>6
      <4> QED BY <1>1, <2>1, <3>1, <3>2, <3>4, <4>1, SlotArrives
    <3> QED BY <2>1, <3>5, <3>6
  <2> QED BY <2>1, <2>2, <2>3, <2>4
<1>10. CASE ScheduleRetry(w)
  <2>1. /\ OnlyMoves(w) /\ job' = job /\ results' = results /\ pc[w] = "retry" /\ pc'[w] = "finish"
        /\ jobs' = Added(AttemptJob(e, k, a + 1))
    <3>1. /\ UNCHANGED <<job, seen, out, todo>> /\ results' = results /\ pc[w] = "retry"
          /\ pc' = [pc EXCEPT ![w] = "finish"]
          /\ jobs' = Added(AttemptJob(Exec(w), Key(w), Att(w) + 1))
      BY <1>10 DEF ScheduleRetry, rowVars
    <3> QED BY <1>1, <1>m, <3>1
  <2>2. results[e][k][a] = "FAILED" /\ a < MaxAttempts /\ MaxAttempts \in Nat
    BY <1>1, <2>1, EngineAssumption DEF LinearInv, SlotsLinear, EngineAssumption
  <2>3. AttemptJob(e, k, a + 1) \in JobIds
    BY <2>2 DEF AttemptJob, JobIds, Attempts
  <2>4. jobs'[AttemptJob(e, k, a + 1)] # "absent"
    BY <1>t, <2>1, <2>3 DEF Added, TypeOK
  <2>5. FollowUps(k, a, results'[e][k][a]) = {}
    BY <2>1, <2>2 DEF FollowUps, Outputs
  <2>6. Followed(e, k, a)'
    BY <2>1, <2>2, <2>4, <2>5 DEF Followed
  <2> QED BY <1>1, <2>1, <2>6, SlotArrives
<1>11. CASE Finish(w) \/ Throw(w)
  <2>1. OnlyMoves(w) /\ pc'[w] = "idle"
    BY <1>11, <1>t DEF Finish, Throw, Release, OnlyMoves
  <2> QED BY <2>1 DEF SlotFact
<1> QED
  BY <1>3, <1>4, <1>5, <1>6, <1>7, <1>8, <1>9, <1>10, <1>11 DEF Handle

\* Slots that a step does not move keep their facts, a moved one arrives with
\* its own.
LEMMA NextSlots ==
    ASSUME LinearInv, LinearInv', Grows, Facts, [Next]_vars
    PROVE  \A w \in Workers : SlotFact(w)'
<1> USE DEF rowVars, queueVars, slotVars
<1>t. /\ pc \in [Workers -> PCs] /\ job \in [Workers -> JobIds \cup {NoJob}]
      /\ seen \in [Workers -> Nat] /\ out \in [Workers -> Outputs]
      /\ todo \in [Workers -> SUBSET Transitions]
  BY DEF LinearInv, TypeOK
<1>s. ASSUME UNCHANGED slotVars PROVE \A w \in Workers : SlotFact(w)'
  BY <1>s, SlotStays DEF Facts
<1>m. ASSUME NEW w \in Workers, OnlyMoves(w),
             SlotFact(w)' \/ pc'[w] \in {"load", "recordFailed", "throw", "idle"}
      PROVE  \A v \in Workers : SlotFact(v)'
  <2>1. SlotFact(w)'
    BY <1>m DEF SlotFact
  <2>2. \A v \in Workers \ {w} : SlotFact(v)'
    BY <1>m, SlotStays DEF OnlyMoves, Facts
  <2> QED BY <2>1, <2>2
<1>1. ASSUME NEW e \in Execs, CreateExecution(e) \/ EnqueueTrigger(e) \/ LaunchLost(e) \/ Cancel(e)
      PROVE  UNCHANGED slotVars
  BY <1>1 DEF CreateExecution, EnqueueTrigger, LaunchLost, Cancel
<1>2. ASSUME NEW w \in Workers, NEW j \in JobIds, Take(w, j)
      PROVE  OnlyMoves(w) /\ pc'[w] = "load"
  BY <1>2, <1>t DEF Take, Goto, OnlyMoves
<1>3. ASSUME NEW w \in Workers, Handle(w) PROVE OnlyMoves(w) /\ SlotFact(w)'
  BY <1>3, HandlerArrives
<1>4. ASSUME NEW w \in Workers, Fault(w)
      PROVE  OnlyMoves(w) /\ pc'[w] \in {"recordFailed", "throw"}
  BY <1>4, <1>t DEF Fault, Goto, OnlyMoves
<1>5. ASSUME NEW w \in Workers, Crash(w) PROVE OnlyMoves(w) /\ pc'[w] = "idle"
  BY <1>5, <1>t DEF Crash, Release, Goto, OnlyMoves
<1>6. ASSUME NEW w \in Workers, LockExpires(w) PROVE UNCHANGED slotVars
  BY <1>6 DEF LockExpires
<1>7. ASSUME NEW j \in JobIds, Redeliver(j) PROVE UNCHANGED slotVars
  BY <1>7 DEF Redeliver
<1>8. CASE UNCHANGED vars
  BY <1>8, <1>s DEF vars
<1> QED BY <1>s, <1>m, <1>1, <1>2, <1>3, <1>4, <1>5, <1>6, <1>7, <1>8 DEF Next, Disturb

\* What a job must have when it is added and when it completes.
LEMMA JobArrives ==
    ASSUME LinearInv, LinearInv', Grows, NEW j \in JobIds, JobFact(j),
           jobs'[j] = "completed" /\ jobs[j] # "completed" /\ IsOpen(j.exec) =>
               Followed(j.exec, j.key, AttemptOf(j)),
           jobs'[j] # "absent" /\ jobs[j] = "absent" =>
               status[j.exec] # "NONE" /\ IsReached(j.exec, j.key)
    PROVE  JobFact(j)'
<1>1. PICK e \in Execs, k \in Keys, a \in Attempts : e = j.exec /\ k = j.key /\ a = AttemptOf(j)
  BY AttemptOfType
<1>2. /\ Followed(e, k, a) => Followed(e, k, a)'
      /\ IsReached(e, k) => IsReached(e, k)'
      /\ IsOpen(e)' => IsOpen(e)
      /\ status[e] # "NONE" => status'[e] # "NONE"
  BY Accumulates DEF Grows
<1>3. /\ jobs'[j] = "completed" /\ IsOpen(e) => Followed(e, k, a)
      /\ jobs'[j] # "absent" => status[e] # "NONE" /\ IsReached(e, k)
  BY <1>1 DEF JobFact
<1> QED BY <1>1, <1>2, <1>3 DEF JobFact

\* A handler adds only jobs of steps that are reached, and completes its job
\* only when nothing of it is left to queue.
LEMMA NextJobs ==
    ASSUME LinearInv, LinearInv', Grows, Facts, [Next]_vars
    PROVE  \A j \in JobIds : JobFact(j)'
<1> USE DEF rowVars, queueVars, slotVars
<1>t. /\ TypeOK /\ \A j \in JobIds : JobFact(j)
      /\ OutcomeRules
  BY RowsSettle DEF LinearInv, Facts
<1>s. ASSUME \A j \in JobIds : jobs'[j] # jobs[j] =>
                 jobs[j] # "absent" /\ jobs'[j] # "completed"
      PROVE  \A j \in JobIds : JobFact(j)'
  BY <1>s, <1>t, JobArrives
<1>a. ASSUME NEW i \in JobIds, jobs' = Added(i), jobs[i] = "absent" =>
                 status[i.exec] # "NONE" /\ IsReached(i.exec, i.key)
      PROVE  \A j \in JobIds : JobFact(j)'
  <2>1. \A j \in JobIds : jobs'[j] # jobs[j] => j = i /\ jobs[i] = "absent" /\ jobs'[i] = "waiting"
    BY <1>a, <1>t DEF Added, TypeOK
  <2> QED BY <1>a, <1>t, <2>1, JobArrives
<1>b. ASSUME NEW w \in Workers, pc[w] # "idle"
      PROVE  status[Exec(w)] # "NONE" /\ IsReached(Exec(w), Key(w))
  BY <1>b, <1>t, Busy DEF JobFact
<1>1. ASSUME NEW e \in Execs, EnqueueTrigger(e) PROVE \A j \in JobIds : JobFact(j)'
  <2>1. jobs' = Added(AttemptJob(e, Trigger, 1)) /\ status[e] # "NONE"
    BY <1>1 DEF EnqueueTrigger, Facts, ExecFact
  <2>2. /\ AttemptJob(e, Trigger, 1) \in JobIds
        /\ AttemptJob(e, Trigger, 1).exec = e /\ AttemptJob(e, Trigger, 1).key = Trigger
    BY CanvasAssumption, EngineAssumption
       DEF CanvasAssumption, EngineAssumption, AttemptJob, JobIds, Attempts
  <2>3. IsReached(e, Trigger)
    BY DEF IsReached
  <2> QED BY <1>a, <2>1, <2>2, <2>3
<1>2. ASSUME NEW w \in Workers, NEW t \in Transitions, EnqueueNext(w, t)
      PROVE  \A j \in JobIds : JobFact(j)'
  <2>1. pc[w] \in {"enqueue", "fallback"} /\ t \in todo[w]
    BY <1>2 DEF EnqueueNext
  <2>2. PICK s \in 1 .. MaxStamps : jobs' = Added(StampJob(Exec(w), t.dst, s))
    BY <1>2 DEF EnqueueNext, AddStamped
  <2>3. Exec(w) \in Execs /\ Key(w) \in Keys /\ Att(w) \in Attempts
    BY <2>1, Busy
  <2>4. /\ t \in Follows(w)
        /\ Row(w) \in Outputs \/ (Row(w) = "FAILED" /\ Att(w) = MaxAttempts)
    BY <2>1 DEF Facts, SlotFact
  <2>5. t.src = Key(w) /\ t \in Opened(Key(w), Row(w)) /\ t.dst \in Keys
    BY <2>4, CanvasAssumption
       DEF Follows, FollowUps, Opened, Fallbacks, Matching, CanvasAssumption, Outputs
  <2>6. Outcome(Exec(w), Key(w)) = Row(w)
    BY <1>t, <2>3, <2>4 DEF OutcomeRules, OutcomeRule, Row, Outputs
  <2>7. IsReached(Exec(w), t.dst)
    BY <2>5, <2>6 DEF IsReached
  <2>8. /\ StampJob(Exec(w), t.dst, s) \in JobIds
        /\ StampJob(Exec(w), t.dst, s).exec = Exec(w) /\ StampJob(Exec(w), t.dst, s).key = t.dst
    BY <2>3, <2>5 DEF StampJob, JobIds
  <2>9. status[Exec(w)] # "NONE"
    BY <1>b, <2>1
  <2> QED BY <1>a, <2>2, <2>7, <2>8, <2>9
<1>3. ASSUME NEW w \in Workers, ScheduleRetry(w) PROVE \A j \in JobIds : JobFact(j)'
  <2>1. jobs' = Added(AttemptJob(Exec(w), Key(w), Att(w) + 1)) /\ pc[w] = "retry"
    BY <1>3 DEF ScheduleRetry
  <2>2. Exec(w) \in Execs /\ Key(w) \in Keys /\ Att(w) \in Attempts /\ Att(w) < MaxAttempts
    BY <2>1, Busy DEF LinearInv, SlotsLinear
  <2>3. /\ AttemptJob(Exec(w), Key(w), Att(w) + 1) \in JobIds
        /\ AttemptJob(Exec(w), Key(w), Att(w) + 1).exec = Exec(w)
        /\ AttemptJob(Exec(w), Key(w), Att(w) + 1).key = Key(w)
    BY <2>2, EngineAssumption DEF EngineAssumption, AttemptJob, JobIds, Attempts
  <2> QED BY <1>a, <1>b, <2>1, <2>3
<1>4. ASSUME NEW w \in Workers, Finish(w) PROVE \A j \in JobIds : JobFact(j)'
  <2>1. pc[w] = "finish" /\ \A j \in JobIds : jobs'[j] # jobs[j] => j = job[w]
    BY <1>4, <1>t DEF Finish, TypeOK
  <2>2. /\ job[w] \in JobIds /\ jobs[job[w]] # "absent"
        /\ IsOpen(job[w].exec) => Followed(job[w].exec, job[w].key, AttemptOf(job[w]))
    BY <2>1, Busy DEF Facts, SlotFact
  <2> QED BY <1>t, <2>1, <2>2, JobArrives
<1>5. ASSUME NEW w \in Workers, Throw(w) PROVE \A j \in JobIds : JobFact(j)'
  <2>1. pc[w] = "throw" /\ \A j \in JobIds : jobs'[j] # jobs[j] => j = job[w] /\ jobs'[j] # "completed"
    BY <1>5, <1>t DEF Throw, TypeOK
  <2>2. jobs[job[w]] # "absent"
    BY <2>1, Busy
  <2> QED BY <1>s, <2>1, <2>2
<1>6. ASSUME NEW w \in Workers, NEW j \in JobIds, Take(w, j) PROVE \A i \in JobIds : JobFact(i)'
  BY <1>6, <1>s, <1>t DEF Take, TypeOK
<1>7. ASSUME NEW j \in JobIds, Redeliver(j) PROVE \A i \in JobIds : JobFact(i)'
  BY <1>7, <1>s, <1>t DEF Redeliver, TypeOK
<1>8. ASSUME jobs' = jobs PROVE \A i \in JobIds : JobFact(i)'
  BY <1>8, <1>s
<1>9. ASSUME NEW e \in Execs, CreateExecution(e) \/ LaunchLost(e) \/ Cancel(e) PROVE jobs' = jobs
  BY <1>9 DEF CreateExecution, LaunchLost, Cancel
<1>10. ASSUME NEW w \in Workers,
              \/ Load(w) \/ FailTooDeep(w) \/ RunStep(w) \/ RecordSuccess(w) \/ Deepen(w)
              \/ MarkSuccess(w) \/ RecordFailure(w) \/ FailExecution(w) \/ Disturb(w)
       PROVE  jobs' = jobs
  BY <1>10 DEF Load, FailTooDeep, RunStep, RecordSuccess, Deepen, MarkSuccess, RecordFailure,
               FailExecution, Disturb, Fault, Crash, LockExpires
<1>11. CASE UNCHANGED vars
  BY <1>8, <1>11 DEF vars
<1> QED
  BY <1>1, <1>2, <1>3, <1>4, <1>5, <1>6, <1>7, <1>8, <1>9, <1>10, <1>11 DEF Next, Handle

\* A row is written by the handler of its job.
LEMMA NextRows ==
    ASSUME LinearInv, LinearInv', Grows, Facts, [Next]_vars
    PROVE  \A e \in Execs, k \in Keys, a \in Attempts : RowFact(e, k, a)'
<1> USE DEF rowVars, queueVars, slotVars
<1>s. ASSUME results' = results
      PROVE  \A e \in Execs, k \in Keys, a \in Attempts : RowFact(e, k, a)'
  BY <1>s DEF Facts, RowFact, Grows, JobsStay
<1>w. ASSUME NEW w \in Workers, pc[w] # "idle", NEW o,
             results' = [results EXCEPT ![Exec(w)][Key(w)][Att(w)] = o]
      PROVE  \A e \in Execs, k \in Keys, a \in Attempts : RowFact(e, k, a)'
  <2>1. /\ job[w] \in JobIds /\ jobs'[job[w]] # "absent"
        /\ Exec(w) = job[w].exec /\ Key(w) = job[w].key /\ Att(w) = AttemptOf(job[w])
    BY <1>w, Busy DEF Grows, JobsStay
  <2>2. \A e \in Execs, k \in Keys, a \in Attempts :
            results'[e][k][a] = results[e][k][a] \/ <<e, k, a>> = <<Exec(w), Key(w), Att(w)>>
    BY <1>w DEF LinearInv, TypeOK
  <2>3. ASSUME NEW e \in Execs, NEW k \in Keys, NEW a \in Attempts PROVE RowFact(e, k, a)'
    <3>1. CASE e = Exec(w) /\ k = Key(w) /\ a = Att(w)
      BY <2>1, <3>1 DEF RowFact
    <3>2. CASE ~(e = Exec(w) /\ k = Key(w) /\ a = Att(w))
      <4>1. results'[e][k][a] = results[e][k][a] /\ RowFact(e, k, a)
        BY <2>2, <3>2 DEF Facts
      <4> QED BY <4>1 DEF RowFact, Grows, JobsStay
    <3> QED BY <3>1, <3>2
  <2> QED BY <2>3
<1>1. ASSUME NEW w \in Workers, RecordSuccess(w) PROVE \A e \in Execs, k \in Keys, a \in Attempts : RowFact(e, k, a)'
  BY <1>1, <1>s, <1>w DEF RecordSuccess
<1>2. ASSUME NEW w \in Workers, RecordFailure(w) PROVE \A e \in Execs, k \in Keys, a \in Attempts : RowFact(e, k, a)'
  BY <1>2, <1>s, <1>w DEF RecordFailure
<1>3. ASSUME NEW w \in Workers,
             \/ Load(w) \/ FailTooDeep(w) \/ RunStep(w) \/ Deepen(w) \/ MarkSuccess(w)
             \/ (\E t \in Transitions : EnqueueNext(w, t))
             \/ ScheduleRetry(w) \/ FailExecution(w) \/ Finish(w) \/ Throw(w) \/ Disturb(w)
      PROVE  results' = results
  BY <1>3 DEF Load, FailTooDeep, RunStep, Deepen, MarkSuccess, EnqueueNext, ScheduleRetry,
              FailExecution, Finish, Throw, Disturb, Fault, Crash, LockExpires
<1>4. ASSUME NEW e \in Execs, CreateExecution(e) \/ EnqueueTrigger(e) \/ LaunchLost(e) \/ Cancel(e)
      PROVE  results' = results
  BY <1>4 DEF CreateExecution, EnqueueTrigger, LaunchLost, Cancel
<1>5. ASSUME NEW j \in JobIds, Redeliver(j) \/ \E w \in Workers : Take(w, j) PROVE results' = results
  BY <1>5 DEF Redeliver, Take
<1>6. CASE UNCHANGED vars
  BY <1>6, <1>s DEF vars
<1> QED BY <1>s, <1>1, <1>2, <1>3, <1>4, <1>5, <1>6 DEF Next, Handle

\* The depth is written from what a handler saw before its own row was added.
LEMMA NextExecs ==
    ASSUME LinearInv, LinearInv', Grows, Facts, [Next]_vars
    PROVE  \A e \in Execs : ExecFact(e)'
<1> USE DEF rowVars, queueVars, slotVars
<1>t. /\ depth \in [Execs -> Nat] /\ launch \in [Execs -> {"none", "created", "queued", "lost"}]
      /\ status \in [Execs -> Statuses] /\ seen \in [Workers -> Nat]
  BY DEF LinearInv, TypeOK
<1>x. ASSUME \A e \in Execs : depth'[e] = depth[e] \/ depth'[e] <= Size(e),
             \A e \in Execs : launch'[e] = "created" => launch[e] = "created" \/ status'[e] # "NONE"
      PROVE  \A e \in Execs : ExecFact(e)'
  <2> SUFFICES ASSUME NEW e \in Execs PROVE ExecFact(e)'
    OBVIOUS
  <2>1. /\ Size(e) \in Nat /\ Size(e)' \in Nat /\ Size(e) <= Size(e)'
        /\ depth[e] <= Size(e) /\ (launch[e] = "created" => status[e] # "NONE")
        /\ depth'[e] \in Nat
    BY Accumulates DEF Facts, ExecFact, LinearInv, TypeOK
  <2>2. depth'[e] <= Size(e)'
    BY <1>x, <2>1
  <2> QED BY <1>x, <2>1, <2>2 DEF ExecFact, Grows
<1>1. ASSUME NEW w \in Workers, Deepen(w) PROVE \A e \in Execs : ExecFact(e)'
  <2>1. pc[w] = "deepen" /\ depth' = [depth EXCEPT ![Exec(w)] = seen[w] + 1] /\ launch' = launch
    BY <1>1 DEF Deepen
  <2>2. Exec(w) \in Execs /\ seen[w] < Size(Exec(w))
    BY <2>1, Busy DEF Facts, SlotFact
  <2>3. Size(Exec(w)) \in Nat
    BY <2>2, SizeType DEF SizeRule
  <2>4. seen[w] + 1 <= Size(Exec(w))
    BY <1>t, <2>2, <2>3
  <2>5. \A e \in Execs : depth'[e] = depth[e] \/ depth'[e] <= Size(e)
    BY <1>t, <2>1, <2>2, <2>4
  <2> QED BY <1>x, <2>1, <2>5
<1>2. ASSUME NEW e \in Execs, CreateExecution(e) \/ EnqueueTrigger(e) \/ LaunchLost(e) \/ Cancel(e)
      PROVE  \A f \in Execs : ExecFact(f)'
  <2>1. depth' = depth
    BY <1>2 DEF CreateExecution, EnqueueTrigger, LaunchLost, Cancel
  <2>2. \A f \in Execs : launch'[f] = "created" => launch[f] = "created" \/ status'[f] # "NONE"
    BY <1>2, <1>t DEF CreateExecution, EnqueueTrigger, LaunchLost, Cancel
  <2> QED BY <1>x, <2>1, <2>2
<1>s. ASSUME depth' = depth, launch' = launch PROVE \A e \in Execs : ExecFact(e)'
  BY <1>s, <1>x
<1>3. ASSUME NEW w \in Workers,
             \/ Load(w) \/ FailTooDeep(w) \/ RunStep(w) \/ RecordSuccess(w) \/ RecordFailure(w)
             \/ MarkSuccess(w) \/ (\E t \in Transitions : EnqueueNext(w, t))
             \/ ScheduleRetry(w) \/ FailExecution(w) \/ Finish(w) \/ Throw(w) \/ Disturb(w)
      PROVE  depth' = depth /\ launch' = launch
  BY <1>3 DEF Load, FailTooDeep, RunStep, RecordSuccess, RecordFailure, MarkSuccess, EnqueueNext,
              ScheduleRetry, FailExecution, Finish, Throw, Disturb, Fault, Crash, LockExpires
<1>4. ASSUME NEW j \in JobIds, Redeliver(j) \/ \E w \in Workers : Take(w, j)
      PROVE  depth' = depth /\ launch' = launch
  BY <1>4 DEF Redeliver, Take
<1>5. CASE UNCHANGED vars
  BY <1>5, <1>s DEF vars
<1> QED BY <1>s, <1>1, <1>2, <1>3, <1>4, <1>5 DEF Next, Handle

FactsInv == LinearInv /\ Facts

\* No slot is busy, nothing is queued, nothing is recorded.
LEMMA InitFacts == Init => FactsInv
<1> SUFFICES ASSUME Init PROVE Facts
  BY InitLinear DEF FactsInv
<1>1. \A e \in Execs : Size(e) \in Nat
  BY SizeType DEF SizeRule
<1>2. \A e \in Execs : ExecFact(e)
  BY <1>1 DEF Init, ExecFact
<1>3. \A w \in Workers : SlotFact(w)
  BY DEF Init, SlotFact
<1>4. \A j \in JobIds : JobFact(j)
  BY DEF Init, JobFact
<1>5. \A e \in Execs, k \in Keys, a \in Attempts : RowFact(e, k, a)
  BY DEF Init, RowFact
<1> QED BY <1>2, <1>3, <1>4, <1>5 DEF Facts

\* Every step keeps the facts.
LEMMA NextFacts == FactsInv /\ [Next]_vars => FactsInv'
<1> SUFFICES ASSUME FactsInv, [Next]_vars PROVE FactsInv'
  OBVIOUS
<1>1. LinearInv /\ LinearInv' /\ Facts
  BY NextLinear DEF FactsInv
<1>2. Grows
  BY <1>1, NextGrows
<1> QED BY <1>1, <1>2, NextSlots, NextJobs, NextRows, NextExecs DEF FactsInv, Facts

\* However stale the depth that a handler read, and however many handlers
\* write theirs back in whatever order, the counter of max_depth never runs
\* ahead of the steps that succeeded.
THEOREM DepthIsEarned == Spec => []DepthNeverOvercounts
<1>1. FactsInv => DepthNeverOvercounts
  BY DEF FactsInv, Facts, ExecFact, DepthNeverOvercounts, Size
<1> QED BY <1>1, InitFacts, NextFacts, PTL DEF Spec

\* A running execution whose step recorded an outcome has queued all that it
\* leads to, or a job of that step is still in the queue or its failed set:
\* for every canvas and every placement of crashes, faults and lost locks.
THEOREM NoBranchIsLost == Spec => []NoLostFollowUp
<1>1. ASSUME FactsInv PROVE NoLostFollowUp
  <2> SUFFICES ASSUME NEW e \in Execs, NEW k \in Keys, status[e] = "RUNNING", ~Traceable(e, k)
               PROVE  /\ \A t \in Opened(k, Outcome(e, k)) : Stamped(e, t.dst) # {}
                      /\ \A a \in 1 .. (MaxAttempts - 1) :
                            results[e][k][a] = "FAILED" => jobs[AttemptJob(e, k, a + 1)] # "absent"
    BY DEF NoLostFollowUp, Stamped, Stamps
  <2>t. /\ TypeOK /\ OutcomeRule(e, k) /\ IsOpen(e)
        /\ \A j \in JobIds : JobFact(j)
        /\ \A a \in Attempts : RowFact(e, k, a)
        /\ MaxAttempts \in Attempts /\ 1 .. (MaxAttempts - 1) \subseteq Attempts
        /\ \A a \in 1 .. (MaxAttempts - 1) : a < MaxAttempts
    BY <1>1, RowsSettle, EngineAssumption
       DEF FactsInv, LinearInv, Facts, OutcomeRules, IsOpen, EngineAssumption, Attempts
  <2>1. ASSUME NEW a \in Attempts, results[e][k][a] # "none" PROVE Followed(e, k, a)
    <3>1. PICK j \in JobIds : j.exec = e /\ j.key = k /\ AttemptOf(j) = a /\ jobs[j] # "absent"
      BY <2>1, <2>t DEF RowFact
    <3>2. jobs[j] = "completed"
      BY <2>t, <3>1 DEF Traceable, TypeOK
    <3> QED BY <2>t, <3>1, <3>2 DEF JobFact
  <2>2. ASSUME NEW t \in Opened(k, Outcome(e, k)) PROVE Stamped(e, t.dst) # {}
    <3>1. CASE Outcome(e, k) \in Outputs
      <4>1. PICK a \in Attempts : results[e][k][a] = Outcome(e, k)
        BY <2>t, <3>1 DEF OutcomeRule
      <4>2. Followed(e, k, a)
        BY <2>1, <3>1, <4>1 DEF Outputs
      <4> QED BY <2>2, <3>1, <4>1, <4>2 DEF Followed, FollowUps, Opened
    <3>2. CASE Outcome(e, k) = "FAILED"
      <4>1. results[e][k][MaxAttempts] = "FAILED"
        BY <2>t, <3>2 DEF OutcomeRule
      <4>2. Followed(e, k, MaxAttempts)
        BY <2>1, <2>t, <4>1
      <4> QED BY <2>2, <3>2, <4>1, <4>2 DEF Followed, FollowUps, Opened, Outputs
    <3> QED BY <2>2, <3>1, <3>2 DEF Opened
  <2>3. ASSUME NEW a \in 1 .. (MaxAttempts - 1), results[e][k][a] = "FAILED"
        PROVE  jobs[AttemptJob(e, k, a + 1)] # "absent"
    BY <2>1, <2>3, <2>t DEF Followed
  <2> QED BY <2>2, <2>3
<1> QED BY <1>1, InitFacts, NextFacts, PTL DEF Spec

-----------------------------------------------------------------------------
(* The engine implements WorkflowFlow.  A step of the engine that settles  *)
(* a step or changes a status is a step of the flow; all others stutter.   *)

Settled == [e \in Execs |-> [k \in Keys |-> Outcome(e, k)]]

\* The flow reads the same canvas.
LEMMA SameCanvas ==
    /\ Flow!Outputs = Outputs
    /\ \A k, o : Flow!Opened(k, o) = Opened(k, o)
    /\ \A k : Flow!Fallbacks(k) = Fallbacks(k)
<1>1. Flow!Outputs = Outputs
  BY DEF Flow!Outputs, Outputs
<1>2. \A r, o, f : Flow!ShouldFollow(r, o, f) <=> ShouldFollow(r, o, f)
  BY DEF Flow!ShouldFollow, ShouldFollow, Flow!ConditionTrue, ConditionTrue
<1>3. \A k, o, f : Flow!Matching(k, o, f) = Matching(k, o, f)
  BY <1>2 DEF Flow!Matching, Matching
<1>4. \A k : Flow!Fallbacks(k) = Fallbacks(k)
  BY <1>3 DEF Flow!Fallbacks, Fallbacks
<1> QED BY <1>1, <1>3, <1>4 DEF Flow!Opened, Opened

\* The flow counts as the engine counts.
LEMMA SameCardinality == \A S : Flow!Cardinality(S) = Cardinality(S)
BY Zenon DEF Flow!Cardinality, Cardinality

\* The initial state is an initial state of the flow.
LEMMA InitFlow == Init => Flow!FlowInit
<1> SUFFICES ASSUME Init PROVE Flow!FlowInit
  OBVIOUS
<1>1. \A e \in Execs, k \in Keys : Outcome(e, k) = "none"
  <2>1. MaxAttempts \in Attempts
    BY EngineAssumption DEF EngineAssumption, Attempts
  <2> QED BY <2>1 DEF Init, Outcome, Outputs
<1>2. status = [e \in Execs |-> "NONE"]
  BY DEF Init
<1> QED BY <1>1, <1>2 DEF Flow!FlowInit

\* As many steps succeeded as there are rows that say so.
LEMMA RowsCountSteps ==
    ASSUME LinearInv, NEW e \in Execs
    PROVE  Size(e) <= Cardinality({k \in Keys : Outcome(e, k) \in Outputs})
<1> DEFINE steps == {k \in Keys : Outcome(e, k) \in Outputs}
           key   == [r \in SuccessRows(e) |-> r[1]]
<1>1. IsFiniteSet(SuccessRows(e)) /\ Size(e) \in Nat
  BY SizeType DEF SizeRule
<1>2. IsFiniteSet(steps) /\ Cardinality(steps) \in Nat
  BY CanvasAssumption, FS_Subset, FS_CardinalityType DEF CanvasAssumption
<1>3. \A k \in Keys, a \in Attempts : results[e][k][a] \in Outputs => Outcome(e, k) = results[e][k][a]
  BY RowsSettle DEF LinearInv, OutcomeRules, OutcomeRule
<1>4. key \in [SuccessRows(e) -> steps]
  BY <1>3 DEF SuccessRows
<1>5. ASSUME NEW r \in SuccessRows(e), NEW q \in SuccessRows(e), key[r] = key[q] PROVE r = q
  <2>1. PICK k \in Keys, a \in Attempts, b \in Attempts :
            /\ r = <<k, a>> /\ q = <<k, b>>
            /\ results[e][k][a] \in Outputs /\ results[e][k][b] \in Outputs
    BY <1>5 DEF SuccessRows
  <2>2. ~(a < b) /\ ~(b < a)
    BY <2>1, EngineAssumption
       DEF LinearInv, AttemptsLinear, Outputs, Attempts, EngineAssumption
  <2> QED BY <2>1, <2>2, EngineAssumption DEF Attempts, EngineAssumption
<1>6. ~(Cardinality(steps) < Cardinality(SuccessRows(e)))
  <2> HIDE DEF steps, key
  <2> QED BY <1>1, <1>2, <1>4, <1>5, FS_PigeonHole
<1> QED BY <1>1, <1>2, <1>6 DEF Size

\* A step that writes row o of attempt a
Writes(e, k, a, o) ==
    /\ results[e][k][a] = "none"
    /\ results' = [results EXCEPT ![e][k][a] = o]

\* What a new row settles: a success, or the failure of the last attempt.
LEMMA RowSettles ==
    ASSUME LinearInv, LinearInv', NEW e \in Execs, NEW k \in Keys, NEW a \in Attempts,
           NEW o \in Outputs \cup {"FAILED"}, Writes(e, k, a, o)
    PROVE  /\ o \in Outputs \/ a = MaxAttempts =>
                  Outcome(e, k) = "none" /\ Settled' = [Settled EXCEPT ![e][k] = o]
           /\ ~(o \in Outputs \/ a = MaxAttempts) => Settled' = Settled
<1>t. /\ TypeOK /\ TypeOK' /\ AttemptsLinear /\ AttemptsLinear'
      /\ MaxAttempts \in Attempts /\ Attempts = 1 .. MaxAttempts /\ MaxAttempts \in Nat
      /\ results[e][k][a] = "none" /\ results' = [results EXCEPT ![e][k][a] = o]
  BY EngineAssumption DEF LinearInv, EngineAssumption, Attempts, Writes
<1>o. OutcomeRules /\ OutcomeRules'
  BY <1>t, RowsSettle, PTL
<1>r. OutcomeRule(e, k) /\ OutcomeRule(e, k)'
  BY <1>o DEF OutcomeRules
<1>1. /\ results'[e][k][a] = o
      /\ \A f \in Execs, x \in Keys, y \in Attempts :
             <<f, x, y>> # <<e, k, a>> => results'[f][x][y] = results[f][x][y]
  BY <1>t DEF TypeOK
<1>2. \A f \in Execs, x \in Keys : <<f, x>> # <<e, k>> => Outcome(f, x)' = Outcome(f, x)
  <2> SUFFICES ASSUME NEW f \in Execs, NEW x \in Keys, <<f, x>> # <<e, k>>
               PROVE  Outcome(f, x)' = Outcome(f, x)
    OBVIOUS
  <2>1. results'[f][x] = results[f][x]
    BY <1>t DEF TypeOK
  <2>2. OutcomeRule(f, x) /\ OutcomeRule(f, x)'
    BY <1>o DEF OutcomeRules
  <2>3. CASE Outcome(f, x) \in Outputs
    <3>1. PICK b \in Attempts : results[f][x][b] = Outcome(f, x)
      BY <2>2, <2>3 DEF OutcomeRule
    <3> QED BY <2>1, <2>2, <2>3, <3>1 DEF OutcomeRule
  <2>4. CASE Outcome(f, x)' \in Outputs
    <3>1. PICK b \in Attempts : results'[f][x][b] = Outcome(f, x)'
      BY <2>2, <2>4 DEF OutcomeRule
    <3> QED BY <2>1, <2>2, <2>4, <3>1 DEF OutcomeRule
  <2>5. CASE Outcome(f, x) \notin Outputs /\ Outcome(f, x)' \notin Outputs
    BY <2>1, <2>2, <2>5 DEF OutcomeRule, Outcomes
  <2> QED BY <2>3, <2>4, <2>5
<1>3. CASE o \in Outputs \/ a = MaxAttempts
  <2>1. Outcome(e, k)' = o
    BY <1>1, <1>3, <1>r DEF OutcomeRule, Outputs
  <2>2. Outcome(e, k) \notin Outputs
    <3>1. ASSUME NEW b \in Attempts, results[e][k][b] \in Outputs PROVE FALSE
      <4>1. b # a /\ results'[e][k][b] = results[e][k][b] /\ results'[e][k][b] # "none"
            /\ results'[e][k][a] # "none"
        BY <1>1, <1>t, <3>1 DEF Outputs
      <4>2. CASE b < a
        BY <1>1, <1>t, <3>1, <4>1, <4>2 DEF AttemptsLinear, Outputs
      <4>3. CASE a < b
        <5>1. results'[e][k][a] = "FAILED"
          BY <1>t, <4>1, <4>3 DEF AttemptsLinear
        <5> QED BY <1>1, <1>3, <1>t, <4>3, <5>1 DEF Outputs
      <4> QED BY <1>t, <4>1, <4>2, <4>3
    <3> QED BY <1>r, <3>1 DEF OutcomeRule
  <2>3. Outcome(e, k) # "FAILED"
    <3>1. ASSUME results[e][k][MaxAttempts] = "FAILED" PROVE FALSE
      <4>1. a # MaxAttempts /\ a < MaxAttempts
        BY <1>t, <3>1
      <4> QED BY <1>t, <3>1, <4>1 DEF AttemptsLinear
    <3> QED BY <1>r, <3>1 DEF OutcomeRule
  <2>4. Outcome(e, k) = "none"
    BY <1>r, <2>2, <2>3 DEF OutcomeRule, Outcomes
  <2>5. Settled' = [Settled EXCEPT ![e][k] = o]
    BY <1>2, <2>1 DEF Settled
  <2> QED BY <1>3, <2>4, <2>5
<1>4. CASE ~(o \in Outputs \/ a = MaxAttempts)
  <2>1. o = "FAILED" /\ a # MaxAttempts
    BY <1>4
  <2>2. (\E b \in Attempts : results'[e][k][b] \in Outputs) <=>
            (\E b \in Attempts : results[e][k][b] \in Outputs)
    BY <1>1, <1>t, <2>1 DEF Outputs
  <2>3. Outcome(e, k)' = Outcome(e, k)
    <3>1. CASE \E b \in Attempts : results[e][k][b] \in Outputs
      <4>1. PICK b \in Attempts : results[e][k][b] \in Outputs
        BY <3>1
      <4>2. results'[e][k][b] = results[e][k][b]
        BY <1>1, <1>t, <4>1 DEF Outputs
      <4> QED BY <1>r, <4>1, <4>2 DEF OutcomeRule
    <3>2. CASE ~ \E b \in Attempts : results[e][k][b] \in Outputs
      <4>1. results'[e][k][MaxAttempts] = results[e][k][MaxAttempts]
        BY <1>1, <1>t, <2>1
      <4> QED BY <2>2, <3>2, <4>1 DEF Outcome
    <3> QED BY <3>1, <3>2
  <2>4. Settled' = Settled
    BY <1>2, <2>3 DEF Settled
  <2> QED BY <1>4, <2>4
<1> QED BY <1>3, <1>4

\* A handler that writes a row settles its step or leaves the flow alone.
LEMMA WriteFlows ==
    ASSUME FactsInv, FactsInv', NEW w \in Workers, pc[w] # "idle", Row(w) = "none",
           NEW o \in Outputs \cup {"FAILED"}, status' = status,
           results' = [results EXCEPT ![Exec(w)][Key(w)][Att(w)] = o]
    PROVE  [Flow!FlowNext]_Flow!flowVars
<1>1. /\ LinearInv /\ LinearInv' /\ Exec(w) \in Execs /\ Key(w) \in Keys /\ Att(w) \in Attempts
      /\ status[Exec(w)] # "NONE" /\ IsReached(Exec(w), Key(w))
  BY Busy DEF FactsInv, Facts, JobFact
<1>2. PICK e \in Execs, k \in Keys, a \in Attempts : e = Exec(w) /\ k = Key(w) /\ a = Att(w)
  BY <1>1
<1>3. Writes(e, k, a, o) /\ status[e] # "NONE" /\ IsReached(e, k)
  BY <1>1, <1>2 DEF Row, Writes
<1>4. CASE o \in Outputs \/ a = MaxAttempts
  <2>1. Outcome(e, k) = "none" /\ Settled' = [Settled EXCEPT ![e][k] = o]
    BY <1>1, <1>3, <1>4, RowSettles
  <2>2. Flow!Reached(e, k)
    <3>1. \A t \in Transitions : t.src \in Keys
      BY CanvasAssumption DEF CanvasAssumption
    <3> QED BY <1>3, <3>1, SameCanvas DEF IsReached, Flow!Reached
  <2>3. Flow!Settle(e, k, o)
    BY <1>3, <2>1, <2>2 DEF Flow!Settle, Settled
  <2> QED BY <2>3, SameCanvas DEF Flow!FlowNext
<1>5. CASE ~(o \in Outputs \/ a = MaxAttempts)
  <2>1. Settled' = Settled
    BY <1>1, <1>3, <1>5, RowSettles
  <2> QED BY <2>1 DEF Flow!flowVars, Settled
<1> QED BY <1>4, <1>5

\* A handler closes its execution for a reason that the flow knows.
LEMMA CloseFlows ==
    ASSUME FactsInv, NEW w \in Workers, FailTooDeep(w) \/ MarkSuccess(w) \/ FailExecution(w)
    PROVE  [Flow!FlowNext]_Flow!flowVars
<1>0. /\ pc[w] # "idle" /\ results' = results /\ SlotFact(w) /\ LinearInv
      /\ MaxDepth \in Nat /\ MaxAttempts \in Attempts
  BY EngineAssumption
     DEF FailTooDeep, MarkSuccess, FailExecution, FactsInv, Facts, EngineAssumption, Attempts
<1>1. PICK e \in Execs, k \in Keys, a \in Attempts : e = Exec(w) /\ k = Key(w) /\ a = Att(w)
  BY <1>0, Busy
<1>2. OutcomeRule(e, k) /\ Row(w) = results[e][k][a]
  BY <1>0, <1>1, RowsSettle DEF LinearInv, OutcomeRules, Row
<1>3. Settled' = Settled
  BY <1>0 DEF Settled, Outcome
<1>4. CASE FailTooDeep(w)
  <2>1. MaxDepth <= Size(e) /\ Size(e) \in Nat
    BY <1>0, <1>1, <1>4, SizeType DEF SlotFact, FailTooDeep, SizeRule
  <2>2. Size(e) <= Cardinality({x \in Keys : Outcome(e, x) \in Outputs})
    BY <1>0, RowsCountSteps
  <2>3. Flow!Succeeded(e) = {x \in Keys : Outcome(e, x) \in Outputs}
    BY SameCanvas DEF Flow!Succeeded
  <2>4. Cardinality({x \in Keys : Outcome(e, x) \in Outputs}) \in Nat
    BY CanvasAssumption, FS_Subset, FS_CardinalityType DEF CanvasAssumption
  <2>5. Cardinality(Flow!Succeeded(e)) >= MaxDepth
    BY <1>0, <2>1, <2>2, <2>3, <2>4
  <2>6. Flow!CloseFailed(e)
    <3>1. status' = [status EXCEPT ![e] = "FAILED"]
      BY <1>1, <1>4 DEF FailTooDeep
    <3>2. Cardinality(Flow!Succeeded(e)) >= MaxDepth
      BY <2>5
    <3> QED BY <1>3, <3>1, <3>2, SameCardinality DEF Flow!CloseFailed, Settled
  <2> QED BY <2>6 DEF Flow!FlowNext
<1>5. CASE MarkSuccess(w)
  <2>1. results[e][k][a] \in Outputs /\ FollowUps(k, a, results[e][k][a]) = {}
    BY <1>0, <1>1, <1>2, <1>5 DEF MarkSuccess, SlotFact, Follows
  <2>2. Outcome(e, k) = results[e][k][a] /\ Opened(k, Outcome(e, k)) = {}
    BY <1>2, <2>1 DEF OutcomeRule, FollowUps, Opened
  <2>3. Flow!CloseSuccess(e)
    BY <1>1, <1>3, <1>5, <2>1, <2>2, SameCanvas DEF Flow!CloseSuccess, MarkSuccess, Settled
  <2> QED BY <2>3 DEF Flow!FlowNext
<1>6. CASE FailExecution(w)
  <2>1. /\ results[e][k][a] = "FAILED" /\ a = MaxAttempts
        /\ FollowUps(k, a, results[e][k][a]) = {}
    BY <1>0, <1>1, <1>2, <1>6 DEF FailExecution, SlotFact, Follows
  <2>2. Outcome(e, k) = "FAILED" /\ Fallbacks(k) = {}
    BY <1>2, <2>1 DEF OutcomeRule, FollowUps, Outputs
  <2>3. Flow!CloseFailed(e)
    BY <1>1, <1>3, <1>6, <2>2, SameCanvas DEF Flow!CloseFailed, FailExecution, Settled
  <2> QED BY <2>3 DEF Flow!FlowNext
<1> QED BY <1>4, <1>5, <1>6

\* Every step of the engine is a step of the flow or leaves it alone.
LEMMA NextFlow ==
    ASSUME FactsInv, FactsInv', [Next]_vars
    PROVE  [Flow!FlowNext]_Flow!flowVars
<1> USE DEF rowVars, queueVars, slotVars
<1>s. ASSUME UNCHANGED <<status, results>> PROVE [Flow!FlowNext]_Flow!flowVars
  BY <1>s DEF Flow!flowVars, Outcome
<1>1. ASSUME NEW e \in Execs, CreateExecution(e) \/ EnqueueTrigger(e) \/ LaunchLost(e) \/ Cancel(e)
      PROVE  [Flow!FlowNext]_Flow!flowVars
  <2>1. ASSUME results' = results PROVE Settled' = Settled
    BY <2>1 DEF Settled, Outcome
  <2>2. CASE CreateExecution(e)
    BY <2>1, <2>2 DEF CreateExecution, Settled, Flow!Start, Flow!FlowNext
  <2>3. CASE Cancel(e)
    BY <2>1, <2>3 DEF Cancel, Settled, Flow!CloseCancelled, Flow!FlowNext
  <2>4. CASE EnqueueTrigger(e) \/ LaunchLost(e)
    BY <1>s, <2>4 DEF EnqueueTrigger, LaunchLost
  <2> QED BY <1>1, <2>2, <2>3, <2>4
<1>2. ASSUME NEW w \in Workers, RecordSuccess(w) PROVE [Flow!FlowNext]_Flow!flowVars
  <2>1. CASE Row(w) = "none"
    <3>1. out[w] \in Outputs
      BY DEF FactsInv, LinearInv, TypeOK
    <3> QED BY <1>2, <2>1, <3>1, WriteFlows DEF RecordSuccess
  <2>2. CASE Row(w) # "none"
    BY <1>2, <1>s, <2>2 DEF RecordSuccess
  <2> QED BY <2>1, <2>2
<1>3. ASSUME NEW w \in Workers, RecordFailure(w) PROVE [Flow!FlowNext]_Flow!flowVars
  <2>1. CASE Row(w) = "none"
    BY <1>3, <2>1, WriteFlows DEF RecordFailure
  <2>2. CASE Row(w) # "none"
    BY <1>3, <1>s, <2>2 DEF RecordFailure
  <2> QED BY <2>1, <2>2
<1>4. ASSUME NEW w \in Workers, FailTooDeep(w) \/ MarkSuccess(w) \/ FailExecution(w)
      PROVE  [Flow!FlowNext]_Flow!flowVars
  BY <1>4, CloseFlows
<1>5. ASSUME NEW w \in Workers,
             \/ Load(w) \/ RunStep(w) \/ Deepen(w) \/ (\E t \in Transitions : EnqueueNext(w, t))
             \/ ScheduleRetry(w) \/ Finish(w) \/ Throw(w) \/ Disturb(w)
      PROVE  UNCHANGED <<status, results>>
  BY <1>5 DEF Load, RunStep, Deepen, EnqueueNext, ScheduleRetry, Finish, Throw, Disturb, Fault,
              Crash, LockExpires
<1>6. ASSUME NEW j \in JobIds, Redeliver(j) \/ \E w \in Workers : Take(w, j)
      PROVE  UNCHANGED <<status, results>>
  BY <1>6 DEF Redeliver, Take
<1>7. CASE UNCHANGED vars
  BY <1>7, <1>s DEF vars
<1> QED BY <1>s, <1>1, <1>2, <1>3, <1>4, <1>5, <1>6, <1>7 DEF Next, Handle

\* For every canvas, every number of slots and every placement of faults,
\* crashes, lost locks and redeliveries, the engine's behaviours are
\* behaviours of WorkflowFlow: steps settle once and only when opened, and an
\* execution is closed only for a reason that its rows show.
THEOREM EngineImplementsFlow == Spec => ImplementsFlow
BY InitFacts, NextFacts, InitFlow, NextFlow, PTL DEF Spec, ImplementsFlow, Flow!FlowSpec

-----------------------------------------------------------------------------
(* Fan-out.  The ids of enqueueTransitions do not deduplicate, so the bound*)
(* of NoDuplicateFanOut rests on who may still add: a transition is owed   *)
(* until its source has settled and the one slot that settled it has       *)
(* queued it.                                                              *)

\* Slot w has settled its step and has its transitions to queue.
Leads(w) == pc[w] \in {"deepen", "enqueue", "fallback"}

\* No two slots lead the same step of an execution.
Apart ==
    \A v, w \in Workers :
        v # w /\ Leads(v) /\ Leads(w) => ~(Exec(v) = Exec(w) /\ Key(v) = Key(w))

\* Slot w may still queue transition t of execution e.
Owes(w, e, t) ==
    /\ Leads(w) /\ Exec(w) = e /\ Key(w) = t.src
    /\ pc[w] = "deepen" \/ t \in todo[w]

\* The transitions into step k of e that are still owed
Pending(e, k) ==
    {t \in Transitions : t.dst = k /\ (Outcome(e, t.src) = "none" \/ \E w \in Workers : Owes(w, e, t))}

Incoming(k) == {t \in Transitions : t.dst = k}

FanOut ==
    \A e \in Execs, k \in Keys :
        Cardinality(Stamped(e, k)) + Cardinality(Pending(e, k)) <= Cardinality(Incoming(k))

FanInv == FactsInv /\ Apart /\ FanOut

\* The step of a slot that leads is settled.
LEMMA LeadsSettled ==
    ASSUME FactsInv, NEW w \in Workers, Leads(w)
    PROVE  /\ Exec(w) \in Execs /\ Key(w) \in Keys /\ job[w] \in JobIds
           /\ Outcome(Exec(w), Key(w)) # "none"
<1>1. /\ LinearInv /\ SlotFact(w) /\ pc[w] # "idle" /\ out[w] \in Outputs
      /\ \A e \in Execs, k \in Keys : OutcomeRule(e, k)
  BY RowsSettle DEF FactsInv, Facts, LinearInv, TypeOK, Leads, OutcomeRules
<1>2. PICK e \in Execs, k \in Keys, a \in Attempts :
          /\ e = Exec(w) /\ k = Key(w) /\ a = Att(w)
          /\ Row(w) = results[e][k][a] /\ job[w] \in JobIds
  BY <1>1, Busy DEF Row
<1>3. Row(w) \in Outputs \/ (Row(w) = "FAILED" /\ a = MaxAttempts)
  BY <1>1, <1>2 DEF SlotFact, Leads
<1>4. OutcomeRule(e, k)
  BY <1>1
<1>5. Outcome(e, k) # "none"
  BY <1>2, <1>3, <1>4 DEF OutcomeRule, Outputs
<1> QED BY <1>2, <1>5

\* A slot leads on, with no more to queue than before.
LeadsOn(w) ==
    /\ Leads(w) /\ job'[w] = job[w]
    /\ pc'[w] = "deepen" => pc[w] = "deepen"
    /\ pc[w] = "deepen" \/ todo'[w] \subseteq todo[w]

\* A slot begins to lead: it alone moves, and its step was not settled.
BeginsToLead(w) ==
    /\ OnlyMoves(w) /\ job'[w] = job[w] /\ pc[w] # "idle"
    /\ Outcome(Exec(w), Key(w)) = "none"

\* How a slot comes to lead.
LEMMA NextLeads ==
    ASSUME FactsInv, FactsInv', [Next]_vars, NEW w \in Workers, Leads(w)'
    PROVE  LeadsOn(w) \/ BeginsToLead(w)
<1> USE DEF rowVars, queueVars, slotVars, Goto
<1>t. /\ LinearInv /\ LinearInv' /\ Grows /\ Facts
      /\ pc \in [Workers -> PCs] /\ job \in [Workers -> JobIds \cup {NoJob}]
      /\ seen \in [Workers -> Nat] /\ out \in [Workers -> Outputs]
      /\ todo \in [Workers -> SUBSET Transitions]
      /\ pc'[w] \in {"deepen", "enqueue", "fallback"}
  BY NextGrows DEF FactsInv, LinearInv, TypeOK, Leads
<1>s. ASSUME pc'[w] = pc[w], job'[w] = job[w], todo'[w] = todo[w] PROVE LeadsOn(w)
  BY <1>s, <1>t DEF LeadsOn, Leads
<1>m. ASSUME NEW v \in Workers, OnlyMoves(v),
             v = w => LeadsOn(w) \/ BeginsToLead(w) \/ pc'[w] \notin {"deepen", "enqueue", "fallback"}
      PROVE  LeadsOn(w) \/ BeginsToLead(w)
  BY <1>m, <1>s, <1>t DEF OnlyMoves
<1>w. ASSUME NEW o \in Outputs \cup {"FAILED"}, pc[w] # "idle", Row(w) = "none",
             o \in Outputs \/ Att(w) = MaxAttempts,
             results' = [results EXCEPT ![Exec(w)][Key(w)][Att(w)] = o]
      PROVE  Outcome(Exec(w), Key(w)) = "none"
  <2>1. PICK e \in Execs, k \in Keys, a \in Attempts : e = Exec(w) /\ k = Key(w) /\ a = Att(w)
    BY <1>t, <1>w, Busy
  <2>2. Writes(e, k, a, o)
    BY <1>w, <2>1 DEF Writes, Row
  <2> QED BY <1>t, <1>w, <2>1, <2>2, RowSettles
<1>1. ASSUME NEW v \in Workers, Handle(v) PROVE LeadsOn(w) \/ BeginsToLead(w)
  <2>1. OnlyMoves(v)
    BY <1>1, <1>t, HandlerArrives
  <2>2. CASE v = w
    <3>1. CASE \/ Load(w) \/ FailTooDeep(w) \/ RunStep(w) \/ MarkSuccess(w) \/ ScheduleRetry(w)
               \/ FailExecution(w) \/ Finish(w) \/ Throw(w)
      <4>1. pc'[w] \notin {"deepen", "enqueue", "fallback"}
        BY <1>t, <3>1 DEF Load, FailTooDeep, RunStep, MarkSuccess, ScheduleRetry, FailExecution,
                          Finish, Throw, Release
      <4> QED BY <1>t, <4>1
    <3>2. CASE RecordSuccess(w)
      <4>1. Row(w) = "none"
        <5>1. CASE Row(w) # "none"
          BY <1>t, <3>2, <5>1 DEF RecordSuccess
        <5> QED BY <5>1
      <4>2. /\ results' = [results EXCEPT ![Exec(w)][Key(w)][Att(w)] = out[w]]
            /\ job' = job /\ pc[w] = "record" /\ out[w] \in Outputs
        BY <1>t, <3>2, <4>1 DEF RecordSuccess
      <4> QED BY <1>w, <2>1, <2>2, <4>1, <4>2 DEF BeginsToLead
    <3>3. CASE Deepen(w)
      BY <1>t, <3>3 DEF Deepen, RouteSuccess, LeadsOn, Leads
    <3>4. ASSUME NEW t \in Transitions, EnqueueNext(w, t) PROVE LeadsOn(w)
      <4>1. /\ pc[w] \in {"enqueue", "fallback"} /\ job' = job
            /\ todo' = [todo EXCEPT ![w] = todo[w] \ {t}]
            /\ pc' = IF todo[w] = {t} THEN [pc EXCEPT ![w] = "finish"] ELSE pc
        BY <3>4 DEF EnqueueNext
      <4>2. todo'[w] \subseteq todo[w] /\ pc'[w] = pc[w]
        BY <1>t, <4>1
      <4> QED BY <4>1, <4>2 DEF LeadsOn, Leads
    <3>5. CASE RecordFailure(w)
      <4>1. Row(w) = "none"
        <5>1. CASE Row(w) # "none"
          BY <1>t, <3>5, <5>1 DEF RecordFailure
        <5> QED BY <5>1
      <4>2. /\ results' = [results EXCEPT ![Exec(w)][Key(w)][Att(w)] = "FAILED"]
            /\ job' = job /\ pc[w] = "recordFailed" /\ Att(w) >= MaxAttempts
        <5>1. CASE ~(Att(w) >= MaxAttempts)
          <6>1. pc' = [pc EXCEPT ![w] = "retry"]
            BY <3>5, <4>1, <5>1 DEF RecordFailure, RouteFailure
          <6> QED BY <1>t, <6>1
        <5>2. CASE Att(w) >= MaxAttempts
          BY <3>5, <4>1, <5>2 DEF RecordFailure
        <5> QED BY <5>1, <5>2
      <4>3. Att(w) = MaxAttempts
        <5>1. Att(w) \in Attempts
          BY <1>t, <4>2, Busy
        <5> QED BY <4>2, <5>1, EngineAssumption DEF Attempts, EngineAssumption
      <4> QED BY <1>w, <2>1, <2>2, <4>1, <4>2, <4>3 DEF BeginsToLead
    <3> QED BY <1>1, <2>2, <3>1, <3>2, <3>3, <3>4, <3>5 DEF Handle
  <2>3. CASE v # w
    BY <1>m, <2>1, <2>3
  <2> QED BY <2>2, <2>3
<1>2. ASSUME NEW e \in Execs, CreateExecution(e) \/ EnqueueTrigger(e) \/ LaunchLost(e) \/ Cancel(e)
      PROVE  LeadsOn(w)
  BY <1>2, <1>s DEF CreateExecution, EnqueueTrigger, LaunchLost, Cancel
<1>3. ASSUME NEW v \in Workers, NEW j \in JobIds, Take(v, j) PROVE LeadsOn(w) \/ BeginsToLead(w)
  <2>1. OnlyMoves(v) /\ pc'[v] = "load"
    BY <1>3, <1>t DEF Take, OnlyMoves
  <2> QED BY <1>m, <2>1
<1>4. ASSUME NEW v \in Workers, Disturb(v) PROVE LeadsOn(w) \/ BeginsToLead(w)
  <2>1. CASE Fault(v)
    <3>1. OnlyMoves(v) /\ pc'[v] \in {"recordFailed", "throw"}
      BY <1>t, <2>1 DEF Fault, OnlyMoves
    <3> QED BY <1>m, <3>1
  <2>2. CASE Crash(v)
    <3>1. OnlyMoves(v) /\ pc'[v] = "idle"
      BY <1>t, <2>2 DEF Crash, Release, OnlyMoves
    <3> QED BY <1>m, <3>1
  <2>3. CASE LockExpires(v)
    BY <1>s, <2>3 DEF LockExpires
  <2> QED BY <1>4, <2>1, <2>2, <2>3 DEF Disturb
<1>5. ASSUME NEW j \in JobIds, Redeliver(j) PROVE LeadsOn(w)
  BY <1>5, <1>s DEF Redeliver
<1>6. CASE UNCHANGED vars
  BY <1>6, <1>s DEF vars
<1> QED BY <1>1, <1>2, <1>3, <1>4, <1>5, <1>6 DEF Next

\* A step is led by one slot at a time: whoever begins finds it unsettled.
LEMMA NextApart ==
    ASSUME FactsInv, FactsInv', Apart, [Next]_vars
    PROVE  Apart'
<1> SUFFICES ASSUME NEW v \in Workers, NEW w \in Workers, v # w, Leads(v)', Leads(w)',
                    Exec(v)' = Exec(w)', Key(v)' = Key(w)'
             PROVE  FALSE
  BY DEF Apart
<1>1. (LeadsOn(v) \/ BeginsToLead(v)) /\ (LeadsOn(w) \/ BeginsToLead(w))
  BY NextLeads
<1>2. Exec(v) = Exec(w) /\ Key(v) = Key(w)
  BY <1>1 DEF LeadsOn, BeginsToLead, Exec, Key
<1>3. ~(LeadsOn(v) /\ LeadsOn(w))
  BY <1>2 DEF Apart, LeadsOn
<1>4. ~(LeadsOn(v) /\ BeginsToLead(w)) /\ ~(LeadsOn(w) /\ BeginsToLead(v))
  BY <1>2, LeadsSettled DEF LeadsOn, BeginsToLead
<1>5. ~(BeginsToLead(v) /\ BeginsToLead(w))
  <2> SUFFICES ASSUME BeginsToLead(v), BeginsToLead(w) PROVE FALSE
    OBVIOUS
  <2>1. pc'[w] = pc[w]
    BY DEF BeginsToLead, OnlyMoves
  <2>2. Leads(w) /\ Outcome(Exec(w), Key(w)) = "none"
    BY <2>1 DEF Leads, BeginsToLead
  <2> QED BY <2>2, LeadsSettled
<1> QED BY <1>1, <1>3, <1>4, <1>5

\* No step makes a transition owed that was not.
LEMMA PendingShrinks ==
    ASSUME FactsInv, FactsInv', [Next]_vars, NEW e \in Execs, NEW k \in Keys
    PROVE  Pending(e, k)' \subseteq Pending(e, k)
<1>1. \A t \in Transitions : t.src \in Keys
  BY CanvasAssumption DEF CanvasAssumption
<1>2. Grows /\ LinearInv /\ LinearInv'
  BY NextGrows DEF FactsInv
<1> SUFFICES ASSUME NEW t \in Transitions, t.dst = k,
                    Outcome(e, t.src)' = "none" \/ \E w \in Workers : Owes(w, e, t)'
             PROVE  Outcome(e, t.src) = "none" \/ \E w \in Workers : Owes(w, e, t)
  BY DEF Pending
<1>3. CASE Outcome(e, t.src)' = "none"
  BY <1>1, <1>2, <1>3, Accumulates
<1>4. ASSUME NEW w \in Workers, Owes(w, e, t)'
      PROVE  Outcome(e, t.src) = "none" \/ Owes(w, e, t)
  <2>1. Leads(w)' /\ Exec(w)' = e /\ Key(w)' = t.src /\ (pc'[w] = "deepen" \/ t \in todo'[w])
    BY <1>4 DEF Owes
  <2>2. CASE LeadsOn(w)
    BY <2>1, <2>2 DEF LeadsOn, Owes, Exec, Key
  <2>3. CASE BeginsToLead(w)
    BY <2>1, <2>3 DEF BeginsToLead, Exec, Key
  <2> QED BY <2>1, <2>2, <2>3, NextLeads
<1> QED BY <1>3, <1>4

\* The sets that FanOut counts are finite.
FanFinite ==
    \A e \in Execs, k \in Keys :
        /\ IsFiniteSet(Stamped(e, k)) /\ Cardinality(Stamped(e, k)) \in Nat
        /\ IsFiniteSet(Pending(e, k)) /\ Cardinality(Pending(e, k)) \in Nat

\* There are finitely many stamps and transitions.
LEMMA FanFiniteHolds == FanFinite
<1> SUFFICES ASSUME NEW e \in Execs, NEW k \in Keys
             PROVE  IsFiniteSet(Stamped(e, k)) /\ IsFiniteSet(Pending(e, k))
  BY FS_CardinalityType DEF FanFinite
<1>1. IsFiniteSet(Stamps) /\ IsFiniteSet(Transitions)
  <2>1. 1 \in Int /\ MaxStamps \in Int
    BY EngineAssumption DEF EngineAssumption
  <2> QED BY <2>1, CanvasAssumption, FS_Interval DEF CanvasAssumption, Stamps
<1>2. Stamped(e, k) \in SUBSET Stamps /\ Pending(e, k) \in SUBSET Transitions
  BY DEF Stamped, Pending
<1> QED BY <1>1, <1>2, FS_Subset

\* Nothing but a transition's add stamps a job.
LEMMA StampsStay ==
    ASSUME FactsInv, [Next]_vars,
           ~ \E w \in Workers, t \in Transitions : EnqueueNext(w, t)
    PROVE  \A e \in Execs, k \in Keys : Stamped(e, k)' \subseteq Stamped(e, k)
<1> USE DEF rowVars, queueVars, slotVars
<1>t. /\ LinearInv /\ TypeOK /\ \A w \in Workers : pc[w] # "idle" => jobs[job[w]] # "absent"
      /\ \A e \in Execs, k \in Keys, s \in Stamps : StampJob(e, k, s) \in JobIds
  BY Busy DEF FactsInv, LinearInv, StampJob, JobIds, Stamps
<1>s. ASSUME \A j \in JobIds : jobs[j] = "absent" /\ jobs'[j] # "absent" => j.by = "attempt"
      PROVE  \A e \in Execs, k \in Keys : Stamped(e, k)' \subseteq Stamped(e, k)
  BY <1>s, <1>t DEF Stamped, StampJob
<1>a. ASSUME NEW e, NEW k, NEW a, jobs' = Added(AttemptJob(e, k, a))
      PROVE  \A j \in JobIds : jobs[j] = "absent" /\ jobs'[j] # "absent" => j.by = "attempt"
  BY <1>a, <1>t, AddedType DEF AttemptJob
<1>1. ASSUME NEW e \in Execs, CreateExecution(e) \/ EnqueueTrigger(e) \/ LaunchLost(e) \/ Cancel(e)
      PROVE  \A j \in JobIds : jobs[j] = "absent" /\ jobs'[j] # "absent" => j.by = "attempt"
  BY <1>1, <1>a DEF CreateExecution, EnqueueTrigger, LaunchLost, Cancel
<1>2. ASSUME NEW w \in Workers, NEW j \in JobIds, Take(w, j)
      PROVE  \A i \in JobIds : jobs[i] = "absent" /\ jobs'[i] # "absent" => i.by = "attempt"
  BY <1>2, <1>t DEF Take, TypeOK
<1>3. ASSUME NEW w \in Workers, Handle(w)
      PROVE  \A i \in JobIds : jobs[i] = "absent" /\ jobs'[i] # "absent" => i.by = "attempt"
  <2>1. CASE ScheduleRetry(w)
    BY <1>a, <2>1 DEF ScheduleRetry
  <2>2. CASE Finish(w) \/ Throw(w)
    <3>1. \A i \in JobIds : jobs'[i] # jobs[i] => i = job[w]
      BY <1>t, <2>2 DEF Finish, Throw, TypeOK
    <3> QED BY <1>t, <2>2, <3>1 DEF Finish, Throw
  <2>3. CASE \/ Load(w) \/ FailTooDeep(w) \/ RunStep(w) \/ RecordSuccess(w) \/ Deepen(w)
             \/ MarkSuccess(w) \/ RecordFailure(w) \/ FailExecution(w)
    BY <2>3 DEF Load, FailTooDeep, RunStep, RecordSuccess, Deepen, MarkSuccess, RecordFailure,
                FailExecution
  <2> QED BY <1>3, <2>1, <2>2, <2>3 DEF Handle
<1>4. ASSUME NEW w \in Workers, Disturb(w) PROVE jobs' = jobs
  BY <1>4 DEF Disturb, Fault, Crash, LockExpires
<1>5. ASSUME NEW j \in JobIds, Redeliver(j)
      PROVE  \A i \in JobIds : jobs[i] = "absent" /\ jobs'[i] # "absent" => i.by = "attempt"
  BY <1>5, <1>t DEF Redeliver, TypeOK
<1>6. CASE UNCHANGED vars
  BY <1>6, <1>s DEF vars
<1> QED BY <1>s, <1>1, <1>2, <1>3, <1>4, <1>5, <1>6 DEF Next

\* An add stamps at most one job, of the transition's target, and the
\* transition is no longer owed.
LEMMA AddIsPaid ==
    ASSUME FactsInv, FactsInv', Apart, Apart', [Next]_vars,
           NEW w \in Workers, NEW u \in Transitions, EnqueueNext(w, u)
    PROVE  \E e \in Execs :
               /\ \A f \in Execs, k \in Keys :
                      <<f, k>> # <<e, u.dst>> => Stamped(f, k)' \subseteq Stamped(f, k)
               /\ \E s \in Stamps : Stamped(e, u.dst)' \subseteq Stamped(e, u.dst) \cup {s}
               /\ u \in Pending(e, u.dst)
               /\ u \notin Pending(e, u.dst)'
<1> USE DEF rowVars, queueVars, slotVars, Goto
<1>t. /\ LinearInv /\ TypeOK /\ TypeOK' /\ LinearInv' /\ SlotFact(w) /\ Grows
      /\ pc[w] \in {"enqueue", "fallback"} /\ u \in todo[w] /\ todo'[w] = todo[w] \ {u}
      /\ pc'[w] = IF todo[w] = {u} THEN "finish" ELSE pc[w]
      /\ job'[w] = job[w] /\ Leads(w)
  <2>1. LinearInv /\ TypeOK /\ TypeOK' /\ LinearInv' /\ SlotFact(w) /\ Grows
    BY NextGrows DEF FactsInv, Facts, LinearInv
  <2>2. /\ job' = job /\ pc[w] \in {"enqueue", "fallback"} /\ u \in todo[w]
        /\ todo' = [todo EXCEPT ![w] = todo[w] \ {u}]
        /\ pc' = IF todo[w] = {u} THEN [pc EXCEPT ![w] = "finish"] ELSE pc
    BY DEF EnqueueNext
  <2>3. todo \in [Workers -> SUBSET Transitions] /\ pc \in [Workers -> PCs]
    BY <2>1 DEF TypeOK
  <2> QED BY <2>1, <2>2, <2>3 DEF Leads
<1>k. /\ Exec(w) \in Execs /\ Key(w) \in Keys /\ Outcome(Exec(w), Key(w)) # "none"
  BY <1>t, LeadsSettled
<1>u. u.src = Key(w) /\ u.dst \in Keys
  BY <1>t, CanvasAssumption
     DEF SlotFact, Follows, FollowUps, Fallbacks, Matching, CanvasAssumption
<1>e. PICK e \in Execs : e = Exec(w) /\ Exec(w)' = e
  BY <1>k, <1>t DEF Exec
<1>1. PICK s \in Stamps : jobs' = Added(StampJob(e, u.dst, s))
  BY <1>e DEF EnqueueNext, AddStamped, Stamps
<1>2. \A f \in Execs, k \in Keys, r \in Stamps :
          /\ StampJob(f, k, r) \in JobIds
          /\ jobs'[StampJob(f, k, r)] # "absent" =>
                 jobs[StampJob(f, k, r)] # "absent" \/ <<f, k, r>> = <<e, u.dst, s>>
  <2>1. \A f \in Execs, k \in Keys, r \in Stamps : StampJob(f, k, r) \in JobIds
    BY DEF StampJob, JobIds, Stamps
  <2>2. \A f \in Execs, k \in Keys, r \in Stamps :
            StampJob(f, k, r) = StampJob(e, u.dst, s) => <<f, k, r>> = <<e, u.dst, s>>
    BY DEF StampJob
  <2> QED BY <1>t, <1>1, <2>1, <2>2, AddedType
<1>3. \A f \in Execs, k \in Keys : <<f, k>> # <<e, u.dst>> => Stamped(f, k)' \subseteq Stamped(f, k)
  BY <1>2 DEF Stamped
<1>4. Stamped(e, u.dst)' \subseteq Stamped(e, u.dst) \cup {s}
  BY <1>2, <1>u DEF Stamped
<1>5. u \in Pending(e, u.dst)
  BY <1>e, <1>t, <1>u DEF Pending, Owes
<1>6. Outcome(e, u.src)' # "none"
  BY <1>e, <1>k, <1>t, <1>u, Accumulates
<1>7. ASSUME NEW v \in Workers, Owes(v, e, u)' PROVE FALSE
  <2>1. Leads(v)' /\ Exec(v)' = e /\ Key(v)' = u.src /\ (pc'[v] = "deepen" \/ u \in todo'[v])
    BY <1>7 DEF Owes
  <2>2. CASE v = w
    BY <1>t, <2>1, <2>2
  <2>3. CASE v # w
    <3>1. LeadsOn(v) \/ BeginsToLead(v)
      BY <2>1, NextLeads
    <3>2. Exec(v) = Exec(w) /\ Key(v) = Key(w)
      BY <1>e, <1>u, <2>1, <3>1 DEF LeadsOn, BeginsToLead, Exec, Key
    <3>3. CASE LeadsOn(v)
      BY <1>t, <2>3, <3>2, <3>3 DEF Apart, LeadsOn
    <3>4. CASE BeginsToLead(v)
      BY <1>k, <3>2, <3>4 DEF BeginsToLead
    <3> QED BY <3>1, <3>3, <3>4
  <2> QED BY <2>2, <2>3
<1>8. u \notin Pending(e, u.dst)'
  BY <1>6, <1>7 DEF Pending
<1> QED BY <1>3, <1>4, <1>5, <1>8

\* Every stamp is paid for by a transition that is no longer owed.
LEMMA NextFanOut == FanInv /\ [Next]_vars => FanInv'
<1> SUFFICES ASSUME FanInv, [Next]_vars PROVE FanInv'
  OBVIOUS
<1>1. FactsInv /\ FactsInv' /\ Apart /\ Apart'
  BY NextFacts, NextApart DEF FanInv
<1>2. FanFinite /\ FanFinite'
  BY FanFiniteHolds, PTL
<1>3. FanOut'
  <2> SUFFICES ASSUME NEW e \in Execs, NEW k \in Keys
               PROVE  Cardinality(Stamped(e, k)') + Cardinality(Pending(e, k)')
                          <= Cardinality(Incoming(k))
    BY DEF FanOut, Incoming
  <2> DEFINE S  == Cardinality(Stamped(e, k))  S1 == Cardinality(Stamped(e, k)')
             P  == Cardinality(Pending(e, k))  P1 == Cardinality(Pending(e, k)')
             I  == Cardinality(Incoming(k))
  <2>1. /\ IsFiniteSet(Stamped(e, k)) /\ IsFiniteSet(Pending(e, k))
        /\ IsFiniteSet(Stamped(e, k)') /\ IsFiniteSet(Pending(e, k)')
        /\ S \in Nat /\ P \in Nat /\ S1 \in Nat /\ P1 \in Nat
    BY <1>2 DEF FanFinite
  <2>2. S + P <= I
    BY DEF FanInv, FanOut
  <2>3. I \in Nat
    BY CanvasAssumption, FS_Subset, FS_CardinalityType DEF CanvasAssumption, Incoming
  <2>4. Pending(e, k)' \subseteq Pending(e, k)
    BY <1>1, PendingShrinks
  <2>5. CASE Stamped(e, k)' \subseteq Stamped(e, k)
    <3>1. S1 <= S /\ P1 <= P
      BY <2>1, <2>4, <2>5, FS_Subset
    <3> HIDE DEF S, P, S1, P1, I
    <3> QED BY <2>1, <2>2, <2>3, <3>1 DEF S1, P1, I
  <2>6. CASE ~(Stamped(e, k)' \subseteq Stamped(e, k))
    <3>1. PICK w \in Workers, u \in Transitions : EnqueueNext(w, u)
      BY <1>1, <2>6, StampsStay
    <3>2. PICK x \in Execs :
              /\ \A f \in Execs, y \in Keys :
                     <<f, y>> # <<x, u.dst>> => Stamped(f, y)' \subseteq Stamped(f, y)
              /\ \E s \in Stamps : Stamped(x, u.dst)' \subseteq Stamped(x, u.dst) \cup {s}
              /\ u \in Pending(x, u.dst) /\ u \notin Pending(x, u.dst)'
      BY <1>1, <3>1, AddIsPaid
    <3>3. e = x /\ k = u.dst
      BY <2>6, <3>2
    <3>4. u \in Pending(e, k) /\ u \notin Pending(e, k)'
      BY <3>2, <3>3
    <3>s. PICK s \in Stamps : Stamped(e, k)' \subseteq Stamped(e, k) \cup {s}
      BY <3>2, <3>3
    <3>5. S1 <= S + 1
      <4>1. /\ IsFiniteSet(Stamped(e, k) \cup {s})
            /\ Cardinality(Stamped(e, k) \cup {s}) = IF s \in Stamped(e, k) THEN S ELSE S + 1
        BY <2>1, FS_AddElement
      <4>2. S1 <= Cardinality(Stamped(e, k) \cup {s})
        BY <3>s, <4>1, FS_Subset
      <4> HIDE DEF S, S1
      <4> QED BY <2>1, <4>1, <4>2
    <3>6. P1 <= P - 1
      <4>1. IsFiniteSet(Pending(e, k) \ {u}) /\ Cardinality(Pending(e, k) \ {u}) = P - 1
        BY <2>1, <3>4, FS_RemoveElement
      <4>2. Pending(e, k)' \in SUBSET (Pending(e, k) \ {u})
        BY <2>4, <3>4
      <4> QED BY <4>1, <4>2, FS_Subset
    <3> HIDE DEF S, P, S1, P1, I
    <3>7. S1 + P1 <= I
      BY <2>1, <2>2, <2>3, <3>5, <3>6
    <3> QED BY <3>7 DEF S1, P1, I
  <2> QED BY <2>5, <2>6
<1> QED BY <1>1, <1>3 DEF FanInv

\* Before any step all transitions are owed and none is queued.
LEMMA InitFanOut == Init => FanInv
<1> SUFFICES ASSUME Init PROVE Apart /\ FanOut
  BY InitFacts DEF FanInv
<1>1. Apart
  BY DEF Init, Apart, Leads
<1>2. ASSUME NEW e \in Execs, NEW k \in Keys
      PROVE  Cardinality(Stamped(e, k)) + Cardinality(Pending(e, k)) <= Cardinality(Incoming(k))
  <2>1. Stamped(e, k) = {}
    BY DEF Init, Stamped, StampJob, JobIds, Stamps
  <2>2. Pending(e, k) \in SUBSET Incoming(k)
    BY DEF Pending, Incoming
  <2>3. IsFiniteSet(Incoming(k)) /\ Cardinality(Incoming(k)) \in Nat
    BY CanvasAssumption, FS_Subset, FS_CardinalityType DEF CanvasAssumption, Incoming
  <2>4. Cardinality(Pending(e, k)) <= Cardinality(Incoming(k)) /\ Cardinality(Stamped(e, k)) = 0
    BY <2>1, <2>2, <2>3, FS_Subset, FS_EmptySet
  <2>5. Cardinality(Pending(e, k)) \in Nat
    BY FanFiniteHolds DEF FanFinite
  <2> QED BY <2>3, <2>4, <2>5
<1> QED BY <1>1, <1>2 DEF FanOut

\* Although the ids that enqueueTransitions makes do not deduplicate, a step
\* is queued at most once per incoming transition: for every canvas with its
\* joins, and every placement of redeliveries, retries, crashes and lost locks.
THEOREM FanOutIsBounded == Spec => []NoDuplicateFanOut
<1>1. ASSUME FanInv PROVE NoDuplicateFanOut
  <2> SUFFICES ASSUME NEW e \in Execs, NEW k \in Keys
               PROVE  Cardinality(Stamped(e, k)) <= Cardinality(Incoming(k))
    BY DEF NoDuplicateFanOut, Stamped, Stamps, Incoming
  <2>1. Cardinality(Stamped(e, k)) + Cardinality(Pending(e, k)) <= Cardinality(Incoming(k))
    BY <1>1 DEF FanInv, FanOut
  <2>2. Cardinality(Stamped(e, k)) \in Nat /\ Cardinality(Pending(e, k)) \in Nat
    BY FanFiniteHolds DEF FanFinite
  <2>3. Cardinality(Incoming(k)) \in Nat
    BY CanvasAssumption, FS_Subset, FS_CardinalityType DEF CanvasAssumption, Incoming
  <2> QED BY <2>1, <2>2, <2>3
<1> QED BY <1>1, InitFanOut, NextFanOut, PTL DEF Spec
=============================================================================
