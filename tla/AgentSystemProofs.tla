------------------------- MODULE AgentSystemProofs -------------------------
(***************************************************************************)
(* Theorems about AgentSystem, for every number of tasks, agents, workers, *)
(* schedulers and clients.                                                 *)
(***************************************************************************)
EXTENDS AgentSystem, FiniteSetTheorems, TLAPS

-----------------------------------------------------------------------------
(* Types                                                                   *)

LEMMA CountUp ==
    ASSUME NEW S, NEW f \in [S -> Nat], NEW x
    PROVE  [f EXCEPT ![x] = @ + 1] \in [S -> Nat]
<1>1. \A y \in S : [f EXCEPT ![x] = @ + 1][y] \in Nat
  OBVIOUS
<1> QED
  BY <1>1

LEMMA InitTypeOK == Init => TypeOK
BY NullAssumption, ParameterAssumption
   DEF Init, TypeOK, TaskTypes, QueueTypes, AgentTypes, WorkerTypes, SubmitterTypes, CancellerTypes, Statuses,
       AgentStatuses, WorkerStates, SubmitterStates, CancellerStates, IdleWorker,
       IdleSubmitter, IdleCanceller, Engaged

LEMMA OperatorTypeOK == TypeOK /\ (Operator \/ Cancellation) => TypeOK'
<1> SUFFICES ASSUME TypeOK, Operator \/ Cancellation PROVE TypeOK'
  OBVIOUS
<1> USE DEF TypeOK, taskVars, creationVars, queueVars, resultVars, agentVars
<1>1. ASSUME NEW t \in Tasks, CreateTask(t) PROVE TypeOK'
  <2>1. TaskTypes'
    BY <1>1 DEF TaskTypes, CreateTask, Registry
  <2>2. QueueTypes'
    BY <1>1 DEF QueueTypes, CreateTask, QueueIfAbsent
  <2>3. AgentTypes' /\ WorkerTypes' /\ SubmitterTypes' /\ CancellerTypes'
    BY <1>1 DEF CreateTask, AgentTypes, WorkerTypes, SubmitterTypes, CancellerTypes, Engaged
  <2> QED
    BY <2>1, <2>2, <2>3
<1>2. ASSUME NEW t \in Tasks, Cancel(t) PROVE TypeOK'
  <2>1. CancellerTypes'
    BY <1>2 DEF Cancel, CancellerTypes, CancellerStates
  <2> QED
    BY <1>2, <2>1 DEF Cancel, TaskTypes, QueueTypes, AgentTypes, WorkerTypes, SubmitterTypes, Engaged
<1>3. CASE Cancellation
  <2>1. canceller.task \in Tasks
    BY <1>3 DEF Cancellation, RequestCancel, CancelCheck, CancelWrite, CancellerTypes
  <2>2. CancellerTypes'
    BY <1>3 DEF Cancellation, RequestCancel, CancelCheck, CancelWrite, CancellerTypes,
                CancellerStates, IdleCanceller
  <2>3. TaskTypes'
    BY <1>3, <2>1 DEF Cancellation, RequestCancel, CancelCheck, CancelWrite, TaskTypes, Statuses
  <2>4. QueueTypes'
    BY <1>3, <2>1 DEF Cancellation, RequestCancel, CancelCheck, CancelWrite, RemoveFromQueue, QueueTypes
  <2> QED
    BY <1>3, <2>2, <2>3, <2>4 DEF Cancellation, RequestCancel, CancelCheck, CancelWrite,
                                  AgentTypes, WorkerTypes, SubmitterTypes, Engaged
<1>4. ASSUME NEW t \in Tasks, RetryComesDue(t) PROVE TypeOK'
  <2>1. TaskTypes'
    BY <1>4 DEF TaskTypes, RetryComesDue
  <2> QED
    BY <1>4, <2>1 DEF RetryComesDue, QueueTypes, AgentTypes, WorkerTypes, SubmitterTypes,
                      CancellerTypes, Engaged
<1>5. ASSUME NEW a \in Agents, RemoveAgent(a) \/ AddAgent(a) PROVE TypeOK'
  <2>1. AgentTypes'
    BY <1>5 DEF RemoveAgent, AddAgent, AgentTypes
  <2>2. SubmitterTypes'
    <3>1. PICK hit \in SUBSET Selecting :
            submitter' = [s \in Submitters |-> IF s \in hit THEN Raise(s) ELSE submitter[s]]
      BY <1>5 DEF RemoveAgent, AddAgent, ResizeManaged
    <3>2. \A s \in Submitters : Raise(s) \in SubmitterStates /\ Raise(s).pc \in {"idle", "stopped"}
      BY DEF Raise, IdleSubmitter, SubmitterStates
    <3> QED
      BY <3>1, <3>2 DEF SubmitterTypes
  <2> QED
    BY <1>5, <2>1, <2>2 DEF RemoveAgent, AddAgent, TaskTypes, QueueTypes, WorkerTypes,
                            CancellerTypes, Engaged
<1>6. ASSUME NEW a \in Agents, SetSuspended(a) PROVE TypeOK'
  <2>1. AgentTypes'
    BY <1>6 DEF SetSuspended, AgentTypes, AgentStatuses
  <2> QED
    BY <1>6, <2>1 DEF SetSuspended, TaskTypes, QueueTypes, WorkerTypes, SubmitterTypes,
                      CancellerTypes, Engaged
<1> QED
  BY <1>1, <1>2, <1>3, <1>4, <1>5, <1>6 DEF Operator

LEMMA SubmissionTypeOK == ASSUME NEW s \in Submitters PROVE TypeOK /\ Submission(s) => TypeOK'
<1> SUFFICES ASSUME TypeOK, Submission(s) PROVE TypeOK'
  OBVIOUS
<1> USE DEF TypeOK, taskVars, creationVars, queueVars, resultVars, agentVars
<1>1. CASE DispatchSnapshot(s) \/ EndOfSnapshot(s)
  <2>1. SubmitterTypes'
    <3>1. submitter' \in [Submitters -> SubmitterStates]
      BY <1>1 DEF DispatchSnapshot, EndOfSnapshot, Iterate, IdleSubmitter, SubmitterTypes, SubmitterStates
    <3>2. submitter'[s].pc \in {"idle", "next"}
      BY <1>1 DEF DispatchSnapshot, EndOfSnapshot, Iterate, IdleSubmitter, SubmitterTypes
    <3>3. \A r \in Submitters \ {s} : submitter'[r] = submitter[r]
      BY <1>1 DEF DispatchSnapshot, EndOfSnapshot, SubmitterTypes
    <3> QED
      BY <3>1, <3>2, <3>3 DEF SubmitterTypes
  <2> QED
    BY <1>1, <2>1 DEF DispatchSnapshot, EndOfSnapshot, TaskTypes, QueueTypes, AgentTypes,
                      WorkerTypes, CancellerTypes, Engaged
<1>2. ASSUME NEW t \in Tasks, NextCandidate(s, t) PROVE TypeOK'
  <2>1. SubmitterTypes'
    BY <1>2 DEF NextCandidate, SubmitterTypes, SubmitterStates
  <2> QED
    BY <1>2, <2>1 DEF NextCandidate, TaskTypes, QueueTypes, AgentTypes, WorkerTypes, CancellerTypes, Engaged
<1>3. ASSUME NEW t \in Tasks, NEW a \in Agents \cup {NoAgent}, ClientSubmit(s, t, a)
      PROVE TypeOK'
  <2>1. SubmitterTypes'
    BY <1>3 DEF ClientSubmit, SubmitterTypes, SubmitterStates
  <2> QED
    BY <1>3, <2>1 DEF ClientSubmit, TaskTypes, QueueTypes, AgentTypes, WorkerTypes, CancellerTypes, Engaged
<1>4. CASE ChooseAgent(s)
  <2>1. SubmitterTypes'
    BY <1>4 DEF ChooseAgent, Return, BestAgents, Available, AgentTypes, SubmitterTypes, SubmitterStates
  <2> QED
    BY <1>4, <2>1 DEF ChooseAgent, TaskTypes, QueueTypes, AgentTypes, WorkerTypes, CancellerTypes, Engaged
<1>5. CASE Assign(s) \/ AssignCheck(s)
  <2>1. SubmitterTypes'
    BY <1>5 DEF Assign, AssignCheck, Return, SubmitterTypes, SubmitterStates
  <2> QED
    BY <1>5, <2>1 DEF Assign, AssignCheck, TaskTypes, QueueTypes, AgentTypes, WorkerTypes,
                      CancellerTypes, Engaged
<1>6. CASE AssignWrite(s)
  <2>1. SubmitterTypes'
    BY <1>6 DEF AssignWrite, SubmitterTypes, SubmitterStates
  <2>2. TaskTypes'
    BY <1>6 DEF AssignWrite, TaskTypes, Statuses
  <2> QED
    BY <1>6, <2>1, <2>2 DEF AssignWrite, QueueTypes, AgentTypes, WorkerTypes, CancellerTypes, Engaged
<1>7. CASE Record(s)
  <2>1. SubmitterTypes'
    <3>1. Raise(s) \in SubmitterStates /\ Raise(s).pc \in {"idle", "stopped"}
      BY DEF Raise, IdleSubmitter, SubmitterStates
    <3> QED
      BY <1>7, <3>1 DEF Record, SubmitterTypes, SubmitterStates
  <2>2. TaskTypes' /\ AgentTypes'
    BY <1>7 DEF Record, SubmitterTypes, TaskTypes, AgentTypes
  <2> QED
    BY <1>7, <2>1, <2>2 DEF Record, QueueTypes, WorkerTypes, CancellerTypes, Engaged
<1>8. CASE Dequeue(s)
  <2>1. SubmitterTypes'
    BY <1>8 DEF Dequeue, Return, SubmitterTypes, SubmitterStates
  <2>2. QueueTypes'
    BY <1>8 DEF Dequeue, RemoveFromQueue, QueueTypes
  <2> QED
    BY <1>8, <2>1, <2>2 DEF Dequeue, TaskTypes, AgentTypes, WorkerTypes, CancellerTypes, Engaged
<1> QED
  BY <1>1, <1>2, <1>3, <1>4, <1>5, <1>6, <1>7, <1>8 DEF Submission

LEMMA ExecutionTypeOK == ASSUME NEW w \in Workers PROVE TypeOK /\ Execution(w) => TypeOK'
<1> SUFFICES ASSUME TypeOK, Execution(w) PROVE TypeOK'
  OBVIOUS
<1> USE DEF TypeOK, taskVars, creationVars, queueVars, resultVars, agentVars
<1>1. ASSUME NEW t \in Tasks, NEW a \in Agents, ExecuteCall(w, t, a) PROVE TypeOK'
  <2>1. WorkerTypes'
    BY <1>1 DEF ExecuteCall, IdleWorker, WorkerTypes, WorkerStates, Engaged
  <2> QED
    BY <1>1, <2>1 DEF ExecuteCall, TaskTypes, QueueTypes, AgentTypes, SubmitterTypes, CancellerTypes
<1>2. CASE Enter(w)
  <2>1. WorkerTypes'
    BY <1>2 DEF Enter, Transition, Goto, WorkerTypes, WorkerStates, Engaged
  <2>2. AgentTypes'
    BY <1>2 DEF Enter, AgentTypes, AgentStatuses
  <2> QED
    BY <1>2, <2>1, <2>2 DEF Enter, TaskTypes, QueueTypes, SubmitterTypes, CancellerTypes
<1>3. CASE Resume(w) \/ Run(w)
  <2>1. WorkerTypes'
    BY <1>3 DEF Resume, Run, Goto, GotoHandler, WorkerTypes, WorkerStates, Engaged
  <2> QED
    BY <1>3, <2>1 DEF Resume, Run, TaskTypes, QueueTypes, AgentTypes, SubmitterTypes, CancellerTypes
<1>4. CASE Complete(w)
  <2>1. WorkerTypes'
    BY <1>4 DEF Complete, Transition, GotoHandler, WorkerTypes, WorkerStates, Engaged
  <2> QED
    BY <1>4, <2>1 DEF Complete, TaskTypes, QueueTypes, AgentTypes, SubmitterTypes, CancellerTypes
<1>5. CASE Handle(w)
  <2>1. Outcome(w) \in {"RETRYING", "FAILED", "CANCELLED"} /\ HandlerStep[Outcome(w)] \in {"spend", "check", "test"}
    BY DEF Outcome, HandlerStep
  <2>2. WorkerTypes'
    <3> HIDE DEF TypeOK
    <3> QED
      BY <1>5, <2>1 DEF Handle, Transition, TypeOK, WorkerTypes, WorkerStates, Engaged
  <2>3. TaskTypes'
    BY <1>5 DEF Handle, TaskTypes
  <2> QED
    BY <1>5, <2>2, <2>3 DEF Handle, AgentTypes, QueueTypes, SubmitterTypes, CancellerTypes
<1>6. CASE Spend(w)
  <2>1. WorkerTypes'
    BY <1>6 DEF Spend, Goto, WorkerTypes, WorkerStates, Engaged
  <2>2. retries' \in [Tasks -> Nat]
    BY <1>6, CountUp DEF Spend, TaskTypes
  <2>3. TaskTypes'
    BY <1>6, <2>2 DEF Spend, TaskTypes
  <2> QED
    BY <1>6, <2>1, <2>3 DEF Spend, AgentTypes, QueueTypes, SubmitterTypes, CancellerTypes
<1>7. CASE Test(w) \/ Check(w)
  <2>1. WorkerTypes'
    BY <1>7 DEF Test, Check, ForcedOrRaise, Goto, GotoHandler, Transition, WorkerTypes, WorkerStates, Engaged
  <2> QED
    BY <1>7, <2>1 DEF Test, Check, TaskTypes, QueueTypes, AgentTypes, SubmitterTypes, CancellerTypes
<1>8. CASE Write(w)
  <2>1. WorkerTypes'
    BY <1>8 DEF Write, Goto, Transition, WorkerTypes, WorkerStates, Engaged
  <2>2. TaskTypes'
    BY <1>8 DEF Write, TaskTypes, WorkerTypes, WorkerStates, Statuses
  <2> QED
    BY <1>8, <2>1, <2>2 DEF Write, AgentTypes, QueueTypes, SubmitterTypes, CancellerTypes
<1>9. CASE Settle(w)
  <2>1. WorkerTypes'
    BY <1>9 DEF Settle, Transition, WorkerTypes, WorkerStates, Engaged
  <2>2. retryDue' \in [Tasks -> BOOLEAN] /\ error' \in [Tasks -> BOOLEAN]
    BY <1>9, Zenon DEF Settle, TaskTypes
  <2>3. TaskTypes'
    BY <1>9, <2>2 DEF Settle, TaskTypes
  <2>4. AgentTypes'
    BY <1>9 DEF Settle, AgentTypes, AgentStatuses
  <2> QED
    BY <1>9, <2>1, <2>3, <2>4 DEF Settle, QueueTypes, SubmitterTypes, CancellerTypes
<1>10. CASE Finally(w)
  <2>1. WorkerTypes'
    BY <1>10 DEF Finally, WorkerTypes, WorkerStates, Engaged
  <2>2. AgentTypes'
    BY <1>10 DEF Finally, Release, RestStatus, AgentTypes, AgentStatuses
  <2> QED
    BY <1>10, <2>1, <2>2 DEF Finally, TaskTypes, QueueTypes, SubmitterTypes, CancellerTypes
<1>11. CASE Aggregate(w)
  <2>1. WorkerTypes'
    BY <1>11 DEF Aggregate, IdleWorker, WorkerTypes, WorkerStates, Engaged
  <2>2. worker[w].task \in Tasks
    BY <1>11 DEF Aggregate, WorkerTypes, Engaged
  <2>3. QueueTypes'
    BY <1>11, <2>2 DEF Aggregate, AddCompleted, QueueIfAbsent, QueueTypes
  <2> QED
    BY <1>11, <2>1, <2>3 DEF Aggregate, TaskTypes, AgentTypes, SubmitterTypes, CancellerTypes
<1> QED
  BY <1>1, <1>2, <1>3, <1>4, <1>5, <1>6, <1>7, <1>8, <1>9, <1>10, <1>11 DEF Execution

LEMMA StutterTypeOK == TypeOK /\ UNCHANGED vars => TypeOK'
BY DEF TypeOK, TaskTypes, QueueTypes, AgentTypes, WorkerTypes, SubmitterTypes, CancellerTypes,
       vars, taskVars, creationVars, queueVars, resultVars, agentVars, Engaged

\* Every variable keeps its type, and every thread inside a call knows its task
\* and, once it has one, its agent: in particular no raising path of
\* submit_task leaves a scheduler with a task but without an agent.
THEOREM TypeCorrect == Spec => []TypeOK
<1>1. TypeOK /\ [Next]_vars => TypeOK'
  BY OperatorTypeOK, SubmissionTypeOK, ExecutionTypeOK, StutterTypeOK DEF Next
<1>2. QED
  BY <1>1, InitTypeOK, PTL DEF Spec

-----------------------------------------------------------------------------
(* Who writes what                                                         *)

\* A status is written by cancel_task, by assign_task or by a worker.
LEMMA StatusWriters ==
    ASSUME [Next]_vars
    PROVE  \/ UNCHANGED status
           \/ CancelWrite
           \/ \E s \in Submitters : AssignWrite(s)
           \/ \E w \in Workers : Write(w)
<1> USE DEF taskVars, creationVars, queueVars, resultVars, agentVars
<1>1. CASE UNCHANGED vars
  BY <1>1 DEF vars
<1>2. CASE Operator
  BY <1>2 DEF Operator, CreateTask, Cancel, RetryComesDue, RemoveAgent, AddAgent, SetSuspended
<1>3. CASE Cancellation
  BY <1>3 DEF Cancellation, RequestCancel, CancelCheck
<1>4. ASSUME NEW s \in Submitters, Submission(s) PROVE UNCHANGED status \/ AssignWrite(s)
  BY <1>4 DEF Submission, DispatchSnapshot, NextCandidate, EndOfSnapshot, ClientSubmit,
              ChooseAgent, Assign, AssignCheck, Record, Dequeue
<1>5. ASSUME NEW w \in Workers, Execution(w) PROVE UNCHANGED status \/ Write(w)
  BY <1>5 DEF Execution, ExecuteCall, Enter, Resume, Run, Complete, Handle, Spend, Test, Check,
              Settle, Finally, Aggregate
<1> QED
  BY <1>1, <1>2, <1>3, <1>4, <1>5 DEF Next

\* A thread's record changes by its own steps only ...
LEMMA WorkerSteps ==
    ASSUME TypeOK, [Next]_vars, NEW w \in Workers
    PROVE  worker'[w] = worker[w] \/ Execution(w)
<1> USE DEF taskVars, creationVars, queueVars, resultVars, agentVars
<1>0. worker \in [Workers -> WorkerStates]
  BY DEF TypeOK, WorkerTypes
<1>1. CASE UNCHANGED vars
  BY <1>1 DEF vars
<1>2. CASE Operator
  BY <1>2 DEF Operator, CreateTask, Cancel, RetryComesDue, RemoveAgent, AddAgent, SetSuspended
<1>3. CASE Cancellation
  BY <1>3 DEF Cancellation, RequestCancel, CancelCheck, CancelWrite
<1>4. ASSUME NEW s \in Submitters, Submission(s) PROVE UNCHANGED worker
  BY <1>4 DEF Submission, DispatchSnapshot, NextCandidate, EndOfSnapshot, ClientSubmit,
              ChooseAgent, Assign, AssignCheck, AssignWrite, Record, Dequeue
<1>5. ASSUME NEW v \in Workers, Execution(v), v # w PROVE worker'[w] = worker[w]
  BY <1>0, <1>5 DEF Execution, ExecuteCall, Enter, Resume, Run, Complete, Handle, Spend, Test,
              Check, Write, Settle, Finally, Aggregate, ForcedOrRaise, Transition, Goto, GotoHandler
<1> QED
  BY <1>1, <1>2, <1>3, <1>4, <1>5 DEF Next

\* ... but for the threads whose iteration over managed_agents raises.
LEMMA SubmitterSteps ==
    ASSUME TypeOK, [Next]_vars, NEW s \in Submitters
    PROVE  \/ submitter'[s] = submitter[s]
           \/ Submission(s)
           \/ s \in Selecting /\ submitter'[s] = Raise(s)
<1> USE DEF taskVars, creationVars, queueVars, resultVars, agentVars
<1>0. submitter \in [Submitters -> SubmitterStates]
  BY DEF TypeOK, SubmitterTypes
<1>1. CASE UNCHANGED vars
  BY <1>1 DEF vars
<1>2. ASSUME NEW a \in Agents, RemoveAgent(a) \/ AddAgent(a)
      PROVE  submitter'[s] = submitter[s] \/ (s \in Selecting /\ submitter'[s] = Raise(s))
  BY <1>2 DEF RemoveAgent, AddAgent, ResizeManaged
<1>3. CASE \/ \E t \in Tasks : CreateTask(t) \/ Cancel(t) \/ RetryComesDue(t)
           \/ \E a \in Agents : SetSuspended(a)
  BY <1>3 DEF CreateTask, Cancel, RetryComesDue, SetSuspended
<1>4. CASE Cancellation
  BY <1>4 DEF Cancellation, RequestCancel, CancelCheck, CancelWrite
<1>5. ASSUME NEW r \in Submitters, Submission(r), r # s PROVE submitter'[s] = submitter[s]
  BY <1>0, <1>5 DEF Submission, DispatchSnapshot, NextCandidate, EndOfSnapshot, ClientSubmit,
              ChooseAgent, Assign, AssignCheck, AssignWrite, Record, Dequeue, Return
<1>6. ASSUME NEW w \in Workers, Execution(w) PROVE UNCHANGED submitter
  BY <1>6 DEF Execution, ExecuteCall, Enter, Resume, Run, Complete, Handle, Spend, Test, Check,
              Write, Settle, Finally, Aggregate
<1> QED
  BY <1>1, <1>2, <1>3, <1>4, <1>5, <1>6 DEF Next, Operator

\* The queue and the registry are written in a few places.
LEMMA QueueWriters ==
    ASSUME [Next]_vars
    PROVE  \/ UNCHANGED <<queueVars, born>>
           \/ \E t \in Tasks : CreateTask(t)
           \/ CancelWrite
           \/ \E s \in Submitters : Dequeue(s)
           \/ \E w \in Workers : /\ Aggregate(w) /\ QueueIfAbsent(worker[w].task)
                                 /\ status[worker[w].task] = "RETRYING"
<1> USE DEF taskVars, creationVars, queueVars, resultVars, agentVars
<1>1. CASE UNCHANGED vars
  BY <1>1 DEF vars
<1>2. CASE Operator
  BY <1>2 DEF Operator, Cancel, RetryComesDue, RemoveAgent, AddAgent, SetSuspended
<1>3. CASE Cancellation
  BY <1>3 DEF Cancellation, RequestCancel, CancelCheck
<1>4. ASSUME NEW s \in Submitters, Submission(s) PROVE UNCHANGED <<queueVars, born>> \/ Dequeue(s)
  BY <1>4 DEF Submission, DispatchSnapshot, NextCandidate, EndOfSnapshot, ClientSubmit,
              ChooseAgent, Assign, AssignCheck, AssignWrite, Record
<1>5. ASSUME NEW w \in Workers, Aggregate(w)
      PROVE  \/ UNCHANGED <<queueVars, born>>
             \/ QueueIfAbsent(worker[w].task) /\ status[worker[w].task] = "RETRYING"
  BY <1>5 DEF Aggregate
<1>6. ASSUME NEW w \in Workers, Execution(w), ~Aggregate(w) PROVE UNCHANGED <<queueVars, born>>
  BY <1>6 DEF Execution, ExecuteCall, Enter, Resume, Run, Complete, Handle, Spend, Test, Check,
              Write, Settle, Finally
<1> QED
  BY <1>1, <1>2, <1>3, <1>4, <1>5, <1>6 DEF Next

\* What w has in hand in each region of execute_task.
InRegion(w) ==
    LET me == worker[w] IN
    /\ me.pc \in {"enter", "resume", "running", "complete"} => me.exc = "none"
    /\ me.pc = "handler" => me.exc # "none"
    /\ me.pc = "spend" => me.to = "RETRYING"
    /\ me.pc = "test" => me.to \in {"RETRYING", "FAILED", "CANCELLED"}
    /\ me.pc = "check" => me.to # "COMPLETED"
    /\ me.pc = "settle" => me.to # "RUNNING"
    /\ me.pc \in {"spend", "test", "check", "write", "settle"} =>
            /\ me.to \in {"RUNNING", "COMPLETED"} <=> me.exc = "none"
            /\ me.to = "CANCELLED" <=> me.exc = "cancelled"

RegionInv == \A w \in Workers : InRegion(w)

LEMMA RegionStep == TypeOK /\ RegionInv /\ [Next]_vars => RegionInv'
<1> SUFFICES ASSUME TypeOK, RegionInv, [Next]_vars, NEW w \in Workers PROVE InRegion(w)'
  BY DEF RegionInv
<1>0. InRegion(w) /\ worker \in [Workers -> WorkerStates] /\ worker[w] \in WorkerStates
  BY DEF RegionInv, TypeOK, WorkerTypes
<1>1. CASE worker'[w] = worker[w]
  BY <1>0, <1>1 DEF InRegion
<1>2. ASSUME NEW t \in Tasks, NEW a \in Agents, ExecuteCall(w, t, a) PROVE InRegion(w)'
  <2>1. worker'[w].pc = "enter" /\ worker'[w].exc = "none"
    BY <1>0, <1>2 DEF ExecuteCall, IdleWorker
  <2> QED
    BY <2>1 DEF InRegion
<1>3. CASE Enter(w) \/ Resume(w) \/ Run(w) \/ Complete(w)
  BY <1>0, <1>3 DEF Enter, Resume, Run, Complete, Transition, Goto, GotoHandler, InRegion, WorkerStates
<1>4. CASE Handle(w)
  <2>1. /\ worker'[w].pc = HandlerStep[Outcome(w)]
        /\ worker'[w].to = Outcome(w)
        /\ worker'[w].exc = worker[w].exc
        /\ worker[w].exc \in {"error", "cancelled"}
    BY <1>0, <1>4 DEF Handle, Transition, InRegion, WorkerStates
  <2>2. \/ worker[w].exc = "cancelled" /\ Outcome(w) = "CANCELLED" /\ HandlerStep[Outcome(w)] = "test"
        \/ worker[w].exc # "cancelled" /\ Outcome(w) = "RETRYING" /\ HandlerStep[Outcome(w)] = "spend"
        \/ worker[w].exc # "cancelled" /\ Outcome(w) = "FAILED" /\ HandlerStep[Outcome(w)] = "check"
    BY DEF Outcome, HandlerStep
  <2> QED
    BY <2>1, <2>2 DEF InRegion
<1>5. CASE Spend(w) \/ Test(w) \/ Check(w)
  BY <1>0, <1>5 DEF Spend, Test, Check, ForcedOrRaise, Transition, Goto, GotoHandler, InRegion, WorkerStates
<1>6. CASE Write(w) \/ Settle(w) \/ Finally(w) \/ Aggregate(w)
  BY <1>0, <1>6 DEF Write, Settle, Finally, Aggregate, IdleWorker, Transition, Goto, InRegion, WorkerStates
<1> QED
  BY <1>1, <1>2, <1>3, <1>4, <1>5, <1>6, WorkerSteps DEF Execution

LEMMA InitRegion == Init => RegionInv
BY DEF Init, IdleWorker, RegionInv, InRegion

LEMMA RegionCorrect == Spec => []RegionInv
BY InitRegion, RegionStep, TypeCorrect, PTL DEF Spec

-----------------------------------------------------------------------------
(* The queue                                                               *)

\* A thread takes a task off the queue only after it has been assigned.
QueueInv ==
    /\ QueueSound
    /\ \A s \in Submitters : submitter[s].pc \in {"record", "dequeue"} =>
            status[submitter[s].task] # "PENDING"

\* No step makes a task PENDING again, forced or not.
LEMMA NeverPendingAgain ==
    ASSUME TypeOK, [Next]_vars, NEW t \in Tasks, status[t] # "PENDING"
    PROVE  status'[t] # "PENDING"
<1>1. CASE UNCHANGED status
  BY <1>1
<1>2. CASE CancelWrite \/ \E s \in Submitters : AssignWrite(s)
  BY <1>2 DEF CancelWrite, AssignWrite, TypeOK, TaskTypes
<1>3. ASSUME NEW w \in Workers, Write(w) PROVE status'[t] # "PENDING"
  <2>1. worker[w].to # "PENDING"
    BY <1>3 DEF TypeOK, WorkerTypes, WorkerStates
  <2> QED
    BY <1>3, <2>1 DEF Write, TypeOK, TaskTypes
<1> QED
  BY <1>1, <1>2, <1>3, StatusWriters

\* What a step does to the queue leaves list and index in agreement.
LEMMA QueueOperations ==
    ASSUME TypeOK, QueueSound, NEW t \in Tasks,
           QueueIfAbsent(t) \/ RemoveFromQueue(t) \/ UNCHANGED queueVars
    PROVE  /\ \A u \in Tasks : queued'[u] = IF u \in queuedIds' THEN 1 ELSE 0
           /\ \A u \in Tasks \ {t} : u \in queuedIds' <=> u \in queuedIds
           /\ QueueIfAbsent(t) => t \in queuedIds'
           /\ UNCHANGED queueVars => queuedIds' = queuedIds
<1>1. queued \in [Tasks -> Nat] /\ queuedIds \subseteq Tasks
  BY DEF TypeOK, QueueTypes
<1>2. CASE QueueIfAbsent(t)
  BY <1>1, <1>2 DEF QueueIfAbsent, QueueSound, queueVars
<1>3. CASE RemoveFromQueue(t)
  BY <1>1, <1>3 DEF RemoveFromQueue, QueueSound, QueueIfAbsent, queueVars
<1>4. CASE UNCHANGED queueVars
  BY <1>1, <1>4 DEF QueueSound, queueVars, QueueIfAbsent
<1> QED
  BY <1>2, <1>3, <1>4

LEMMA QueueSoundStep ==
    ASSUME TypeOK, QueueInv, [Next]_vars
    PROVE  QueueSound'
<1>0. \A t \in Tasks : status'[t] = "PENDING" => status[t] = "PENDING"
  BY NeverPendingAgain
<1> USE DEF QueueInv
<1>1. CASE UNCHANGED <<queueVars, born>>
  BY <1>0, <1>1 DEF QueueSound, queueVars, Registry
<1>2. ASSUME NEW t \in Tasks, CreateTask(t) PROVE QueueSound'
  <2>1. QueueIfAbsent(t) /\ UNCHANGED status /\ born' = [born EXCEPT ![t] = totalTasks + 1]
    BY <1>2 DEF CreateTask, taskVars
  <2>2. \A u \in Tasks \ {t} : u \in Registry' <=> u \in Registry
    BY <2>1 DEF Registry, TypeOK, TaskTypes
  <2> QED
    BY <2>1, <2>2, QueueOperations DEF QueueSound
<1>3. CASE CancelWrite
  <2> DEFINE t == canceller.task
  <2>1. t \in Tasks
    BY <1>3 DEF CancelWrite, TypeOK, CancellerTypes
  <2>2. RemoveFromQueue(t) /\ UNCHANGED born /\ status' = [status EXCEPT ![t] = "CANCELLED"]
    BY <1>3 DEF CancelWrite, creationVars
  <2>3. status'[t] # "PENDING"
    BY <2>1, <2>2 DEF TypeOK, TaskTypes
  <2> QED
    BY <1>0, <2>1, <2>2, <2>3, QueueOperations DEF QueueSound, Registry
<1>4. ASSUME NEW s \in Submitters, Dequeue(s) PROVE QueueSound'
  <2> DEFINE t == submitter[s].task
  <2>1. t \in Tasks /\ status[t] # "PENDING"
    BY <1>4 DEF Dequeue, TypeOK, SubmitterTypes
  <2>2. RemoveFromQueue(t) /\ UNCHANGED <<status, born>>
    BY <1>4 DEF Dequeue, taskVars, creationVars
  <2> QED
    BY <2>1, <2>2, QueueOperations DEF QueueSound, Registry
<1>5. ASSUME NEW w \in Workers, Aggregate(w), QueueIfAbsent(worker[w].task) PROVE QueueSound'
  <2>1. worker[w].task \in Tasks
    BY <1>5 DEF Aggregate, TypeOK, WorkerTypes, Engaged
  <2>2. UNCHANGED <<status, born>>
    BY <1>5 DEF Aggregate, taskVars, creationVars
  <2> QED
    BY <1>5, <2>1, <2>2, QueueOperations DEF QueueSound, Registry
<1> QED
  BY <1>1, <1>2, <1>3, <1>4, <1>5, QueueWriters

LEMMA QueueInvStep == TypeOK /\ QueueInv /\ [Next]_vars => QueueInv'
<1> SUFFICES ASSUME TypeOK, QueueInv, [Next]_vars,
                    NEW s \in Submitters, submitter'[s].pc \in {"record", "dequeue"}
             PROVE  status'[submitter'[s].task] # "PENDING"
  BY QueueSoundStep DEF QueueInv
<1>0. submitter \in [Submitters -> SubmitterStates] /\ submitter[s] \in SubmitterStates
  BY DEF TypeOK, SubmitterTypes
<1>1. ASSUME submitter'[s].task = submitter[s].task, submitter[s].task \in Tasks,
             status[submitter[s].task] # "PENDING"
      PROVE  status'[submitter'[s].task] # "PENDING"
  BY <1>1, NeverPendingAgain
<1>2. CASE submitter'[s] = submitter[s]
  BY <1>1, <1>2 DEF QueueInv, TypeOK, SubmitterTypes
<1>3. submitter'[s] # Raise(s)
  BY DEF Raise, IdleSubmitter
<1>4. CASE Assign(s) \/ Record(s)
  <2>1. submitter'[s].task = submitter[s].task /\ submitter[s].task \in Tasks
    BY <1>0, <1>3, <1>4 DEF Assign, Record, Return, SubmitterStates, TypeOK, SubmitterTypes
  <2>2. status[submitter[s].task] # "PENDING"
    BY <1>0, <1>4 DEF Assign, Record, Return, SubmitterStates, QueueInv
  <2> QED
    BY <1>1, <2>1, <2>2
<1>5. CASE AssignWrite(s)
  BY <1>0, <1>5 DEF AssignWrite, SubmitterStates, TypeOK, SubmitterTypes, TaskTypes
<1>6. CASE DispatchSnapshot(s) \/ EndOfSnapshot(s)
  BY <1>0, <1>6 DEF DispatchSnapshot, EndOfSnapshot, Iterate, IdleSubmitter
<1>7. ASSUME NEW t \in Tasks PROVE ~NextCandidate(s, t)
  BY <1>0 DEF NextCandidate, SubmitterStates
<1>8. ASSUME NEW t \in Tasks, NEW a \in Agents \cup {NoAgent} PROVE ~ClientSubmit(s, t, a)
  BY <1>0 DEF ClientSubmit
<1>9. ~ChooseAgent(s) /\ ~AssignCheck(s) /\ ~Dequeue(s)
  BY <1>0 DEF ChooseAgent, AssignCheck, Dequeue, Return, SubmitterStates
<1> QED
  BY <1>2, <1>3, <1>4, <1>5, <1>6, <1>7, <1>8, <1>9, SubmitterSteps DEF Submission

\* The queue holds every task at most once, its index agrees with it, and no
\* PENDING task of the registry is ever missing from it.
THEOREM QueueCorrect == Spec => []QueueSound
<1>1. Init => QueueInv
  BY DEF Init, QueueInv, QueueSound, Registry, IdleSubmitter
<1>2. QueueInv => QueueSound
  BY DEF QueueInv
<1> QED
  BY <1>1, <1>2, QueueInvStep, TypeCorrect, PTL DEF Spec

-----------------------------------------------------------------------------
(* Executions                                                              *)

\* The threads that are going to end t's being RUNNING.  One that looks whether
\* the task has FAILED already is not: a RUNNING task can fail, so that its
\* transition was not refused while the task was RUNNING.
Keeps(w, t) ==
    /\ worker[w].task = t
    /\ \/ worker[w].pc \in {"running", "complete", "handler", "spend", "check", "write"}
       \/ worker[w].pc = "test" /\ worker[w].to # "FAILED"

RunningInv == \A t \in Tasks : status[t] = "RUNNING" => \E w \in Workers : Keeps(w, t)

LEMMA RunningStep == TypeOK /\ RegionInv /\ RunningInv /\ [Next]_vars => RunningInv'
<1> SUFFICES ASSUME TypeOK, RegionInv, RunningInv, [Next]_vars,
                    NEW t \in Tasks, status'[t] = "RUNNING"
             PROVE  \E w \in Workers : Keeps(w, t)'
  BY DEF RunningInv
<1>0. worker \in [Workers -> WorkerStates] /\ status \in [Tasks -> Statuses]
  BY DEF TypeOK, WorkerTypes, TaskTypes
<1>1. CASE status[t] # "RUNNING"
  <2>1. PICK w \in Workers : Write(w)
    BY <1>0, <1>1, StatusWriters DEF CancelWrite, AssignWrite
  <2>2. worker[w].task = t /\ worker[w].to = "RUNNING"
    BY <1>0, <1>1, <2>1 DEF Write
  <2>3. Keeps(w, t)'
    BY <1>0, <2>1, <2>2 DEF Write, Transition, Goto, Keeps, WorkerStates
  <2> QED
    BY <2>3
<1>2. CASE status[t] = "RUNNING"
  <2>1. PICK w \in Workers : Keeps(w, t)
    BY <1>2 DEF RunningInv
  <2> SUFFICES Keeps(w, t)'
    OBVIOUS
  <2>2. CASE worker'[w] = worker[w]
    BY <2>1, <2>2 DEF Keeps
  <2>3. CASE Execution(w)
    <3>1. CASE Run(w) \/ Spend(w) \/ Test(w)
      BY <1>0, <1>2, <2>1, <3>1
         DEF Run, Spend, Test, Goto, Keeps, RegionInv, InRegion, WorkerStates
    <3>2. CASE Complete(w)
      BY <1>0, <2>1, <3>2 DEF Complete, Transition, GotoHandler, Keeps, WorkerStates
    <3>3. CASE Handle(w)
      <4>1. Outcome(w) = "FAILED" => HandlerStep[Outcome(w)] = "check"
        BY DEF HandlerStep
      <4>2. HandlerStep[Outcome(w)] \in {"spend", "check", "test"}
        BY DEF Outcome, HandlerStep
      <4> QED
        BY <1>0, <2>1, <3>3, <4>1, <4>2 DEF Handle, Transition, Keeps, WorkerStates
    <3>4. CASE Check(w)
      <4>1. worker[w].to \in {"RUNNING", "RETRYING", "FAILED", "CANCELLED"}
        BY <1>0, <3>4 DEF Check, RegionInv, InRegion, TypeOK, WorkerTypes, WorkerStates
      <4>2. worker[w].to # "RUNNING" => CanMove(t, worker[w].to)
        BY <1>2, <4>1 DEF CanMove, Transitions
      <4> QED
        BY <1>0, <2>1, <3>4, <4>1, <4>2 DEF Check, Goto, GotoHandler, Keeps, WorkerStates
    <3>5. CASE Write(w)
      BY <1>0, <2>1, <3>5 DEF Write, Transition, Goto, Keeps, WorkerStates
    <3> QED
      BY <2>1, <2>3, <3>1, <3>2, <3>3, <3>4, <3>5
         DEF Execution, ExecuteCall, Enter, Resume, Settle, Finally, Aggregate, Engaged, Keeps
  <2> QED
    BY <2>2, <2>3, WorkerSteps
<1> QED
  BY <1>1, <1>2

\* No task is left RUNNING by the threads that executed it, although each reads
\* and writes the status in different steps and others write it in between.
THEOREM RunningCorrect == Spec => []RunningHasWorker
<1>1. Init => RunningInv
  BY DEF Init, RunningInv
<1>2. RunningInv => RunningHasWorker
  BY DEF RunningInv, RunningHasWorker, Keeps
<1> QED
  BY <1>1, <1>2, RunningStep, TypeCorrect, RegionCorrect, PTL DEF Spec

\* The worker keeps agent a from being at rest.
Occupies(w, a) ==
    /\ worker[w].agent = a
    /\ worker[w].pc \in ExecuteRegion \cup {"running", "complete", "handler", "finally"}

\* An agent's status is written by its operator and in three of the regions.
LEMMA AgentStatusWriters ==
    ASSUME [Next]_vars
    PROVE  \/ UNCHANGED agentStatus
           \/ \E a \in Agents : SetSuspended(a)
           \/ \E w \in Workers : Enter(w) \/ Settle(w) \/ Finally(w)
<1> USE DEF taskVars, creationVars, queueVars, resultVars, agentVars
<1>1. CASE UNCHANGED vars
  BY <1>1 DEF vars
<1>2. CASE Operator
  BY <1>2 DEF Operator, CreateTask, Cancel, RetryComesDue, RemoveAgent, AddAgent
<1>3. CASE Cancellation
  BY <1>3 DEF Cancellation, RequestCancel, CancelCheck, CancelWrite
<1>4. ASSUME NEW s \in Submitters, Submission(s) PROVE UNCHANGED agentStatus
  BY <1>4 DEF Submission, DispatchSnapshot, NextCandidate, EndOfSnapshot, ClientSubmit,
              ChooseAgent, Assign, AssignCheck, AssignWrite, Record, Dequeue
<1>5. ASSUME NEW w \in Workers, Execution(w), ~Enter(w), ~Settle(w), ~Finally(w)
      PROVE  UNCHANGED agentStatus
  BY <1>5 DEF Execution, ExecuteCall, Resume, Run, Complete, Handle, Spend, Test, Check, Write,
              Aggregate
<1> QED
  BY <1>1, <1>2, <1>3, <1>4, <1>5 DEF Next

\* An occupied agent stays so until the finally block of its worker.
LEMMA OccupiesStep ==
    ASSUME TypeOK, [Next]_vars, NEW w \in Workers, NEW a \in Agents, Occupies(w, a)
    PROVE  Occupies(w, a)' \/ Finally(w)
<1>0. worker \in [Workers -> WorkerStates]
  BY DEF TypeOK, WorkerTypes
<1>1. CASE worker'[w] = worker[w]
  BY <1>1 DEF Occupies
<1>2. CASE Handle(w)
  <2>1. HandlerStep[Outcome(w)] \in {"spend", "check", "test"}
    BY DEF Outcome, HandlerStep
  <2> QED
    BY <1>0, <1>2, <2>1 DEF Handle, Transition, Occupies, ExecuteRegion, WorkerStates
<1>3. CASE Resume(w) \/ Run(w) \/ Complete(w) \/ Spend(w) \/ Test(w) \/ Check(w) \/ Write(w) \/ Settle(w)
  BY <1>0, <1>3 DEF Resume, Run, Complete, Spend, Test, Check, Write, Settle, ForcedOrRaise,
                    Transition, Goto, GotoHandler, Occupies, ExecuteRegion, WorkerStates
<1>4. ~(Enter(w) \/ Aggregate(w) \/ \E t \in Tasks, b \in Agents : ExecuteCall(w, t, b))
  BY DEF Enter, Aggregate, ExecuteCall, Engaged, Occupies, ExecuteRegion
<1> QED
  BY <1>1, <1>2, <1>3, <1>4, WorkerSteps DEF Execution

LEMMA IdleStep == TypeOK /\ IdleAtRest /\ [Next]_vars => IdleAtRest'
<1> SUFFICES ASSUME TypeOK, IdleAtRest, [Next]_vars, NEW a \in Agents,
                    agentStatus'[a] \notin {"IDLE", "SUSPENDED"}
             PROVE  \E w \in Workers : Occupies(w, a)'
  BY DEF IdleAtRest, Occupies
<1>0. worker \in [Workers -> WorkerStates] /\ agentStatus \in [Agents -> AgentStatuses]
  BY DEF TypeOK, AgentTypes, WorkerTypes
<1>1. CASE agentStatus'[a] = agentStatus[a]
  <2>1. PICK w \in Workers : Occupies(w, a)
    BY <1>1 DEF IdleAtRest, Occupies
  <2>2. ~Finally(w)
    BY <1>0, <1>1, <2>1 DEF Finally, RestStatus, Occupies
  <2> QED
    BY <2>1, <2>2, OccupiesStep
<1>2. ASSUME NEW w \in Workers, Enter(w) \/ Settle(w), worker[w].agent = a
      PROVE  \E v \in Workers : Occupies(v, a)'
  <2>1. Occupies(w, a)'
    BY <1>0, <1>2 DEF Enter, Settle, Transition, Goto, Occupies, ExecuteRegion, WorkerStates
  <2> QED
    BY <2>1
<1>3. ASSUME NEW w \in Workers, Enter(w) \/ Settle(w) \/ Finally(w), worker[w].agent # a
      PROVE  agentStatus'[a] = agentStatus[a]
  BY <1>0, <1>3 DEF Enter, Settle, Finally
<1>4. ASSUME NEW w \in Workers PROVE ~(Finally(w) /\ worker[w].agent = a)
  BY <1>0 DEF Finally, RestStatus
<1>5. ASSUME NEW b \in Agents, SetSuspended(b) PROVE agentStatus'[a] = agentStatus[a]
  BY <1>0, <1>5 DEF SetSuspended
<1> QED
  BY <1>1, <1>2, <1>3, <1>4, <1>5, AgentStatusWriters

\* No outcome of an execution, and no sequence of overlapping ones, leaves an
\* agent BUSY or in ERROR for good.
THEOREM IdleCorrect == Spec => []IdleAtRest
<1>1. Init => IdleAtRest
  BY DEF Init, IdleAtRest
<1> QED
  BY <1>1, IdleStep, TypeCorrect, PTL DEF Spec

-----------------------------------------------------------------------------
(* Results                                                                 *)

LEMMA CompletedStep ==
    TypeOK /\ CompletedListedOnce /\ [Next]_vars => CompletedListedOnce'
<1> SUFFICES ASSUME TypeOK, CompletedListedOnce, [Next]_vars PROVE CompletedListedOnce'
  OBVIOUS
<1> USE DEF resultVars
<1>1. CASE UNCHANGED <<completed, completedIds>>
  BY <1>1 DEF CompletedListedOnce
<1>2. ASSUME NEW w \in Workers, Aggregate(w) PROVE CompletedListedOnce'
  <2>1. worker[w].task \in Tasks
    BY <1>2 DEF Aggregate, TypeOK, WorkerTypes, Engaged
  <2>2. CASE AddCompleted(worker[w].task)
    BY <2>1, <2>2 DEF AddCompleted, CompletedListedOnce, TypeOK, QueueTypes
  <2> QED
    BY <1>1, <1>2, <2>2 DEF Aggregate
<1>3. CASE Operator \/ Cancellation \/ \E s \in Submitters : Submission(s)
  BY <1>1, <1>3 DEF Operator, CreateTask, Cancel, RetryComesDue, RemoveAgent, AddAgent,
                    SetSuspended, Cancellation, RequestCancel, CancelCheck, CancelWrite,
                    Submission, DispatchSnapshot, NextCandidate, EndOfSnapshot, ClientSubmit,
                    ChooseAgent, Assign, AssignCheck, AssignWrite, Record, Dequeue
<1>4. ASSUME NEW w \in Workers, Execution(w), ~Aggregate(w)
      PROVE  UNCHANGED <<completed, completedIds>>
  BY <1>4 DEF Execution, ExecuteCall, Enter, Resume, Run, Complete, Handle, Spend, Test, Check,
              Write, Settle, Finally
<1> QED
  BY <1>1, <1>2, <1>3, <1>4 DEF Next, vars

\* completed_tasks lists a task once, even if statuses are forced.
THEOREM CompletedCorrect == Spec => []CompletedListedOnce
<1>1. Init => CompletedListedOnce
  BY DEF Init, CompletedListedOnce
<1> QED
  BY <1>1, CompletedStep, TypeCorrect, PTL DEF Spec

-----------------------------------------------------------------------------
(* The lifecycle: the sets the refinement is stated with                   *)

\* What the workers have been granted for t.
Granted(t) == {worker[w].to : w \in Writers(t)}

LEMMA IntendedParts ==
    ASSUME NEW t \in Tasks
    PROVE  \A s : s \in Intended(t) <=> \/ s \in Granted(t)
                                        \/ s = "ASSIGNED" /\ Assigners(t) # {}
                                        \/ s = "CANCELLED" /\ CancelInFlight(t)
BY DEF Intended, Granted

\* The regions the sets are about.
Deciding(w) == worker[w].pc \in {"write", "spend", "test", "check"}

LEMMA UndecidedStep ==
    ASSUME NEW w \in Workers, \A v \in Workers \ {w} : worker'[v] = worker[v],
           ~Deciding(w), ~Deciding(w)', NEW t \in Tasks
    PROVE  Granted(t)' = Granted(t) /\ Spenders(t)' = Spenders(t) /\ Spent(t)' = Spent(t)
BY DEF Granted, Writers, Spenders, Spent, Deciding

LEMMA DecidingStep ==
    ASSUME NEW w \in Workers, \A v \in Workers \ {w} : worker'[v] = worker[v],
           NEW t \in Tasks, worker[w].task = t, worker'[w].task = t
    PROVE  /\ \A u \in Tasks \ {t} : /\ Granted(u)' = Granted(u)
                                     /\ Spenders(u)' = Spenders(u)
                                     /\ Spent(u)' = Spent(u)
           /\ worker[w].pc # "write" /\ worker'[w].pc # "write" => Granted(t)' = Granted(t)
           /\ worker[w].pc # "write" /\ worker'[w].pc = "write" =>
                    Granted(t)' = Granted(t) \cup {worker'[w].to}
           /\ worker[w].pc = "write" /\ worker'[w].pc # "write" =>
                    /\ worker[w].to \in Granted(t)
                    /\ Granted(t)' \in {Granted(t), Granted(t) \ {worker[w].to}}
           /\ Spenders(t)' = IF worker'[w].pc = "spend" THEN Spenders(t) \cup {w}
                                                        ELSE Spenders(t) \ {w}
           /\ Spent(t)' = IF worker'[w].pc \in {"test", "check"} /\ worker'[w].to = "RETRYING"
                          THEN Spent(t) \cup {w} ELSE Spent(t) \ {w}
<1>1. \A u \in Tasks \ {t} : /\ Granted(u)' = Granted(u)
                             /\ Spenders(u)' = Spenders(u)
                             /\ Spent(u)' = Spent(u)
  BY DEF Granted, Writers, Spenders, Spent
<1>2. worker[w].pc # "write" /\ worker'[w].pc # "write" => Granted(t)' = Granted(t)
  BY DEF Granted, Writers
<1>3. ASSUME worker[w].pc # "write", worker'[w].pc = "write"
      PROVE  Granted(t)' = Granted(t) \cup {worker'[w].to}
  <2>1. Writers(t)' = Writers(t) \cup {w} /\ w \notin Writers(t)
    BY <1>3 DEF Writers
  <2> QED
    BY <2>1 DEF Granted, Writers
<1>4. ASSUME worker[w].pc = "write", worker'[w].pc # "write"
      PROVE  /\ worker[w].to \in Granted(t)
             /\ Granted(t)' \in {Granted(t), Granted(t) \ {worker[w].to}}
  <2>1. Writers(t)' = Writers(t) \ {w} /\ w \in Writers(t)
    BY <1>4 DEF Writers
  <2>2. Granted(t)' = {worker[v].to : v \in Writers(t) \ {w}}
    BY <2>1 DEF Granted, Writers
  <2>3. CASE worker[w].to \in {worker[v].to : v \in Writers(t) \ {w}}
    BY <2>1, <2>2, <2>3 DEF Granted
  <2>4. CASE worker[w].to \notin {worker[v].to : v \in Writers(t) \ {w}}
    BY <2>1, <2>2, <2>4 DEF Granted
  <2> QED
    BY <2>1, <2>3, <2>4 DEF Granted
<1>5. Spenders(t)' = IF worker'[w].pc = "spend" THEN Spenders(t) \cup {w} ELSE Spenders(t) \ {w}
  BY DEF Spenders
<1>6. Spent(t)' = IF worker'[w].pc \in {"test", "check"} /\ worker'[w].to = "RETRYING"
                  THEN Spent(t) \cup {w} ELSE Spent(t) \ {w}
  BY DEF Spent
<1> QED
  BY <1>1, <1>2, <1>3, <1>4, <1>5, <1>6

\* The abstract steps, in terms of those sets.
LEMMA IntendStep ==
    ASSUME TypeOK, NEW t \in Tasks, NEW s \in Transitions[status[t]] \ {"RETRYING"},
           UNCHANGED <<status, retries>>,
           \A u \in Tasks : Spenders(u)' = Spenders(u) /\ Spent(u)' = Spent(u),
           \A u \in Tasks \ {t} : Intended(u)' = Intended(u),
           Intended(t)' = Intended(t) \cup {s}
    PROVE  Lifecycle!Next
<1>1. Lifecycle!Intend(t)
  BY DEF Lifecycle!Intend, Lifecycle!Transitions, Transitions
<1> QED
  BY <1>1 DEF Lifecycle!Next

LEMMA MoveStep ==
    ASSUME TypeOK, NEW t \in Tasks, NEW s \in Intended(t),
           status' = [status EXCEPT ![t] = s], UNCHANGED retries,
           \A u \in Tasks : Spenders(u)' = Spenders(u) /\ Spent(u)' = Spent(u),
           \A u \in Tasks \ {t} : Intended(u)' = Intended(u),
           Intended(t)' \in {Intended(t), Intended(t) \ {s}}
    PROVE  Lifecycle!Next
<1>1. Lifecycle!Move(t)
  BY DEF Lifecycle!Move
<1> QED
  BY <1>1 DEF Lifecycle!Next

LEMMA LifecycleStutter ==
    ASSUME UNCHANGED <<status, retries>>,
           \A u \in Tasks : /\ Spenders(u)' = Spenders(u)
                            /\ Spent(u)' = Spent(u)
                            /\ Intended(u)' = Intended(u)
    PROVE  UNCHANGED Lifecycle!vars
BY DEF Lifecycle!vars

LEMMA SubmissionFollows ==
    ASSUME TypeOK, NEW s \in Submitters, Submission(s)
    PROVE  Lifecycle!Next \/ UNCHANGED Lifecycle!vars
<1> DEFINE t == submitter[s].task
<1>0. submitter \in [Submitters -> SubmitterStates] /\ status \in [Tasks -> Statuses]
  BY DEF TypeOK, SubmitterTypes, TaskTypes
<1>1. /\ UNCHANGED <<worker, canceller, retries>>
      /\ \A r \in Submitters \ {s} : submitter'[r] = submitter[r]
  BY <1>0 DEF Submission, DispatchSnapshot, NextCandidate, EndOfSnapshot, ClientSubmit, ChooseAgent,
              Assign, AssignCheck, AssignWrite, Record, Dequeue, Return, taskVars
<1>2. \A u \in Tasks : /\ Granted(u)' = Granted(u) /\ Spenders(u)' = Spenders(u)
                       /\ Spent(u)' = Spent(u) /\ CancelInFlight(u)' = CancelInFlight(u)
  BY <1>1 DEF Granted, Writers, Spenders, Spent, CancelInFlight
<1>3. CASE AssignCheck(s) /\ submitter'[s].pc = "write"
  <2>1. t \in Tasks /\ submitter'[s].task = t /\ CanMove(t, "ASSIGNED") /\ submitter[s].pc # "write"
    BY <1>0, <1>3 DEF AssignCheck, Return, TypeOK, SubmitterTypes, SubmitterStates
  <2>2. \A u \in Tasks \ {t} : Assigners(u)' = Assigners(u)
    BY <1>1, <2>1 DEF Assigners
  <2>3. Assigners(t)' # {}
    BY <1>3, <2>1 DEF Assigners
  <2>4. \A u \in Tasks \ {t} : Intended(u)' = Intended(u)
    BY <1>2, <2>2 DEF Intended, Granted
  <2>5. Intended(t)' = Intended(t) \cup {"ASSIGNED"}
    BY <1>2, <2>1, <2>3 DEF Intended, Granted
  <2>6. UNCHANGED <<status, retries>> /\ "ASSIGNED" \in Transitions[status[t]] \ {"RETRYING"}
    BY <1>3, <2>1 DEF AssignCheck, CanMove, taskVars
  <2> QED
    BY <1>2, <2>1, <2>4, <2>5, <2>6, IntendStep
<1>4. CASE AssignWrite(s)
  <2>1. /\ t \in Tasks /\ submitter'[s].pc # "write" /\ submitter'[s].task = t
        /\ submitter[s].pc = "write" /\ status' = [status EXCEPT ![t] = "ASSIGNED"]
    BY <1>0, <1>4 DEF AssignWrite, TypeOK, SubmitterTypes, SubmitterStates
  <2>2. \A u \in Tasks \ {t} : Assigners(u)' = Assigners(u)
    BY <1>1, <2>1 DEF Assigners
  <2>3. \A u \in Tasks \ {t} : Intended(u)' = Intended(u)
    BY <1>2, <2>2 DEF Intended, Granted
  <2>4. "ASSIGNED" \in Intended(t)
    BY <2>1 DEF Intended, Assigners
  <2>5. Intended(t)' \in {Intended(t), Intended(t) \ {"ASSIGNED"}}
    <3>1. \A x : x # "ASSIGNED" => (x \in Intended(t)' <=> x \in Intended(t))
      BY <1>2, <2>1 DEF Intended, Granted
    <3>2. CASE "ASSIGNED" \in Intended(t)'
      BY <2>4, <3>1, <3>2
    <3>3. CASE "ASSIGNED" \notin Intended(t)'
      BY <2>4, <3>1, <3>3
    <3> QED
      BY <3>2, <3>3
  <2> QED
    BY <1>1, <1>2, <2>1, <2>3, <2>4, <2>5, MoveStep
<1>5. ASSUME ~AssignWrite(s), submitter'[s].pc # "write"
      PROVE  UNCHANGED Lifecycle!vars
  <2>1. UNCHANGED status /\ submitter[s].pc # "write"
    BY <1>5 DEF Submission, DispatchSnapshot, NextCandidate, EndOfSnapshot, ClientSubmit, ChooseAgent,
              Assign, AssignCheck, AssignWrite, Record, Dequeue, taskVars
  <2>2. \A u \in Tasks : Assigners(u)' = Assigners(u)
    BY <1>1, <1>5, <2>1 DEF Assigners
  <2> QED
    BY <1>1, <1>2, <2>1, <2>2, LifecycleStutter DEF Intended, Granted
<1>6. submitter'[s].pc = "write" => AssignCheck(s)
  <2>1. CASE DispatchSnapshot(s) \/ EndOfSnapshot(s)
    BY <1>0, <2>1 DEF DispatchSnapshot, EndOfSnapshot, Iterate, IdleSubmitter
  <2>2. ASSUME NEW u \in Tasks, NextCandidate(s, u) PROVE submitter'[s].pc # "write"
    BY <1>0, <2>2 DEF NextCandidate, SubmitterStates
  <2>3. ASSUME NEW u \in Tasks, NEW a \in Agents \cup {NoAgent}, ClientSubmit(s, u, a)
        PROVE  submitter'[s].pc # "write"
    BY <1>0, <2>3 DEF ClientSubmit
  <2>4. CASE ChooseAgent(s) \/ Assign(s) \/ AssignWrite(s) \/ Record(s) \/ Dequeue(s)
    BY <1>0, <2>4 DEF ChooseAgent, Assign, AssignWrite, Record, Dequeue, Return, Raise,
                      IdleSubmitter, SubmitterStates
  <2> QED
    BY <2>1, <2>2, <2>3, <2>4 DEF Submission
<1> QED
  BY <1>3, <1>4, <1>5, <1>6

LEMMA OperatorFollows ==
    ASSUME TypeOK, Operator \/ Cancellation
    PROVE  Lifecycle!Next \/ UNCHANGED Lifecycle!vars
<1>1. UNCHANGED <<worker, retries>>
  BY DEF Operator, CreateTask, Cancel, RetryComesDue, RemoveAgent, AddAgent, SetSuspended,
         Cancellation, RequestCancel, CancelCheck, CancelWrite, taskVars
<1>2. \A u \in Tasks : /\ Granted(u)' = Granted(u) /\ Spenders(u)' = Spenders(u)
                       /\ Spent(u)' = Spent(u)
  BY <1>1 DEF Granted, Writers, Spenders, Spent
<1>3. ASSUME NEW a \in Agents, RemoveAgent(a) \/ AddAgent(a) PROVE UNCHANGED Lifecycle!vars
  <2>1. UNCHANGED <<status, canceller>> /\ ResizeManaged
    BY <1>3 DEF RemoveAgent, AddAgent, taskVars
  <2>2. \A s \in Submitters : submitter'[s] = submitter[s]
            \/ (submitter[s].pc = "submit" /\ submitter'[s].pc \in {"idle", "stopped"})
    BY <2>1 DEF ResizeManaged, Selecting, Raise, IdleSubmitter
  <2>3. \A u \in Tasks : Assigners(u)' = Assigners(u) /\ CancelInFlight(u)' = CancelInFlight(u)
    BY <2>1, <2>2 DEF Assigners, CancelInFlight
  <2> QED
    BY <1>1, <1>2, <2>1, <2>3, LifecycleStutter DEF Intended, Granted
<1>4. CASE \/ \E t \in Tasks : CreateTask(t) \/ Cancel(t) \/ RetryComesDue(t)
           \/ \E a \in Agents : SetSuspended(a)
           \/ RequestCancel
           \/ CancelCheck /\ canceller' = IdleCanceller
  <2>1. UNCHANGED <<status, submitter>>
    BY <1>4 DEF CreateTask, Cancel, RetryComesDue, SetSuspended, RequestCancel, CancelCheck, taskVars
  <2>2. \A u \in Tasks : CancelInFlight(u)' = CancelInFlight(u)
    BY <1>4 DEF CreateTask, Cancel, RetryComesDue, SetSuspended, RequestCancel, CancelCheck,
                SystemFree, IdleCanceller, CancelInFlight
  <2>3. \A u \in Tasks : Assigners(u)' = Assigners(u)
    BY <2>1 DEF Assigners
  <2> QED
    BY <1>1, <1>2, <2>1, <2>2, <2>3, LifecycleStutter DEF Intended, Granted
<1>5. CASE CancelCheck /\ canceller' # IdleCanceller
  <2>1. PICK t \in Tasks : t = canceller.task /\ canceller \in CancellerStates
    BY <1>5 DEF CancelCheck, TypeOK, CancellerTypes
  <2>2. /\ CanMove(t, "CANCELLED") /\ UNCHANGED <<status, submitter>>
        /\ canceller.pc = "check" /\ canceller' = [pc |-> "write", task |-> t]
    BY <1>5, <2>1 DEF CancelCheck, CancellerStates, taskVars
  <2>3. \A u \in Tasks : /\ Assigners(u)' = Assigners(u) /\ ~CancelInFlight(u)
                         /\ CancelInFlight(u)' <=> u = t
    BY <2>2 DEF Assigners, CancelInFlight
  <2>4. \A u \in Tasks \ {t} : Intended(u)' = Intended(u)
    BY <1>2, <2>3 DEF Intended, Granted
  <2>5. Intended(t)' = Intended(t) \cup {"CANCELLED"}
    BY <1>2, <2>1, <2>3 DEF Intended, Granted
  <2>6. "CANCELLED" \in Transitions[status[t]] \ {"RETRYING"}
    BY <2>2 DEF CanMove
  <2> QED
    BY <1>1, <1>2, <2>1, <2>2, <2>4, <2>5, <2>6, IntendStep
<1>6. CASE CancelWrite
  <2>1. PICK t \in Tasks : t = canceller.task /\ canceller \in CancellerStates
    BY <1>6 DEF CancelWrite, TypeOK, CancellerTypes
  <2>2. /\ status' = [status EXCEPT ![t] = "CANCELLED"] /\ UNCHANGED submitter
        /\ canceller = [pc |-> "write", task |-> t] /\ canceller'.pc = "idle"
    BY <1>6, <2>1 DEF CancelWrite, CancellerStates, IdleCanceller
  <2>3. \A u \in Tasks : /\ Assigners(u)' = Assigners(u) /\ ~CancelInFlight(u)'
                         /\ CancelInFlight(u) <=> u = t
    BY <2>2 DEF Assigners, CancelInFlight
  <2>4. \A u \in Tasks \ {t} : Intended(u)' = Intended(u)
    BY <1>2, <2>3 DEF Intended, Granted
  <2>5. "CANCELLED" \in Intended(t)
    BY <2>1, <2>3 DEF Intended
  <2>6. Intended(t)' \in {Intended(t), Intended(t) \ {"CANCELLED"}}
    <3>1. \A x : x # "CANCELLED" => (x \in Intended(t)' <=> x \in Intended(t))
      BY <1>2, <2>1, <2>3 DEF Intended, Granted
    <3>2. CASE "CANCELLED" \in Intended(t)'
      BY <2>5, <3>1, <3>2
    <3>3. CASE "CANCELLED" \notin Intended(t)'
      BY <2>5, <3>1, <3>3
    <3> QED
      BY <3>2, <3>3
  <2> QED
    BY <1>1, <1>2, <2>1, <2>2, <2>4, <2>5, <2>6, MoveStep
<1> QED
  BY <1>3, <1>4, <1>5, <1>6 DEF Operator, Cancellation

\* A step of a worker leaves what the others were granted.
LEMMA IntendedByWorkers ==
    ASSUME UNCHANGED <<submitter, canceller>>, NEW u \in Tasks, NEW s
    PROVE  /\ Granted(u)' = Granted(u) => Intended(u)' = Intended(u)
           /\ Granted(u)' = Granted(u) \cup {s} => Intended(u)' = Intended(u) \cup {s}
           /\ Granted(u)' = Granted(u) \ {s} => Intended(u)' \in {Intended(u), Intended(u) \ {s}}
           /\ Granted(u) \subseteq Intended(u)
<1>1. Assigners(u)' = Assigners(u) /\ CancelInFlight(u)' = CancelInFlight(u)
  BY DEF Assigners, CancelInFlight
<1>2. Granted(u)' = Granted(u) => Intended(u)' = Intended(u)
  BY <1>1 DEF Intended, Granted
<1>3. Granted(u)' = Granted(u) \cup {s} => Intended(u)' = Intended(u) \cup {s}
  BY <1>1 DEF Intended, Granted
<1>4. ASSUME Granted(u)' = Granted(u) \ {s}
      PROVE  Intended(u)' \in {Intended(u), Intended(u) \ {s}}
  <2>1. \A x : x # s => (x \in Intended(u)' <=> x \in Intended(u))
    BY <1>1, <1>4 DEF Intended, Granted
  <2>2. s \in Intended(u)' => s \in Intended(u)
    BY <1>1, <1>4 DEF Intended, Granted
  <2>3. CASE s \in Intended(u)'
    BY <2>1, <2>2, <2>3
  <2>4. CASE s \notin Intended(u)'
    BY <2>1, <2>4
  <2> QED
    BY <2>3, <2>4
<1>5. Granted(u) \subseteq Intended(u)
  BY DEF Intended, Granted
<1> QED
  BY <1>2, <1>3, <1>4, <1>5

\* What all steps of a worker inside execute_task have in common.
LEMMA WorkerStep ==
    ASSUME TypeOK, NEW w \in Workers, Execution(w)
    PROVE  /\ UNCHANGED <<submitter, canceller>>
           /\ \A v \in Workers \ {w} : worker'[v] = worker[v]
           /\ worker[w] \in WorkerStates
           /\ Engaged(w) => worker[w].task \in Tasks
           /\ \/ worker'[w].task = worker[w].task
              \/ Aggregate(w)
              \/ \E t \in Tasks, a \in Agents : ExecuteCall(w, t, a)
<1>0. worker \in [Workers -> WorkerStates] /\ worker[w] \in WorkerStates
  BY DEF TypeOK, WorkerTypes
<1>1. UNCHANGED <<submitter, canceller>>
  BY DEF Execution, ExecuteCall, Enter, Resume, Run, Complete, Handle, Spend, Test, Check, Write,
         Settle, Finally, Aggregate
<1>2. Engaged(w) => worker[w].task \in Tasks
  BY DEF TypeOK, WorkerTypes
<1>3. CASE Aggregate(w) \/ \E t \in Tasks, a \in Agents : ExecuteCall(w, t, a)
  BY <1>0, <1>1, <1>2, <1>3 DEF Aggregate, ExecuteCall
<1>4. CASE Enter(w) \/ Resume(w) \/ Run(w) \/ Complete(w) \/ Handle(w) \/ Spend(w)
  BY <1>0, <1>1, <1>2, <1>4 DEF Enter, Resume, Run, Complete, Handle, Spend, Transition, Goto,
                                GotoHandler, WorkerStates
<1>5. CASE Test(w) \/ Check(w) \/ Write(w) \/ Settle(w) \/ Finally(w)
  BY <1>0, <1>1, <1>2, <1>5 DEF Test, Check, Write, Settle, Finally, ForcedOrRaise, Transition,
                                Goto, GotoHandler, WorkerStates
<1> QED
  BY <1>3, <1>4, <1>5 DEF Execution

LEMMA QuietFollows ==
    ASSUME TypeOK, NEW w \in Workers,
           Execution(w), ~Deciding(w), ~Deciding(w)'
    PROVE  UNCHANGED Lifecycle!vars
<1>1. UNCHANGED <<status, retries, submitter, canceller>>
  BY DEF Execution, ExecuteCall, Enter, Resume, Run, Complete, Handle, Spend, Test, Check, Write,
         Settle, Finally, Aggregate, Deciding, taskVars
<1>2. \A v \in Workers \ {w} : worker'[v] = worker[v]
  BY WorkerStep
<1>3. \A u \in Tasks : /\ Granted(u)' = Granted(u) /\ Spenders(u)' = Spenders(u)
                       /\ Spent(u)' = Spent(u)
  BY <1>2, UndecidedStep
<1>4. \A u \in Tasks : Intended(u)' = Intended(u)
  BY <1>1, <1>3, IntendedByWorkers
<1> QED
  BY <1>1, <1>3, <1>4, LifecycleStutter

LEMMA DecisionFollows ==
    ASSUME TypeOK, RegionInv, ~ForcedFallback, NEW w \in Workers, Execution(w),
           Deciding(w) \/ Deciding(w)'
    PROVE  Lifecycle!Next \/ UNCHANGED Lifecycle!vars
<1>0. /\ worker \in [Workers -> WorkerStates] /\ worker[w] \in WorkerStates /\ InRegion(w)
      /\ status \in [Tasks -> Statuses] /\ retries \in [Tasks -> Nat]
  BY DEF TypeOK, WorkerTypes, TaskTypes, RegionInv
<1>1. ~(Aggregate(w) \/ \E t \in Tasks, a \in Agents : ExecuteCall(w, t, a))
  <2>1. ASSUME Aggregate(w) PROVE worker[w].pc = "aggregate" /\ worker'[w].pc = "idle"
    BY <1>0, <2>1 DEF Aggregate, IdleWorker
  <2>2. ASSUME NEW t \in Tasks, NEW a \in Agents, ExecuteCall(w, t, a)
        PROVE  worker[w].pc = "idle" /\ worker'[w].pc = "enter"
    BY <1>0, <2>2 DEF ExecuteCall, Engaged, IdleWorker
  <2> QED
    BY <2>1, <2>2 DEF Deciding
<1>2. Engaged(w)
  BY <1>1 DEF Execution, Enter, Resume, Run, Complete, Handle, Spend, Test, Check, Write, Settle,
              Finally, Engaged
<1>3. PICK t \in Tasks : worker[w].task = t /\ worker'[w].task = t
  BY <1>1, <1>2, WorkerStep
<1>4. UNCHANGED <<submitter, canceller>> /\ \A v \in Workers \ {w} : worker'[v] = worker[v]
  BY WorkerStep
<1>5. \A u \in Tasks \ {t} : /\ Spenders(u)' = Spenders(u)
                             /\ Spent(u)' = Spent(u)
                             /\ Intended(u)' = Intended(u)
  BY <1>3, <1>4, DecidingStep, IntendedByWorkers
<1>6. worker[w].pc # "write" /\ worker'[w].pc # "write" => Intended(t)' = Intended(t)
  BY <1>3, <1>4, DecidingStep, IntendedByWorkers
<1>7. worker[w].pc # "write" /\ worker'[w].pc = "write" =>
            Intended(t)' = Intended(t) \cup {worker'[w].to}
  BY <1>3, <1>4, DecidingStep, IntendedByWorkers
<1>8. worker[w].pc = "write" /\ worker'[w].pc # "write" =>
            /\ worker[w].to \in Intended(t)
            /\ Intended(t)' \in {Intended(t), Intended(t) \ {worker[w].to}}
  BY <1>3, <1>4, DecidingStep, IntendedByWorkers
<1>9. Spenders(t)' = IF worker'[w].pc = "spend" THEN Spenders(t) \cup {w} ELSE Spenders(t) \ {w}
  BY <1>3, <1>4, DecidingStep
<1>10. Spent(t)' = IF worker'[w].pc \in {"test", "check"} /\ worker'[w].to = "RETRYING"
                   THEN Spent(t) \cup {w} ELSE Spent(t) \ {w}
  BY <1>3, <1>4, DecidingStep
<1>11. /\ w \in Spenders(t) <=> worker[w].pc = "spend"
       /\ w \in Spent(t) <=> worker[w].pc \in {"test", "check"} /\ worker[w].to = "RETRYING"
  BY <1>3 DEF Spenders, Spent
\* The regions that leave the abstract variables alone.
<1>12. ASSUME UNCHANGED <<status, retries>>, worker[w].pc # "write", worker'[w].pc # "write",
              worker[w].pc = "spend" <=> worker'[w].pc = "spend",
              (worker[w].pc \in {"test", "check"} /\ worker[w].to = "RETRYING") <=>
              (worker'[w].pc \in {"test", "check"} /\ worker'[w].to = "RETRYING")
       PROVE  UNCHANGED Lifecycle!vars
  <2>1. Spenders(t)' = Spenders(t) /\ Spent(t)' = Spent(t)
    BY <1>9, <1>10, <1>11, <1>12
  <2> QED
    BY <1>5, <1>6, <1>12, <2>1, LifecycleStutter
\* transition_to accepts a status other than RETRYING.
<1>13. ASSUME UNCHANGED <<status, retries>>, worker[w].pc \notin {"write", "spend"},
              worker'[w].pc = "write", worker'[w].to # "RETRYING",
              worker[w].pc \in {"test", "check"} => worker[w].to # "RETRYING",
              CanMove(t, worker'[w].to)
       PROVE  Lifecycle!Next
  <2>1. Spenders(t)' = Spenders(t) /\ Spent(t)' = Spent(t)
    BY <1>9, <1>10, <1>11, <1>13
  <2> QED
    BY <1>5, <1>7, <1>13, <2>1, IntendStep DEF CanMove
\* A retry that was spent, and what became of it.
<1>14. ASSUME UNCHANGED <<status, retries>>, worker[w].pc \in {"test", "check"},
              worker[w].to = "RETRYING", worker'[w].pc \notin {"spend", "test", "check"},
              worker'[w].pc = "write" => worker'[w].to = "RETRYING" /\ CanMove(t, "RETRYING")
       PROVE  Lifecycle!Next
  <2>1. Spenders(t)' = Spenders(t) /\ Spent(t)' = Spent(t) \ {w} /\ w \in Spent(t)
    BY <1>9, <1>10, <1>11, <1>14
  <2>2. \/ Intended(t)' = Intended(t)
        \/ "RETRYING" \in Transitions[status[t]] /\ Intended(t)' = Intended(t) \cup {"RETRYING"}
    BY <1>6, <1>7, <1>14 DEF CanMove
  <2>3. Lifecycle!IntendRetry(t, w)
    BY <1>5, <1>14, <2>1, <2>2 DEF Lifecycle!IntendRetry, Lifecycle!Transitions, Transitions
  <2> QED
    BY <2>3 DEF Lifecycle!Next
<1> USE <1>0, <1>3 DEF WorkerStates
<1>20. CASE Enter(w)
  BY <1>12, <1>20 DEF Enter, Transition, Goto, taskVars
<1>21. CASE Complete(w)
  <2>1. worker'[w].pc = "write" /\ worker'[w].to = "COMPLETED" /\ CanMove(t, "COMPLETED")
    BY <1>21 DEF Complete, Transition, GotoHandler, Deciding
  <2> QED
    BY <1>13, <1>21, <2>1 DEF Complete, taskVars
<1>22. CASE Handle(w)
  <2>1. /\ worker'[w].pc = HandlerStep[Outcome(w)] /\ worker'[w].to = Outcome(w)
        /\ UNCHANGED <<status, retries>> /\ worker[w].pc = "handler"
    BY <1>22 DEF Handle, Transition
  <2>2. \/ Outcome(w) = "CANCELLED" /\ HandlerStep[Outcome(w)] = "test"
        \/ Outcome(w) = "RETRYING" /\ HandlerStep[Outcome(w)] = "spend" /\ retries[t] < MaxRetries
        \/ Outcome(w) = "FAILED" /\ HandlerStep[Outcome(w)] = "check"
    BY DEF Outcome, HandlerStep
  <2>3. CASE Outcome(w) # "RETRYING"
    BY <1>12, <2>1, <2>2, <2>3
  <2>4. CASE Outcome(w) = "RETRYING"
    <3>1. Spenders(t)' = Spenders(t) \cup {w} /\ Spent(t)' = Spent(t) /\ Intended(t)' = Intended(t)
      BY <1>6, <1>9, <1>10, <1>11, <2>1, <2>2, <2>4
    <3>2. Lifecycle!FailAttempt(t, w)
      BY <1>5, <2>1, <2>2, <2>4, <3>1 DEF Lifecycle!FailAttempt
    <3> QED
      BY <3>2 DEF Lifecycle!Next
  <2> QED
    BY <2>3, <2>4
<1>23. CASE Spend(w)
  <2>1. /\ worker[w].pc = "spend" /\ worker'[w].pc = "test" /\ worker'[w].to = "RETRYING"
        /\ UNCHANGED status /\ retries' = [retries EXCEPT ![t] = @ + 1]
    BY <1>23 DEF Spend, Goto, InRegion
  <2>2. /\ Spenders(t)' = Spenders(t) \ {w} /\ w \in Spenders(t)
        /\ Spent(t)' = Spent(t) \cup {w} /\ Intended(t)' = Intended(t)
    BY <1>6, <1>9, <1>10, <1>11, <2>1
  <2>3. Lifecycle!SpendRetry(t, w)
    BY <1>5, <2>1, <2>2 DEF Lifecycle!SpendRetry
  <2> QED
    BY <2>3 DEF Lifecycle!Next
<1>24. CASE Test(w)
  <2>1. /\ worker[w].pc = "test" /\ UNCHANGED <<status, retries>>
        /\ worker'[w].pc \in {"settle", "check", "finally"}
        /\ worker'[w].pc = "check" => worker'[w].to = worker[w].to
    BY <1>24 DEF Test, ForcedOrRaise, Goto, Transition, taskVars
  <2>2. CASE worker[w].to = "RETRYING" /\ worker'[w].pc # "check"
    BY <1>14, <2>1, <2>2
  <2>3. CASE worker[w].to # "RETRYING" \/ worker'[w].pc = "check"
    BY <1>12, <2>1, <2>3
  <2> QED
    BY <2>2, <2>3
<1>25. CASE Check(w)
  <2>1. worker[w].pc = "check" /\ UNCHANGED <<status, retries>>
    BY <1>25 DEF Check, taskVars
  <2>2. \/ worker'[w].pc = "write" /\ worker'[w].to = worker[w].to /\ CanMove(t, worker[w].to)
        \/ worker'[w].pc \in {"handler", "finally"}
        \/ worker'[w].pc = "test" /\ worker[w].to = "FAILED" /\ worker'[w].to = "FAILED"
    BY <1>25 DEF Check, ForcedOrRaise, Goto, GotoHandler, Transition
  <2>3. CASE worker[w].to = "RETRYING"
    BY <1>14, <2>1, <2>2, <2>3
  <2>4. CASE worker[w].to # "RETRYING" /\ worker'[w].pc = "write"
    BY <1>13, <2>1, <2>2, <2>4
  <2>5. CASE worker[w].to # "RETRYING" /\ worker'[w].pc # "write"
    BY <1>12, <2>1, <2>2, <2>5
  <2> QED
    BY <2>3, <2>4, <2>5
<1>26. CASE Write(w)
  <2>1. /\ worker[w].pc = "write" /\ worker'[w].pc \in {"running", "settle"}
        /\ status' = [status EXCEPT ![t] = worker[w].to] /\ UNCHANGED retries
    BY <1>26 DEF Write, Goto, Transition
  <2>2. Spenders(t)' = Spenders(t) /\ Spent(t)' = Spent(t)
    BY <1>9, <1>10, <1>11, <2>1
  <2> QED
    BY <1>5, <1>8, <2>1, <2>2, MoveStep
<1>27. ~(Resume(w) \/ Run(w) \/ Settle(w) \/ Finally(w))
  BY DEF Resume, Run, Settle, Finally, Goto, GotoHandler, Transition, Deciding
<1> QED
  BY <1>1, <1>20, <1>21, <1>22, <1>23, <1>24, <1>25, <1>26, <1>27 DEF Execution

LEMMA StepFollowsLifecycle ==
    ASSUME TypeOK, RegionInv, ~ForcedFallback, [Next]_vars
    PROVE  [Lifecycle!Next]_(Lifecycle!vars)
<1>1. CASE UNCHANGED vars
  <2>1. UNCHANGED <<status, retries, worker, submitter, canceller>>
    BY <1>1 DEF vars, taskVars
  <2>2. \A u \in Tasks : /\ Spenders(u)' = Spenders(u) /\ Spent(u)' = Spent(u)
                         /\ Intended(u)' = Intended(u)
    BY <2>1 DEF Spenders, Spent, Intended, Writers, Assigners, CancelInFlight
  <2> QED
    BY <2>1, <2>2, LifecycleStutter
<1>2. CASE Next
  BY <1>2, OperatorFollows, SubmissionFollows, QuietFollows, DecisionFollows DEF Next
<1> QED
  BY <1>1, <1>2

\* Whatever is called, and by how many threads, each task follows the
\* lifecycle, as long as forcing a status is not enabled (the default).
THEOREM LifecycleRefinement ==
    ASSUME ~ForcedFallback
    PROVE  Spec => FollowsLifecycle
<1>1. Init => Lifecycle!Init
  BY DEF Init, Lifecycle!Init, IdleWorker, IdleSubmitter, IdleCanceller, Intended, Writers,
         Assigners, CancelInFlight, Spenders, Spent
<1>2. TypeOK /\ RegionInv /\ [Next]_vars => [Lifecycle!Next]_(Lifecycle!vars)
  BY StepFollowsLifecycle
<1> QED
  BY <1>1, <1>2, TypeCorrect, RegionCorrect, PTL DEF Spec, FollowsLifecycle, Lifecycle!Spec

\* A task that is over, with nobody about to move it, is out of every thread's
\* reach: no look at the table grants a step, and no write is under way.
LEMMA SettledStep ==
    ASSUME TypeOK, RegionInv, ~ForcedFallback, [Next]_vars, NEW t \in Tasks, Settled(t)
    PROVE  status'[t] = status[t] /\ Settled(t)'
<1>1. [Lifecycle!Next]_(Lifecycle!vars)
  BY StepFollowsLifecycle
<1>2. Transitions[status[t]] = {} /\ Intended(t) = {}
  BY DEF Transitions, Terminal, Settled
<1>3. status \in [Tasks -> Statuses]
  BY DEF TypeOK, TaskTypes
<1> SUFFICES status'[t] = status[t] /\ Intended(t)' = Intended(t)
  BY DEF Settled
<1>4. CASE UNCHANGED Lifecycle!vars
  <2>1. [u \in Tasks |-> Intended(u)]' = [u \in Tasks |-> Intended(u)] /\ UNCHANGED status
    BY <1>4 DEF Lifecycle!vars
  <2>2. [u \in Tasks |-> Intended(u)]'[t] = Intended(t)' /\ [u \in Tasks |-> Intended(u)][t] = Intended(t)
    OBVIOUS
  <2> QED
    BY <2>1, <2>2
<1>5. CASE Lifecycle!Next
  <2> DEFINE intended == [u \in Tasks |-> Intended(u)]
  <2>0. intended[t] = {} /\ intended'[t] = Intended(t)'
    BY <1>2
  <2> SUFFICES status'[t] = status[t] /\ intended'[t] = intended[t]
    BY <2>0
  <2>1. PICK u \in Tasks : \/ Lifecycle!Intend(u) \/ Lifecycle!Move(u)
                           \/ \E w \in Workers : \/ Lifecycle!FailAttempt(u, w)
                                                 \/ Lifecycle!SpendRetry(u, w)
                                                 \/ Lifecycle!IntendRetry(u, w)
    BY <1>5 DEF Lifecycle!Next
  <2>2. CASE Lifecycle!Intend(u)
    BY <1>2, <2>2 DEF Lifecycle!Intend, Lifecycle!Transitions, Transitions
  <2>3. CASE Lifecycle!Move(u)
    BY <1>2, <1>3, <2>3 DEF Lifecycle!Move
  <2>4. ASSUME NEW w \in Workers, Lifecycle!FailAttempt(u, w) \/ Lifecycle!SpendRetry(u, w)
        PROVE  status'[t] = status[t] /\ intended' = intended
    BY <2>4 DEF Lifecycle!FailAttempt, Lifecycle!SpendRetry
  <2>5. ASSUME NEW w \in Workers, Lifecycle!IntendRetry(u, w)
        PROVE  status'[t] = status[t] /\ intended'[t] = intended[t]
    BY <1>2, <2>5 DEF Lifecycle!IntendRetry, Lifecycle!Transitions, Transitions
  <2> QED
    BY <2>1, <2>2, <2>3, <2>4, <2>5
<1> QED
  BY <1>1, <1>4, <1>5

\* The results of a task are final once the threads that were writing when it
\* ended are through: what cancel_task and is_task_ready read then stays true.
THEOREM TerminalStatusSettles ==
    ASSUME ~ForcedFallback
    PROVE  Spec => TerminalSettles
<1>1. TypeOK /\ RegionInv /\ [Next]_vars =>
        [\A t \in Tasks : Settled(t) => status'[t] = status[t] /\ Settled(t)']_vars
  BY SettledStep
<1> QED
  BY <1>1, TypeCorrect, RegionCorrect, PTL DEF Spec, TerminalSettles

-----------------------------------------------------------------------------
(* Retries                                                                 *)

\* The retries spent on t, and those about to be.
RetryInv ==
    \A t \in Tasks :
        \/ retries[t] = 0 /\ Spenders(t) = {}
        \/ retries[t] + Cardinality(Spenders(t)) <= MaxRetries + Cardinality(Workers) - 1

LEMMA RetryWriters ==
    ASSUME TypeOK, [Next]_vars
    PROVE  \/ UNCHANGED retries /\ \A t \in Tasks : Spenders(t)' = Spenders(t)
           \/ \E w \in Workers : Handle(w) \/ Spend(w)
<1> USE DEF taskVars
<1>0. worker \in [Workers -> WorkerStates]
  BY DEF TypeOK, WorkerTypes
<1>1. CASE UNCHANGED <<worker, retries>>
  BY <1>1 DEF Spenders
<1>2. CASE UNCHANGED vars \/ Operator \/ Cancellation
  BY <1>1, <1>2 DEF vars, Operator, CreateTask, Cancel, RetryComesDue, RemoveAgent, AddAgent,
                    SetSuspended, Cancellation, RequestCancel, CancelCheck, CancelWrite
<1>5. ASSUME NEW s \in Submitters, Submission(s) PROVE UNCHANGED <<worker, retries>>
  BY <1>5 DEF Submission, DispatchSnapshot, NextCandidate, EndOfSnapshot, ClientSubmit,
              ChooseAgent, Assign, AssignCheck, AssignWrite, Record, Dequeue
<1>3. ASSUME NEW w \in Workers, Execution(w), ~Handle(w), ~Spend(w)
      PROVE  UNCHANGED retries /\ \A t \in Tasks : Spenders(t)' = Spenders(t)
  <2>1. UNCHANGED retries
    BY <1>3 DEF Execution, ExecuteCall, Enter, Resume, Run, Complete, Test, Check, Write, Settle,
                Finally, Aggregate
  <2>2. worker[w].pc # "spend"
    BY <1>3 DEF Execution, ExecuteCall, Enter, Resume, Run, Complete, Test, Check, Write, Settle,
                Finally, Aggregate, Engaged
  <2>3. worker'[w].pc # "spend"
    <3>1. CASE Aggregate(w)
      BY <1>0, <3>1 DEF Aggregate, IdleWorker
    <3>4. ASSUME NEW t \in Tasks, NEW a \in Agents, ExecuteCall(w, t, a)
          PROVE  worker'[w].pc # "spend"
      BY <1>0, <3>4 DEF ExecuteCall, IdleWorker
    <3>2. CASE Enter(w) \/ Resume(w) \/ Run(w) \/ Complete(w)
      BY <1>0, <3>2 DEF Enter, Resume, Run, Complete, Transition, Goto, GotoHandler, WorkerStates
    <3>3. CASE Test(w) \/ Check(w) \/ Write(w) \/ Settle(w) \/ Finally(w)
      BY <1>0, <3>3 DEF Test, Check, Write, Settle, Finally, ForcedOrRaise, Transition, Goto,
                        GotoHandler, WorkerStates
    <3> QED
      BY <1>3, <3>1, <3>2, <3>3, <3>4 DEF Execution
  <2>4. \A v \in Workers \ {w} : worker'[v] = worker[v]
    BY <1>3, WorkerStep
  <2> QED
    BY <2>1, <2>2, <2>3, <2>4 DEF Spenders
<1> QED
  BY <1>1, <1>2, <1>3, <1>5 DEF Next

LEMMA RetryStep ==
    ASSUME IsFiniteSet(Workers)
    PROVE  TypeOK /\ RetryInv /\ [Next]_vars => RetryInv'
<1> SUFFICES ASSUME TypeOK, RetryInv, [Next]_vars PROVE RetryInv'
  OBVIOUS
<1>0. /\ worker \in [Workers -> WorkerStates] /\ retries \in [Tasks -> Nat]
      /\ MaxRetries \in Nat /\ Cardinality(Workers) \in Nat
  BY ParameterAssumption, FS_CardinalityType DEF TypeOK, WorkerTypes, TaskTypes
<1>1. \A t \in Tasks : /\ IsFiniteSet(Spenders(t)) /\ Cardinality(Spenders(t)) \in Nat
                       /\ IsFiniteSet(Spenders(t)') /\ Cardinality(Spenders(t)') \in Nat
                       /\ Cardinality(Spenders(t)') <= Cardinality(Workers)
  <2>1. \A t \in Tasks : Spenders(t) \subseteq Workers /\ Spenders(t)' \subseteq Workers
    BY DEF Spenders
  <2> QED
    BY <2>1, FS_Subset, FS_CardinalityType
<1>2. CASE UNCHANGED retries /\ \A t \in Tasks : Spenders(t)' = Spenders(t)
  BY <1>2 DEF RetryInv
<1>3. ASSUME NEW w \in Workers, Handle(w) PROVE RetryInv'
  <2>1. PICK t \in Tasks : t = worker[w].task
    BY <1>3 DEF Handle, TypeOK, WorkerTypes, Engaged
  <2>2. /\ UNCHANGED retries /\ worker[w].pc = "handler"
        /\ worker' = [worker EXCEPT ![w].pc = HandlerStep[Outcome(w)], ![w].to = Outcome(w)]
    BY <1>3 DEF Handle, Transition
  <2>3. \A u \in Tasks \ {t} : Spenders(u)' = Spenders(u)
    BY <1>0, <2>1, <2>2 DEF Spenders, WorkerStates
  <2>4. CASE retries[t] < MaxRetries
    <3>1. retries'[t] + Cardinality(Spenders(t)') <= MaxRetries + Cardinality(Workers) - 1
      BY <1>0, <1>1, <2>2, <2>4
    <3> QED
      BY <2>2, <2>3, <3>1 DEF RetryInv
  <2>5. CASE ~(retries[t] < MaxRetries)
    <3>1. HandlerStep[Outcome(w)] # "spend"
      BY <2>1, <2>5 DEF Outcome, HandlerStep
    <3>2. Spenders(t)' = Spenders(t)
      BY <1>0, <2>2, <3>1 DEF Spenders, WorkerStates
    <3> QED
      BY <2>2, <2>3, <3>2 DEF RetryInv
  <2> QED
    BY <2>4, <2>5
<1>4. ASSUME NEW w \in Workers, Spend(w) PROVE RetryInv'
  <2>1. PICK t \in Tasks : t = worker[w].task
    BY <1>4 DEF Spend, TypeOK, WorkerTypes, Engaged
  <2>2. /\ worker[w].pc = "spend" /\ retries' = [retries EXCEPT ![t] = @ + 1]
        /\ worker' = [worker EXCEPT ![w].pc = "test"]
    BY <1>4, <2>1 DEF Spend, Goto
  <2>3. \A u \in Tasks \ {t} : Spenders(u)' = Spenders(u) /\ retries'[u] = retries[u]
    BY <1>0, <2>1, <2>2 DEF Spenders, WorkerStates
  <2>4. Spenders(t)' = Spenders(t) \ {w} /\ w \in Spenders(t)
    BY <1>0, <2>1, <2>2 DEF Spenders, WorkerStates
  <2>5. Cardinality(Spenders(t)') = Cardinality(Spenders(t)) - 1
    BY <1>1, <2>4, FS_RemoveElement
  <2>6. retries'[t] = retries[t] + 1
    BY <1>0, <2>2
  <2>7. retries[t] + Cardinality(Spenders(t)) <= MaxRetries + Cardinality(Workers) - 1
    BY <2>4 DEF RetryInv
  <2>8. retries'[t] + Cardinality(Spenders(t)') <= MaxRetries + Cardinality(Workers) - 1
    BY <1>0, <1>1, <2>5, <2>6, <2>7
  <2> QED
    BY <2>3, <2>8 DEF RetryInv
<1> QED
  BY <1>2, <1>3, <1>4, RetryWriters

\* max_retries is overshot by less than the number of workers, whatever they
\* execute at once, and forced or not.
THEOREM RetriesBounded ==
    ASSUME IsFiniteSet(Workers)
    PROVE  Spec => []RetryOvershoot
<1>1. Init => RetryInv
  BY DEF Init, RetryInv, Spenders, IdleWorker
<1>2. TypeOK /\ RetryInv => RetryOvershoot
  <2> SUFFICES ASSUME TypeOK, RetryInv, NEW t \in Tasks, retries[t] > MaxRetries
               PROVE  retries[t] - MaxRetries < Cardinality(Workers)
    BY DEF RetryOvershoot
  <2>1. /\ retries[t] \in Nat /\ MaxRetries \in Nat /\ Cardinality(Workers) \in Nat
    BY ParameterAssumption, FS_CardinalityType DEF TypeOK, TaskTypes
  <2>2. Cardinality(Spenders(t)) \in Nat
    <3>1. Spenders(t) \subseteq Workers
      BY DEF Spenders
    <3> QED
      BY <3>1, FS_Subset, FS_CardinalityType
  <2>3. retries[t] + Cardinality(Spenders(t)) <= MaxRetries + Cardinality(Workers) - 1
    BY <2>1 DEF RetryInv
  <2> QED
    BY <2>1, <2>2, <2>3
<1> QED
  BY <1>1, <1>2, RetryStep, TypeCorrect, PTL DEF Spec

=============================================================================
