-------------------------- MODULE ExecutionProofs --------------------------
(***************************************************************************)
(* More theorems about AgentSystem, when no two workers execute one task:  *)
(* the retries of a task, and which step may lose one, for any threads that*)
(* submit and cancel; then who owns a task, the order of dependencies and  *)
(* how the ends of executions are counted, for one scheduler and any number*)
(* of workers.                                                             *)
(***************************************************************************)
EXTENDS AgentSystemProofs

-----------------------------------------------------------------------------
(* A worker has a task of its own                                          *)

OneWorker ==
    \A v, w \in Workers : worker[v].task = worker[w].task /\ worker[v].task \in Tasks => v = w

HoldInv ==
    /\ OneWorker
    /\ \A w \in Workers : ~Engaged(w) => worker[w].task = NoTask

\* A call takes a task nobody executes, its end gives it up, and no other step
\* of a worker changes what it has in hand.
LEMMA HoldMoves ==
    ASSUME TypeOK, HoldInv, ~FreeCalls, NEW w \in Workers, Execution(w)
    PROVE  \/ /\ Aggregate(w) /\ worker'[w] = IdleWorker
           \/ \E t \in Tasks, a \in Agents :
                /\ ExecuteCall(w, t, a) /\ t \in active[a]
                /\ worker[w].task = NoTask
                /\ \A v \in Workers : worker[v].task # t
                /\ worker'[w] = [IdleWorker EXCEPT !.pc = "enter", !.task = t, !.agent = a]
           \/ /\ Engaged(w) /\ Engaged(w)'
              /\ worker'[w].task = worker[w].task /\ worker'[w].agent = worker[w].agent
<1>0. worker \in [Workers -> WorkerStates]
  BY DEF TypeOK, WorkerTypes
<1>1. CASE Aggregate(w)
  <2>1. worker'[w] = IdleWorker
    BY <1>0, <1>1 DEF Aggregate
  <2> QED
    BY <1>1, <2>1
<1>2. ASSUME NEW t \in Tasks, NEW a \in Agents, ExecuteCall(w, t, a)
      PROVE  /\ ExecuteCall(w, t, a) /\ t \in active[a]
             /\ worker[w].task = NoTask
             /\ \A v \in Workers : worker[v].task # t
             /\ worker'[w] = [IdleWorker EXCEPT !.pc = "enter", !.task = t, !.agent = a]
  BY <1>0, <1>2 DEF ExecuteCall, HoldInv
<1>3. ASSUME Enter(w) \/ Resume(w) \/ Run(w) \/ Complete(w)
      PROVE  /\ Engaged(w) /\ Engaged(w)'
             /\ worker'[w].task = worker[w].task /\ worker'[w].agent = worker[w].agent
  BY <1>0, <1>3 DEF Enter, Resume, Run, Complete, Transition, Goto, GotoHandler, Engaged, WorkerStates
<1>4. ASSUME Handle(w)
      PROVE  /\ Engaged(w) /\ Engaged(w)'
             /\ worker'[w].task = worker[w].task /\ worker'[w].agent = worker[w].agent
  <2>1. HandlerStep[Outcome(w)] \in {"spend", "check", "test"}
    BY DEF Outcome, HandlerStep
  <2> QED
    BY <1>0, <1>4, <2>1 DEF Handle, Transition, Engaged, WorkerStates
<1>5. ASSUME Spend(w) \/ Test(w) \/ Check(w)
      PROVE  /\ Engaged(w) /\ Engaged(w)'
             /\ worker'[w].task = worker[w].task /\ worker'[w].agent = worker[w].agent
  BY <1>0, <1>5 DEF Spend, Test, Check, ForcedOrRaise, Transition, Goto, GotoHandler, Engaged, WorkerStates
<1>6. ASSUME Write(w) \/ Settle(w) \/ Finally(w)
      PROVE  /\ Engaged(w) /\ Engaged(w)'
             /\ worker'[w].task = worker[w].task /\ worker'[w].agent = worker[w].agent
  BY <1>0, <1>6 DEF Write, Settle, Finally, Transition, Goto, Engaged, WorkerStates
<1> QED
  BY <1>1, <1>2, <1>3, <1>4, <1>5, <1>6 DEF Execution

\* Nobody but the workers changes what the workers have in hand.
LEMMA WorkersMove ==
    ASSUME [Next]_vars
    PROVE  UNCHANGED worker \/ \E w \in Workers : Execution(w)
BY DEF Next, vars, Operator, CreateTask, Cancel, RetryComesDue, RemoveAgent, AddAgent,
       SetSuspended, Cancellation, RequestCancel, CancelCheck, CancelWrite,
       Submission, DispatchSnapshot, NextCandidate, EndOfSnapshot, ClientSubmit, ChooseAgent,
       Assign, AssignCheck, AssignWrite, Record, Dequeue

LEMMA HoldStep ==
    ASSUME ~FreeCalls
    PROVE  TypeOK /\ HoldInv /\ [Next]_vars => HoldInv'
<1> SUFFICES ASSUME TypeOK, HoldInv, [Next]_vars PROVE HoldInv'
  OBVIOUS
<1>1. CASE UNCHANGED worker
  BY <1>1 DEF HoldInv, OneWorker, Engaged
<1>2. ASSUME NEW w \in Workers, Execution(w) PROVE HoldInv'
  <2>1. \A v \in Workers \ {w} : worker'[v] = worker[v]
    BY <1>2, WorkerStep
  <2>2. CASE worker'[w] = IdleWorker
    BY <2>1, <2>2, NullAssumption DEF HoldInv, OneWorker, Engaged, IdleWorker
  <2>3. ASSUME NEW t \in Tasks, NEW a \in Agents, \A v \in Workers : worker[v].task # t,
               worker'[w] = [IdleWorker EXCEPT !.pc = "enter", !.task = t, !.agent = a]
        PROVE  HoldInv'
    <3>1. worker'[w].task = t /\ worker'[w].pc = "enter"
      BY <2>3 DEF IdleWorker
    <3> QED
      BY <2>1, <2>3, <3>1 DEF HoldInv, OneWorker, Engaged
  <2>4. CASE Engaged(w)' /\ worker'[w].task = worker[w].task
    BY <2>1, <2>4 DEF HoldInv, OneWorker, Engaged
  <2> QED
    BY <1>2, <2>2, <2>3, <2>4, HoldMoves
<1> QED
  BY <1>1, <1>2, WorkersMove

LEMMA HoldCorrect == ASSUME ~FreeCalls PROVE Spec => []HoldInv
<1>1. Init => HoldInv
  BY NullAssumption DEF Init, HoldInv, OneWorker, IdleWorker
<1> QED
  BY <1>1, HoldStep, TypeCorrect, PTL DEF Spec

-----------------------------------------------------------------------------
(* The retries of a task                                                   *)

RetriesInv ==
    /\ RetriesKept
    /\ \A w \in Workers : worker[w].pc = "spend" => retries[worker[w].task] < MaxRetries

LEMMA RetriesInvStep ==
    TypeOK /\ HoldInv /\ RetriesInv /\ [Next]_vars => RetriesInv'
<1> SUFFICES ASSUME TypeOK, HoldInv, RetriesInv, [Next]_vars PROVE RetriesInv'
  OBVIOUS
<1>0. /\ worker \in [Workers -> WorkerStates] /\ retries \in [Tasks -> Nat] /\ MaxRetries \in Nat
      /\ \A w \in Workers : worker[w].pc = "spend" => worker[w].task \in Tasks
  BY ParameterAssumption DEF TypeOK, WorkerTypes, TaskTypes, Engaged
<1>1. CASE UNCHANGED retries /\ \A t \in Tasks : Spenders(t)' = Spenders(t)
  <2>1. \A w \in Workers : worker'[w].pc = "spend" =>
            worker'[w].task \in Tasks /\ worker[w].pc = "spend" /\ worker[w].task = worker'[w].task
    <3>1. WorkerTypes'
      BY OperatorTypeOK, SubmissionTypeOK, ExecutionTypeOK, StutterTypeOK DEF Next, TypeOK
    <3> QED
      BY <1>1, <3>1 DEF Spenders, WorkerTypes, Engaged
  <2> QED
    BY <1>1, <2>1 DEF RetriesInv, RetriesKept
<1>2. ASSUME NEW w \in Workers, Handle(w) PROVE RetriesInv'
  <2>1. PICK t \in Tasks : t = worker[w].task
    BY <1>2 DEF Handle, TypeOK, WorkerTypes, Engaged
  <2>2. /\ UNCHANGED retries
        /\ worker' = [worker EXCEPT ![w].pc = HandlerStep[Outcome(w)], ![w].to = Outcome(w)]
    BY <1>2 DEF Handle, Transition
  <2>3. HandlerStep[Outcome(w)] = "spend" => retries[t] < MaxRetries
    BY <2>1 DEF HandlerStep, Outcome
  <2>4. worker'[w].task = t /\ worker'[w].pc = HandlerStep[Outcome(w)]
    BY <1>0, <2>1, <2>2 DEF WorkerStates
  <2>5. \A v \in Workers \ {w} : worker'[v] = worker[v]
    BY <1>0, <2>2
  <2> QED
    BY <2>2, <2>3, <2>4, <2>5 DEF RetriesInv, RetriesKept
<1>3. ASSUME NEW w \in Workers, Spend(w) PROVE RetriesInv'
  <2>1. PICK t \in Tasks : t = worker[w].task
    BY <1>3 DEF Spend, TypeOK, WorkerTypes, Engaged
  <2>2. /\ worker[w].pc = "spend" /\ retries' = [retries EXCEPT ![t] = @ + 1]
        /\ worker' = [worker EXCEPT ![w].pc = "test"]
    BY <1>3, <2>1 DEF Spend, Goto
  <2>3. retries[t] < MaxRetries
    BY <2>1, <2>2 DEF RetriesInv
  <2>4. retries'[t] <= MaxRetries /\ \A u \in Tasks \ {t} : retries'[u] = retries[u]
    BY <1>0, <2>2, <2>3
  <2>5. worker'[w].pc = "test" /\ \A v \in Workers \ {w} : worker'[v] = worker[v]
    BY <1>0, <2>2 DEF WorkerStates
  <2>6. \A v \in Workers \ {w} : worker[v].task # t
    BY <2>1 DEF HoldInv, OneWorker
  <2> QED
    BY <1>0, <2>4, <2>5, <2>6 DEF RetriesInv, RetriesKept
<1> QED
  BY <1>1, <1>2, <1>3, RetryWriters

\* max_retries is kept as long as no two workers execute one task at a time,
\* whoever submits and cancels it, and forced or not.
THEOREM RetriesKeptCorrect ==
    ASSUME ~FreeCalls
    PROVE  Spec => []RetriesKept
<1>1. Init => RetriesInv
  BY ParameterAssumption DEF Init, RetriesInv, RetriesKept, IdleWorker
<1>2. RetriesInv => RetriesKept
  BY DEF RetriesInv
<1> QED
  BY <1>1, <1>2, RetriesInvStep, TypeCorrect, HoldCorrect, PTL DEF Spec

\* What a worker without an exception has in hand was completed by it, or has
\* been cancelled or assigned since: it does not wait for a retry.
EndInv ==
    \A w \in Workers : worker[w].pc \in {"settle", "finally", "aggregate"} /\ worker[w].exc = "none" =>
        status[worker[w].task] # "RETRYING"

LEMMA EndInvStep == TypeOK /\ RegionInv /\ HoldInv /\ EndInv /\ [Next]_vars => EndInv'
<1> SUFFICES ASSUME TypeOK, RegionInv, HoldInv, EndInv, [Next]_vars, NEW w \in Workers,
                    worker'[w].pc \in {"settle", "finally", "aggregate"}, worker'[w].exc = "none",
                    status'[worker'[w].task] = "RETRYING"
             PROVE  FALSE
  BY DEF EndInv
<1>0. /\ worker \in [Workers -> WorkerStates] /\ status \in [Tasks -> Statuses]
      /\ worker[w] \in WorkerStates /\ InRegion(w)
  BY DEF TypeOK, WorkerTypes, TaskTypes, RegionInv
\* Where the worker was.
<1>1. /\ worker'[w].task = worker[w].task /\ worker[w].task \in Tasks
      /\ \/ Write(w)
         \/ worker[w].pc \in {"settle", "finally"} /\ worker[w].exc = "none"
         \/ worker[w] = worker'[w]
  <2>1. CASE worker'[w] = worker[w]
    BY <1>0, <2>1 DEF TypeOK, WorkerTypes, Engaged
  <2>2. CASE Settle(w) \/ Finally(w) \/ Write(w)
    BY <1>0, <2>2 DEF Settle, Finally, Write, Transition, Goto, WorkerStates, TypeOK, WorkerTypes, Engaged
  <2>3. ~Aggregate(w) /\ \A t \in Tasks, a \in Agents : ~ExecuteCall(w, t, a)
    <3>1. Aggregate(w) => worker'[w] = IdleWorker
      BY <1>0 DEF Aggregate
    <3>2. ASSUME NEW t \in Tasks, NEW a \in Agents, ExecuteCall(w, t, a)
          PROVE  worker'[w].pc = "enter"
      BY <1>0, <3>2 DEF ExecuteCall, IdleWorker
    <3>3. IdleWorker.pc = "idle"
      BY DEF IdleWorker
    <3> QED
      BY <3>1, <3>2, <3>3
  <2>4. ~(Enter(w) \/ Resume(w) \/ Run(w) \/ Complete(w))
    BY <1>0 DEF Enter, Resume, Run, Complete, Transition, Goto, GotoHandler, WorkerStates
  <2>5. ~Handle(w)
    <3>1. HandlerStep[Outcome(w)] \in {"spend", "check", "test"}
      BY DEF Outcome, HandlerStep
    <3> QED
      BY <1>0, <3>1 DEF Handle, Transition, WorkerStates
  <2>6. ~(Spend(w) \/ Test(w) \/ Check(w))
    BY <1>0 DEF Spend, Test, Check, ForcedOrRaise, Transition, Goto, GotoHandler, WorkerStates, InRegion
  <2> QED
    BY <2>1, <2>2, <2>3, <2>4, <2>5, <2>6, WorkerSteps DEF Execution
<1>2. ~Write(w)
  <2> SUFFICES ASSUME Write(w) PROVE FALSE
    OBVIOUS
  <2>1. worker'[w].exc = worker[w].exc /\ status'[worker[w].task] = worker[w].to
    BY <1>0, <1>1 DEF Write, Transition, Goto, WorkerStates
  <2> QED
    BY <1>0, <1>1, <2>1 DEF Write, InRegion
<1>3. status[worker[w].task] # "RETRYING"
  BY <1>1, <1>2 DEF EndInv
<1>4. PICK v \in Workers : Write(v)
  BY <1>0, <1>1, <1>3, StatusWriters DEF CancelWrite, AssignWrite
<1>5. worker[v].task = worker[w].task
  BY <1>0, <1>1, <1>3, <1>4 DEF Write
<1> QED
  BY <1>1, <1>2, <1>4, <1>5 DEF HoldInv, OneWorker

\* An agent gets a task by assign_task, and loses it in the finally block.
LEMMA ActiveWriters ==
    ASSUME [Next]_vars
    PROVE  \/ UNCHANGED active
           \/ \E s \in Submitters : Record(s)
           \/ \E w \in Workers : Finally(w)
<1> USE DEF agentVars
<1>1. CASE UNCHANGED vars \/ Operator \/ Cancellation
  BY <1>1 DEF vars, Operator, CreateTask, Cancel, RetryComesDue, RemoveAgent, AddAgent,
              SetSuspended, Cancellation, RequestCancel, CancelCheck, CancelWrite
<1>2. ASSUME NEW s \in Submitters, Submission(s) PROVE UNCHANGED active \/ Record(s)
  BY <1>2 DEF Submission, DispatchSnapshot, NextCandidate, EndOfSnapshot, ClientSubmit,
              ChooseAgent, Assign, AssignCheck, AssignWrite, Dequeue
<1>3. ASSUME NEW w \in Workers, Execution(w) PROVE UNCHANGED active \/ Finally(w)
  BY <1>3 DEF Execution, ExecuteCall, Enter, Resume, Run, Complete, Handle, Spend, Test, Check,
              Write, Settle, Aggregate
<1> QED
  BY <1>1, <1>2, <1>3 DEF Next

\* A task that waits for a retry stays within reach of somebody, unless
\* Dequeue takes it off the queue.
LEMMA OnlyDequeueLoses ==
    ASSUME TypeOK, HoldInv, EndInv, ~FreeCalls, [Next]_vars, NEW t \in Tasks, ~Lost(t), Lost(t)'
    PROVE  \E s \in Submitters : /\ submitter[s].pc = "dequeue" /\ submitter[s].task = t
                                 /\ submitter'[s].pc = "next"
<1>0. /\ status \in [Tasks -> Statuses] /\ active \in [Agents -> SUBSET Tasks]
      /\ worker \in [Workers -> WorkerStates] /\ submitter \in [Submitters -> SubmitterStates]
      /\ queuedIds \subseteq Tasks
  BY DEF TypeOK, TaskTypes, AgentTypes, WorkerTypes, SubmitterTypes, QueueTypes
<1>1. /\ status'[t] = "RETRYING" /\ t \notin queuedIds'
      /\ \A a \in Agents : t \notin active'[a]
      /\ \A w \in Workers : worker'[w].task # t
  BY DEF Lost, Holders
<1>2. status[t] = "RETRYING"
  <2> SUFFICES ASSUME status[t] # "RETRYING" PROVE FALSE
    OBVIOUS
  <2>1. PICK w \in Workers : Write(w)
    BY <1>0, <1>1, StatusWriters DEF CancelWrite, AssignWrite
  <2>2. worker[w].task = t /\ worker'[w].task = worker[w].task
    BY <1>0, <1>1, <2>1 DEF Write, Transition, Goto, WorkerStates
  <2> QED
    BY <1>1, <2>2
\* No worker gave it up ...
<1>3. \A w \in Workers : worker[w].task # t
  <2> SUFFICES ASSUME NEW w \in Workers, worker[w].task = t PROVE FALSE
    OBVIOUS
  <2>1. Aggregate(w)
    <3>1. Execution(w)
      BY <1>1, WorkerSteps
    <3>2. worker[w].task # NoTask
      BY NullAssumption
    <3> QED
      BY <1>1, <3>1, <3>2, HoldMoves
  <2>2. worker[w].exc # "none"
    BY <1>2, <2>1 DEF Aggregate, EndInv
  <2>3. QueueIfAbsent(t)
    BY <1>2, <2>1, <2>2 DEF Aggregate
  <2> QED
    BY <1>1, <2>3 DEF QueueIfAbsent, queueVars
\* ... and no agent.
<1>4. \A a \in Agents : t \notin active[a]
  <2>1. CASE UNCHANGED active
    BY <1>1, <2>1
  <2>2. ASSUME NEW s \in Submitters, Record(s) PROVE \A a \in Agents : active[a] \subseteq active'[a]
    BY <1>0, <2>2 DEF Record
  <2>3. ASSUME NEW w \in Workers, Finally(w) PROVE \A a \in Agents : t \in active[a] => t \in active'[a]
    BY <1>0, <1>3, <2>3 DEF Finally, Release
  <2> QED
    BY <1>1, <2>1, <2>2, <2>3, ActiveWriters
<1>5. t \in queuedIds
  BY <1>2, <1>3, <1>4 DEF Lost, Holders
<1>6. CASE CancelWrite
  BY <1>0, <1>1, <1>5, <1>6 DEF CancelWrite, RemoveFromQueue
<1>7. ASSUME NEW s \in Submitters, Dequeue(s)
      PROVE  submitter[s].pc = "dequeue" /\ submitter[s].task = t /\ submitter'[s].pc = "next"
  BY <1>0, <1>1, <1>5, <1>7 DEF Dequeue, RemoveFromQueue, Return, SubmitterStates
<1>8. ~(\/ UNCHANGED <<queueVars, born>>
        \/ \E u \in Tasks : CreateTask(u)
        \/ \E w \in Workers : Aggregate(w) /\ QueueIfAbsent(worker[w].task))
  BY <1>1, <1>5 DEF CreateTask, QueueIfAbsent, queueVars
<1> QED
  BY <1>6, <1>7, <1>8, QueueWriters

\* No retry is lost but by the removal from the queue that ends submit_task,
\* whoever submits and cancels what, as long as no two workers execute one task
\* at a time.
THEOREM RetryLossCorrect ==
    ASSUME ~FreeCalls
    PROVE  Spec => LostOnlyByDequeue
<1>1. Init => EndInv
  BY DEF Init, EndInv, IdleWorker
<1>2. TypeOK /\ HoldInv /\ EndInv /\ [Next]_vars =>
        [\A t \in Tasks : ~Lost(t) /\ Lost(t)' =>
            \E s \in Submitters : /\ submitter[s].pc = "dequeue" /\ submitter[s].task = t
                                  /\ submitter'[s].pc = "next"]_vars
  BY OnlyDequeueLoses
<1> QED
  BY <1>1, <1>2, EndInvStep, HoldCorrect, RegionCorrect, TypeCorrect, PTL
  DEF Spec, LostOnlyByDequeue

-----------------------------------------------------------------------------
(* Ownership: one scheduler, no clients, and workers that execute what is  *)
(* active on their agents                                                  *)

OneScheduler == \A r, s \in Schedulers : r = s

\* The program as it is meant to be driven.
Driven == ~ForcedFallback /\ ~FreeCalls /\ OneScheduler /\ Clients = {}

\* The regions after the outcome of an execution has been written.
Ending == {"settle", "finally", "aggregate"}

\* Nobody has the task: no agent, and no worker.
Free(t) ==
    /\ \A a \in Agents : t \notin active[a]
    /\ \A w \in Workers : worker[w].task # t

\* The scheduler has found the task fit for an agent, and not yet given it to
\* it; or has done so, and not yet taken the task off the queue.
Recording(s, t) == submitter[s].pc = "record" /\ submitter[s].task = t
Taking(s, t) == submitter[s].pc = "dequeue" /\ submitter[s].task = t

\* What the scheduler has copied from the queue, and what it is about to
\* assign, is free, however long ago it looked; until the agent has the task,
\* nobody but cancel_task and the scheduler writes its status.
SchedulerOwns(s) ==
    LET t == submitter[s].task
        l == submitter[s].pc
    IN
    /\ \A u \in submitter[s].todo : u \in Registry /\ Free(u)
    /\ l \in {"submit", "assign", "check", "write", "record"} => t \in Registry /\ Free(t)
    /\ l \in {"submit", "assign", "check", "write", "record", "dequeue"} => t \notin submitter[s].todo
    /\ l \in {"check", "write"} => status[t] \in {"PENDING", "CANCELLED"}
    /\ l = "record" => status[t] \in {"ASSIGNED", "RETRYING", "CANCELLED"}

\* The statuses a task may have while its worker is at l, about to move it to s;
\* any of them may have been overwritten by cancel_task.
Expected(l, s) ==
    {"CANCELLED"} \cup
    CASE l = "enter" \/ (l \in {"check", "write"} /\ s = "RUNNING") -> {"ASSIGNED", "RETRYING"}
      [] l \in {"running", "complete", "handler", "spend"} -> {"RUNNING"}
      [] l \in {"check", "write"} /\ s # "RUNNING" -> {"RUNNING"}
      [] l = "test" /\ s # "FAILED" -> {"RUNNING"}
      [] l = "settle" -> {s}
      [] l \in {"finally", "aggregate"} -> {"COMPLETED", "RETRYING", "FAILED"}
      [] OTHER -> {}

\* A worker holds its task on its agent until it releases it.
WorkerOwns(w) ==
    LET t == worker[w].task
        l == worker[w].pc
    IN
    Engaged(w) =>
        /\ l = "aggregate" => \A a \in Agents : t \notin active[a]
        /\ l # "aggregate" => t \in active[worker[w].agent]
        /\ status[t] \in Expected(l, worker[w].to)
        /\ l \in {"finally", "aggregate"} /\ status[t] # "CANCELLED" =>
                (worker[w].exc = "none" <=> status[t] = "COMPLETED")

TaskOwned(t) ==
    /\ \A a \in Agents : t \in active[a] => assignedTo[t] = a
    /\ status[t] = "PENDING" => Free(t)
    /\ ~Free(t) \/ t \in queuedIds => t \in Registry
    /\ status[t] \in {"ASSIGNED", "RUNNING"} =>
            \/ \E s \in Submitters : Recording(s, t)
            \/ assignedTo[t] \in Agents /\ t \in active[assignedTo[t]]
    /\ \A a \in Agents : t \in active[a] =>
            \/ status[t] \in {"ASSIGNED", "RETRYING", "CANCELLED"}
            \/ \E w \in Workers : worker[w].task = t
    /\ t \in queuedIds => \/ Free(t)
                          \/ \E s \in Submitters : Taking(s, t) \/ submitter[s].pc = "stopped"
    /\ status[t] = "COMPLETED" => \/ ~error[t]
                                  \/ \E w \in Workers : worker[w].task = t /\ worker[w].pc = "settle"

\* cancel_task overwrites an outcome only as long as it has not been reported.
CancelOwns ==
    \A t \in Tasks : CancelInFlight(t) /\ status[t] \in {"COMPLETED", "FAILED"} =>
        \E w \in Workers : worker[w].task = t

OwnInv ==
    /\ \A s \in Submitters : SchedulerOwns(s)
    /\ \A w \in Workers : WorkerOwns(w)
    /\ \A t \in Tasks : TaskOwned(t)
    /\ CancelOwns

LEMMA InitOwnInv == Init => OwnInv
<1> SUFFICES ASSUME Init PROVE OwnInv
  OBVIOUS
<1> USE NullAssumption DEF Init
<1>1. \A t \in Tasks : Free(t)
  BY DEF Free, IdleWorker
<1>2. \A t \in Tasks : TaskOwned(t)
  BY <1>1 DEF TaskOwned
<1>3. \A w \in Workers : WorkerOwns(w)
  BY DEF WorkerOwns, Engaged, IdleWorker
<1>4. \A s \in Submitters : SchedulerOwns(s)
  BY DEF SchedulerOwns, IdleSubmitter
<1>5. CancelOwns
  BY DEF CancelOwns, CancelInFlight, IdleCanceller
<1> QED
  BY <1>2, <1>3, <1>4, <1>5 DEF OwnInv

\* A worker expects its task to be cancelled at any time.
LEMMA CancelledExpected == \A l, s : "CANCELLED" \in Expected(l, s)
BY DEF Expected

\* The canceller's and the operator's steps: nothing changes hands.
LEMMA OutsideStep ==
    ASSUME TypeOK, OwnInv, Operator \/ Cancellation \/ UNCHANGED vars
    PROVE  /\ UNCHANGED <<active, worker, assignedTo, error>>
           /\ \A t \in Tasks : /\ status'[t] = status[t] \/ (status'[t] = "CANCELLED" /\ CancelWrite)
                               /\ t \in Registry => t \in Registry'
                               /\ t \in queuedIds' => t \in queuedIds \/ (Free(t) /\ t \in Registry')
                               /\ CancelInFlight(t)' => CancelInFlight(t) \/ status[t] \notin Terminal
           /\ \A s \in Submitters : submitter'[s] = submitter[s] \/ (s \in Selecting /\ submitter'[s] = Raise(s))
<1> USE DEF taskVars, creationVars, queueVars, resultVars, agentVars
<1>1. CASE UNCHANGED vars
  BY <1>1 DEF vars, Registry, CancelInFlight
<1>2. ASSUME NEW u \in Tasks, CreateTask(u)
      PROVE  /\ UNCHANGED <<active, worker, assignedTo, error, status, canceller, submitter>>
             /\ \A t \in Tasks : /\ t \in Registry => t \in Registry'
                                 /\ t \in queuedIds' => t \in queuedIds \/ (Free(t) /\ t \in Registry')
  <2>1. Free(u)
    BY <1>2 DEF CreateTask, OwnInv, TaskOwned
  <2>2. born' = [born EXCEPT ![u] = totalTasks + 1] /\ born \in [Tasks -> Nat] /\ totalTasks \in Nat
    BY <1>2 DEF CreateTask, TypeOK, TaskTypes
  <2>3. u \in Registry' /\ \A t \in Tasks : t \in Registry => t \in Registry'
    BY <2>2 DEF Registry
  <2>4. \A t \in Tasks : t \in queuedIds' => t \in queuedIds \/ t = u
    BY <1>2 DEF CreateTask, QueueIfAbsent
  <2> QED
    BY <1>2, <2>1, <2>3, <2>4 DEF CreateTask
<1>3. ASSUME NEW u \in Tasks, Cancel(u) PROVE \A t \in Tasks : CancelInFlight(t)' => FALSE
  BY <1>3 DEF Cancel, CancelInFlight
<1>4. CASE RequestCancel \/ CancelCheck
  <2>1. \A t \in Tasks : CancelInFlight(t)' => status[t] \notin Terminal
    BY <1>4 DEF RequestCancel, CancelCheck, CancelInFlight, IdleCanceller, CanMove, Transitions, Terminal,
                TypeOK, CancellerTypes, CancellerStates
  <2> QED
    BY <1>4, <2>1 DEF RequestCancel, CancelCheck, Registry
<1>5. CASE CancelWrite
  BY <1>5 DEF CancelWrite, RemoveFromQueue, IdleCanceller, CancelInFlight, Registry, TypeOK, TaskTypes
<1>6. ASSUME NEW a \in Agents, RemoveAgent(a) \/ AddAgent(a)
      PROVE  \A s \in Submitters : submitter'[s] = submitter[s] \/ (s \in Selecting /\ submitter'[s] = Raise(s))
  BY <1>6 DEF RemoveAgent, AddAgent, ResizeManaged
<1>7. CASE \/ \E t \in Tasks : Cancel(t) \/ RetryComesDue(t)
           \/ \E a \in Agents : RemoveAgent(a) \/ AddAgent(a) \/ SetSuspended(a)
  <2>1. UNCHANGED <<active, worker, assignedTo, error, status, born, queuedIds>>
    BY <1>7 DEF Cancel, RetryComesDue, RemoveAgent, AddAgent, SetSuspended
  <2>2. UNCHANGED canceller \/ \E t \in Tasks : Cancel(t)
    BY <1>7 DEF RetryComesDue, RemoveAgent, AddAgent, SetSuspended
  <2>3. UNCHANGED submitter \/ \E a \in Agents : RemoveAgent(a) \/ AddAgent(a)
    BY <1>7 DEF Cancel, RetryComesDue, SetSuspended
  <2>4. \A t \in Tasks : CancelInFlight(t)' => CancelInFlight(t)
    BY <1>3, <2>2 DEF CancelInFlight
  <2> QED
    BY <1>6, <2>1, <2>3, <2>4 DEF Registry
<1> QED
  BY <1>1, <1>2, <1>4, <1>5, <1>7 DEF Operator, Cancellation, CancelInFlight

LEMMA OutsideOwnInv ==
    ASSUME TypeOK, OwnInv, Operator \/ Cancellation \/ UNCHANGED vars
    PROVE  OwnInv'
<1>1. UNCHANGED <<active, worker, assignedTo, error>>
  BY OutsideStep
<1>2. \A t \in Tasks : status'[t] = status[t] \/ status'[t] = "CANCELLED"
  BY OutsideStep
<1>3. \A t \in Tasks : /\ t \in Registry => t \in Registry'
                       /\ t \in queuedIds' => t \in queuedIds \/ (Free(t) /\ t \in Registry')
  BY OutsideStep
<1>4. \A t : Free(t)' <=> Free(t)
  BY <1>1 DEF Free
<1>5. \A s \in Submitters : submitter'[s] = submitter[s] \/ (s \in Selecting /\ submitter'[s] = Raise(s))
  BY OutsideStep
<1>6. ASSUME NEW t \in Tasks PROVE TaskOwned(t)'
  <2>1. \A s \in Submitters : /\ Recording(s, t) => Recording(s, t)'
                              /\ Taking(s, t) => Taking(s, t)'
                              /\ submitter[s].pc = "stopped" => submitter'[s].pc = "stopped"
    BY <1>5 DEF Recording, Taking, Selecting
  <2>2. TaskOwned(t)
    BY DEF OwnInv
  <2> QED
    BY <1>1, <1>2, <1>3, <1>4, <2>1, <2>2 DEF TaskOwned
<1>7. ASSUME NEW w \in Workers PROVE WorkerOwns(w)'
  <2>1. Engaged(w) => worker[w].task \in Tasks
    BY DEF TypeOK, WorkerTypes
  <2> QED
    BY <1>1, <1>2, <2>1, CancelledExpected DEF OwnInv, WorkerOwns, Engaged
<1>8. ASSUME NEW s \in Submitters PROVE SchedulerOwns(s)'
  <2>1. CASE submitter'[s] = submitter[s]
    <3>1. /\ submitter[s].todo \subseteq Tasks
          /\ submitter[s].pc \in {"submit", "assign", "check", "write", "record"} => submitter[s].task \in Tasks
      BY DEF TypeOK, SubmitterTypes, SubmitterStates
    <3> QED
      BY <1>2, <1>3, <1>4, <2>1, <3>1 DEF OwnInv, SchedulerOwns
  <2>2. CASE submitter'[s] = Raise(s)
    BY <2>2 DEF SchedulerOwns, Raise, IdleSubmitter
  <2> QED
    BY <1>5, <2>1, <2>2
<1>9. CancelOwns'
  <2> SUFFICES ASSUME NEW t \in Tasks, CancelInFlight(t)', status'[t] \in {"COMPLETED", "FAILED"}
               PROVE  \E w \in Workers : worker'[w].task = t
    BY DEF CancelOwns
  <2>1. status[t] = status'[t] /\ CancelInFlight(t)
    BY OutsideStep DEF Terminal
  <2> QED
    BY <1>1, <2>1 DEF OwnInv, CancelOwns
<1> QED
  BY <1>6, <1>7, <1>8, <1>9 DEF OwnInv

\* The scheduler's steps that touch no task but its queue entry.
LEMMA SchedulerQuiet ==
    ASSUME TypeOK, OwnInv, QueueSound, NEW s \in Submitters, \A r \in Submitters : r = s, Clients = {},
           Submission(s), ~AssignWrite(s), ~Record(s)
    PROVE  /\ SchedulerOwns(s)'
           /\ queuedIds' \subseteq queuedIds
           /\ \A t \in Tasks : /\ ~Recording(s, t)
                               /\ Taking(s, t) => t \notin queuedIds'
           /\ submitter[s].pc # "stopped"
<1>0. /\ submitter \in [Submitters -> SubmitterStates] /\ submitter[s] \in SubmitterStates
      /\ SchedulerOwns(s)
  BY DEF OwnInv, TypeOK, SubmitterTypes
<1>1. UNCHANGED <<status, active, worker, born>>
  BY DEF Submission, DispatchSnapshot, NextCandidate, EndOfSnapshot, ClientSubmit, ChooseAgent,
         Assign, AssignCheck, AssignWrite, Record, Dequeue, taskVars, agentVars, creationVars
<1>2. \A t : (Free(t)' <=> Free(t)) /\ (t \in Registry' <=> t \in Registry)
  BY <1>1 DEF Free, Registry
<1>3. CASE DispatchSnapshot(s) \/ EndOfSnapshot(s)
  <2>1. submitter[s].pc \in {"idle", "next"} /\ UNCHANGED queuedIds
    BY <1>3 DEF DispatchSnapshot, EndOfSnapshot, queueVars
  <2>2. /\ submitter'[s].pc \in {"idle", "next"}
        /\ \A t \in submitter'[s].todo : t \in Tasks /\ queued[t] > 0
    BY <1>0, <1>3 DEF DispatchSnapshot, EndOfSnapshot, Iterate, IdleSubmitter
  <2>3. \A t \in Tasks : queued[t] > 0 => t \in queuedIds
    BY DEF QueueSound
  <2>4. \A t \in Tasks : t \in queuedIds => t \in Registry /\ Free(t)
    BY <2>1 DEF OwnInv, TaskOwned, Taking
  <2> QED
    BY <1>2, <2>1, <2>2, <2>3, <2>4 DEF SchedulerOwns, Recording, Taking
<1>4. ASSUME NEW t \in Tasks, NextCandidate(s, t)
      PROVE  UNCHANGED queuedIds /\ submitter[s].pc = "next" /\ SchedulerOwns(s)'
  <2>1. /\ t \in submitter[s].todo
        /\ submitter'[s].todo = submitter[s].todo \ {t}
        /\ submitter'[s].task = t
        /\ submitter'[s].pc \in {"submit", "next"}
    BY <1>0, <1>4 DEF NextCandidate, SubmitterStates
  <2> QED
    BY <1>0, <1>2, <1>4, <2>1 DEF NextCandidate, SchedulerOwns, queueVars
<1>5. ASSUME NEW t \in Tasks, NEW a \in Agents \cup {NoAgent} PROVE ~ClientSubmit(s, t, a)
  BY DEF ClientSubmit
<1>6. CASE ChooseAgent(s) \/ Assign(s) \/ AssignCheck(s)
  <2>1. /\ UNCHANGED queuedIds /\ submitter[s].pc \in {"submit", "assign", "check"}
        /\ submitter'[s].todo = submitter[s].todo
        /\ submitter'[s].task = submitter[s].task
        /\ \/ submitter'[s].pc \in {"assign", "next"}
           \/ submitter'[s].pc = "check" /\ status[submitter[s].task] = "PENDING"
           \/ submitter'[s].pc = "write" /\ submitter[s].pc = "check"
           \/ submitter'[s].pc = "record" /\ status[submitter[s].task] \in {"RETRYING", "ASSIGNED"}
    BY <1>0, <1>6 DEF ChooseAgent, Assign, AssignCheck, Return, SubmitterStates, queueVars
  <2> QED
    BY <1>0, <1>1, <1>2, <2>1 DEF SchedulerOwns, Recording, Taking
<1>7. CASE Dequeue(s)
  <2>1. /\ queuedIds' = queuedIds \ {submitter[s].task}
        /\ submitter'[s].todo = submitter[s].todo
        /\ submitter[s].pc = "dequeue" /\ submitter'[s].pc = "next"
    BY <1>0, <1>7 DEF Dequeue, RemoveFromQueue, Return, SubmitterStates
  <2> QED
    BY <1>0, <1>2, <2>1 DEF SchedulerOwns, Recording, Taking
<1> QED
  BY <1>3, <1>4, <1>5, <1>6, <1>7 DEF Submission, Recording, Taking

\* What the other parts of the invariant see of a task the scheduler assigns.
LEMMA AssignWriteOwnInv ==
    ASSUME TypeOK, OwnInv, NEW s \in Submitters, \A r \in Submitters : r = s, AssignWrite(s)
    PROVE  OwnInv'
<1>1. PICK t \in Tasks : t = submitter[s].task
  BY DEF AssignWrite, TypeOK, SubmitterTypes
<1>2. /\ submitter \in [Submitters -> SubmitterStates] /\ submitter[s] \in SubmitterStates
      /\ status \in [Tasks -> Statuses] /\ SchedulerOwns(s)
      /\ submitter[s].pc = "write" /\ status' = [status EXCEPT ![t] = "ASSIGNED"]
      /\ submitter' = [submitter EXCEPT ![s].pc = "record"]
      /\ UNCHANGED <<active, worker, born, assignedTo, error, queuedIds, canceller>>
  BY <1>1 DEF AssignWrite, OwnInv, TypeOK, SubmitterTypes, TaskTypes, creationVars, queueVars, agentVars
<1>3. /\ submitter'[s].pc = "record" /\ submitter'[s].task = t
      /\ submitter'[s].todo = submitter[s].todo
  BY <1>1, <1>2 DEF SubmitterStates
<1>4. status'[t] = "ASSIGNED" /\ \A u \in Tasks \ {t} : status'[u] = status[u]
  BY <1>2
<1>5. \A u : (Free(u)' <=> Free(u)) /\ (u \in Registry' <=> u \in Registry)
  BY <1>2 DEF Free, Registry
<1>6. Free(t) /\ t \in Registry
  BY <1>1, <1>2 DEF SchedulerOwns
<1>7. SchedulerOwns(s)'
  BY <1>1, <1>2, <1>3, <1>4, <1>5, <1>6 DEF SchedulerOwns
<1>8. ASSUME NEW w \in Workers PROVE WorkerOwns(w)'
  <2>1. Engaged(w) => worker[w].task \in Tasks \ {t}
    BY <1>6 DEF Free, TypeOK, WorkerTypes
  <2> QED
    BY <1>2, <1>4, <2>1 DEF OwnInv, WorkerOwns, Engaged
<1>9. ASSUME NEW u \in Tasks \ {t} PROVE TaskOwned(u)'
  <2>1. \A r \in Submitters : ~Recording(r, u) /\ ~Taking(r, u) /\ submitter[r].pc # "stopped"
    BY <1>2 DEF Recording, Taking
  <2> QED
    BY <1>2, <1>4, <1>5, <2>1 DEF OwnInv, TaskOwned
<1>10. TaskOwned(t)'
  <2>1. Recording(s, t)'
    BY <1>3 DEF Recording
  <2>2. \A a \in Agents : t \notin active'[a]
    BY <1>2, <1>6 DEF Free
  <2> QED
    BY <1>4, <1>5, <1>6, <2>1, <2>2 DEF TaskOwned
<1>11. CancelOwns'
  BY <1>2, <1>4 DEF OwnInv, CancelOwns, CancelInFlight
<1> QED
  BY <1>2, <1>7, <1>8, <1>9, <1>10, <1>11 DEF OwnInv

LEMMA RecordOwnInv ==
    ASSUME TypeOK, OwnInv, NEW s \in Submitters, \A r \in Submitters : r = s, Clients = {}, Record(s)
    PROVE  OwnInv'
<1>1. PICK t \in Tasks, a \in Agents : t = submitter[s].task /\ a = submitter[s].agent
  BY DEF Record, TypeOK, SubmitterTypes
<1>2. /\ submitter \in [Submitters -> SubmitterStates] /\ submitter[s] \in SubmitterStates
      /\ active \in [Agents -> SUBSET Tasks] /\ assignedTo \in [Tasks -> Agents \cup {NoAgent}]
      /\ SchedulerOwns(s)
      /\ submitter[s].pc = "record"
      /\ assignedTo' = [assignedTo EXCEPT ![t] = a]
      /\ active' = [active EXCEPT ![a] = @ \cup {t}]
      /\ UNCHANGED <<status, worker, born, error, queuedIds, canceller>>
  BY <1>1 DEF Record, OwnInv, TypeOK, SubmitterTypes, TaskTypes, AgentTypes, creationVars, queueVars
<1>3. /\ \/ submitter'[s].pc = "dequeue" /\ submitter'[s].task = t /\ submitter'[s].todo = submitter[s].todo
         \/ submitter'[s].pc = "stopped" /\ submitter'[s].todo = {}
  <2>1. s \in Schedulers
    BY DEF Submitters
  <2> QED
    BY <1>1, <1>2, <2>1 DEF Record, Raise, IdleSubmitter, SubmitterStates
<1>4. /\ assignedTo'[t] = a /\ \A u \in Tasks \ {t} : assignedTo'[u] = assignedTo[u]
      /\ t \in active'[a]
      /\ \A u \in Tasks \ {t}, b \in Agents : u \in active'[b] <=> u \in active[b]
      /\ \A b \in Agents \ {a} : active'[b] = active[b]
  BY <1>2
<1>5. /\ t \in Registry /\ Free(t) /\ t \notin submitter[s].todo
      /\ status[t] \in {"ASSIGNED", "RETRYING", "CANCELLED"}
  BY <1>1, <1>2 DEF SchedulerOwns
<1>6. \A u \in Tasks \ {t} : (Free(u)' <=> Free(u)) /\ (u \in Registry' <=> u \in Registry)
  BY <1>2, <1>4 DEF Free, Registry
<1>7. SchedulerOwns(s)'
  <2>1. submitter[s].todo \subseteq Tasks
    BY <1>2 DEF SubmitterStates
  <2> QED
    BY <1>2, <1>3, <1>5, <1>6, <2>1 DEF SchedulerOwns
<1>8. ASSUME NEW w \in Workers PROVE WorkerOwns(w)'
  <2>1. Engaged(w) => worker[w].task \in Tasks \ {t} /\ worker[w].agent \in Agents
    BY <1>5 DEF Free, TypeOK, WorkerTypes
  <2> QED
    BY <1>2, <1>4, <2>1 DEF OwnInv, WorkerOwns, Engaged
<1>9. ASSUME NEW u \in Tasks \ {t} PROVE TaskOwned(u)'
  <2>1. \A r \in Submitters : ~Recording(r, u) /\ ~Taking(r, u) /\ submitter[r].pc # "stopped"
    BY <1>1, <1>2 DEF Recording, Taking
  <2>2. status'[u] \in {"ASSIGNED", "RUNNING"} => assignedTo'[u] \in Agents /\ u \in active'[assignedTo'[u]]
    BY <1>2, <1>4, <2>1 DEF OwnInv, TaskOwned
  <2> QED
    BY <1>2, <1>4, <1>6, <2>1, <2>2 DEF OwnInv, TaskOwned
<1>10. TaskOwned(t)'
  <2>1. \A b \in Agents : t \in active'[b] <=> b = a
    BY <1>4, <1>5 DEF Free
  <2>2. Taking(s, t)' \/ submitter'[s].pc = "stopped"
    BY <1>3 DEF Taking
  <2>3. t \in Registry'
    BY <1>2, <1>5 DEF Registry
  <2> QED
    BY <1>2, <1>4, <1>5, <2>1, <2>2, <2>3 DEF TaskOwned
<1>11. CancelOwns'
  BY <1>2 DEF OwnInv, CancelOwns, CancelInFlight
<1> QED
  BY <1>7, <1>8, <1>9, <1>10, <1>11 DEF OwnInv

LEMMA SubmissionOwnInv ==
    ASSUME TypeOK, OwnInv, QueueSound, OneScheduler, Clients = {}, NEW s \in Submitters, Submission(s)
    PROVE  OwnInv'
<1>0. \A r \in Submitters : r = s
  BY DEF Submitters, OneScheduler
<1>1. CASE AssignWrite(s) \/ Record(s)
  BY <1>0, <1>1, AssignWriteOwnInv, RecordOwnInv
<1>2. CASE ~AssignWrite(s) /\ ~Record(s)
  <2>1. UNCHANGED <<status, active, worker, born, assignedTo, error, canceller>>
    BY <1>2 DEF Submission, DispatchSnapshot, NextCandidate, EndOfSnapshot, ClientSubmit, ChooseAgent,
                Assign, AssignCheck, Dequeue, taskVars, agentVars, creationVars
  <2>2. \A t : (Free(t)' <=> Free(t)) /\ (t \in Registry' <=> t \in Registry)
    BY <2>1 DEF Free, Registry
  <2>3. /\ SchedulerOwns(s)'
        /\ queuedIds' \subseteq queuedIds
        /\ \A t \in Tasks : ~Recording(s, t) /\ (Taking(s, t) => t \notin queuedIds')
        /\ submitter[s].pc # "stopped"
    BY <1>0, <1>2, SchedulerQuiet
  <2>4. ASSUME NEW t \in Tasks PROVE TaskOwned(t)'
    <3>1. TaskOwned(t)
      BY DEF OwnInv
    <3>2. t \in queuedIds' => Free(t)'
      BY <1>0, <2>2, <2>3, <3>1 DEF TaskOwned
    <3>3. status'[t] \in {"ASSIGNED", "RUNNING"} => assignedTo'[t] \in Agents /\ t \in active'[assignedTo'[t]]
      BY <1>0, <2>1, <2>3, <3>1 DEF TaskOwned
    <3> QED
      BY <2>1, <2>2, <2>3, <3>1, <3>2, <3>3 DEF TaskOwned
  <2>5. \A w \in Workers : WorkerOwns(w)'
    BY <2>1 DEF OwnInv, WorkerOwns, Engaged
  <2>6. CancelOwns'
    BY <2>1 DEF OwnInv, CancelOwns, CancelInFlight
  <2> QED
    BY <1>0, <2>3, <2>4, <2>5, <2>6 DEF OwnInv
<1> QED
  BY <1>1, <1>2

\* A step of worker w that touches task t, which is not free, disturbs no other
\* worker and no other task.
LEMMA ElsewhereOwned ==
    ASSUME TypeOK, OwnInv, NEW w \in Workers, NEW t \in Tasks, ~Free(t),
           {worker[w].task, worker'[w].task} \subseteq {t, NoTask},
           \A v \in Workers \ {w} : worker'[v] = worker[v] /\ worker[v].task # t,
           \A u \in Tasks \ {t} : /\ status'[u] = status[u] /\ error'[u] = error[u]
                                  /\ u \in queuedIds' <=> u \in queuedIds
                                  /\ \A a \in Agents : u \in active'[a] <=> u \in active[a],
           UNCHANGED <<submitter, canceller, assignedTo, born>>,
           WorkerOwns(w)', TaskOwned(t)',
           worker'[w].task = t \/ ~CancelInFlight(t)
    PROVE  OwnInv'
<1>1. \A u \in Tasks \ {t} : (Free(u)' <=> Free(u)) /\ (u \in Registry' <=> u \in Registry)
  BY NullAssumption DEF Free, Registry
<1>2. ASSUME NEW s \in Submitters PROVE SchedulerOwns(s)'
  <2>1. /\ submitter[s].todo \subseteq Tasks
        /\ submitter[s].pc \in {"submit", "assign", "check", "write", "record", "dequeue"} => submitter[s].task \in Tasks
    BY DEF TypeOK, SubmitterTypes, SubmitterStates
  <2> QED
    BY <1>1, <2>1 DEF OwnInv, SchedulerOwns
<1>3. ASSUME NEW v \in Workers \ {w} PROVE WorkerOwns(v)'
  <2>1. Engaged(v) => worker[v].task \in Tasks \ {t} /\ worker[v].agent \in Agents
    BY DEF TypeOK, WorkerTypes
  <2> QED
    BY <2>1 DEF OwnInv, WorkerOwns, Engaged
<1>4. ASSUME NEW u \in Tasks \ {t} PROVE TaskOwned(u)'
  <2>1. /\ Free(u)' <=> Free(u)
        /\ u \in Registry' <=> u \in Registry
        /\ \A a \in Agents : u \in active'[a] <=> u \in active[a]
        /\ UNCHANGED <<status[u], error[u], assignedTo[u], submitter>>
        /\ u \in queuedIds' <=> u \in queuedIds
        /\ TaskOwned(u)
    BY <1>1 DEF OwnInv
  <2>2. \A v \in Workers : worker[v].task = u => worker'[v] = worker[v]
    BY NullAssumption
  <2>3. /\ \A a \in Agents : u \in active'[a] => assignedTo'[u] = a
        /\ status'[u] = "PENDING" => Free(u)'
        /\ ~Free(u)' \/ u \in queuedIds' => u \in Registry'
    BY <2>1 DEF TaskOwned
  <2>4. status'[u] \in {"ASSIGNED", "RUNNING"} =>
            \/ \E s \in Submitters : Recording(s, u)'
            \/ assignedTo'[u] \in Agents /\ u \in active'[assignedTo'[u]]
    BY <2>1 DEF TaskOwned, Recording
  <2>5. \A a \in Agents : u \in active'[a] =>
            \/ status'[u] \in {"ASSIGNED", "RETRYING", "CANCELLED"}
            \/ \E v \in Workers : worker'[v].task = u
    BY <2>1, <2>2 DEF TaskOwned
  <2>6. u \in queuedIds' => \/ Free(u)'
                            \/ \E s \in Submitters : Taking(s, u)' \/ submitter'[s].pc = "stopped"
    BY <2>1 DEF TaskOwned, Taking
  <2>7. status'[u] = "COMPLETED" => \/ ~error'[u]
                                    \/ \E v \in Workers : worker'[v].task = u /\ worker'[v].pc = "settle"
    BY <2>1, <2>2 DEF TaskOwned
  <2> QED
    BY <2>3, <2>4, <2>5, <2>6, <2>7 DEF TaskOwned
<1>5. CancelOwns'
  <2> SUFFICES ASSUME NEW u \in Tasks, CancelInFlight(u)', status'[u] \in {"COMPLETED", "FAILED"}
               PROVE  \E v \in Workers : worker'[v].task = u
    BY DEF CancelOwns
  <2>1. CancelInFlight(u)
    BY DEF CancelInFlight
  <2>2. CASE u = t
    BY <2>1, <2>2
  <2>3. CASE u # t
    <3>1. PICK v \in Workers : worker[v].task = u
      BY <2>1, <2>3 DEF OwnInv, CancelOwns
    <3>2. worker'[v].task = u
      BY <2>3, <3>1, NullAssumption
    <3> QED
      BY <3>2
  <2> QED
    BY <2>2, <2>3
<1>6. \A u \in Tasks : TaskOwned(u)'
  <2>1. ASSUME NEW u \in Tasks, u = t PROVE TaskOwned(u)'
    BY <2>1
  <2> QED
    BY <1>4, <2>1
<1> QED
  BY <1>2, <1>3, <1>5, <1>6 DEF OwnInv

\* The task of a worker inside execute_task is its own, and active on its agent
\* only, until it is released.
LEMMA HeldBy ==
    ASSUME TypeOK, HoldInv, OwnInv, NEW w \in Workers, Engaged(w)
    PROVE  /\ worker[w].task \in Tasks /\ worker[w].agent \in Agents
           /\ worker[w] \in WorkerStates
           /\ \A v \in Workers \ {w} : worker[v].task # worker[w].task
           /\ ~Free(worker[w].task)
           /\ worker[w].pc # "aggregate" =>
                \A a \in Agents : worker[w].task \in active[a] <=> a = worker[w].agent
BY DEF TypeOK, WorkerTypes, HoldInv, OneWorker, OwnInv, WorkerOwns, TaskOwned, Free

\* The task of a worker that calls execute_task is active and nobody else's.
LEMMA CallOwnInv ==
    ASSUME TypeOK, OwnInv, NEW w \in Workers, NEW t \in Tasks, NEW a \in Agents,
           ExecuteCall(w, t, a), t \in active[a], worker[w].task = NoTask,
           \A v \in Workers : worker[v].task # t
    PROVE  OwnInv'
<1>1. /\ UNCHANGED <<status, error, queuedIds, submitter, canceller, assignedTo, born, active>>
      /\ worker'[w].pc = "enter" /\ worker'[w].task = t /\ worker'[w].agent = a
      /\ \A v \in Workers \ {w} : worker'[v] = worker[v]
  BY DEF ExecuteCall, IdleWorker, taskVars, queueVars, creationVars, agentVars, TypeOK, WorkerTypes
<1>2. ~Free(t) /\ ~Free(t)'
  BY <1>1 DEF Free
<1>3. TaskOwned(t) /\ status[t] \in {"ASSIGNED", "RETRYING", "CANCELLED"}
  BY DEF OwnInv, TaskOwned
<1>4. WorkerOwns(w)'
  BY <1>1, <1>3 DEF WorkerOwns, Expected
<1>5. TaskOwned(t)'
  BY <1>1, <1>2, <1>3 DEF TaskOwned, Taking, Registry, Recording
<1> QED
  BY <1>1, <1>2, <1>4, <1>5, ElsewhereOwned

\* The steps between the call and the release leave the task where it is: what
\* they do to its status is what the next region expects.
LEMMA WorkExpected ==
    ASSUME TypeOK, RegionInv, HoldInv, OwnInv, ~ForcedFallback, NEW w \in Workers,
           \/ Enter(w) \/ Resume(w) \/ Run(w) \/ Complete(w) \/ Handle(w) \/ Spend(w)
           \/ Test(w) \/ Check(w) \/ Write(w) \/ Settle(w)
    PROVE  LET t == worker[w].task IN
           /\ worker'[w].pc \notin {"idle", "aggregate"}
           /\ status'[t] \in Expected(worker'[w].pc, worker'[w].to)
           /\ worker'[w].pc = "finally" /\ status'[t] # "CANCELLED" =>
                    (worker'[w].exc = "none" <=> status'[t] = "COMPLETED")
           /\ status'[t] \in {"RUNNING", "RETRYING", "COMPLETED", "FAILED", "CANCELLED"} \cup {status[t]}
           /\ status'[t] = "COMPLETED" => \/ ~error'[t]
                                          \/ worker'[w].pc = "settle"
<1>0. Engaged(w)
  BY DEF Enter, Resume, Run, Complete, Handle, Spend, Test, Check, Write, Settle, Engaged
<1>1. PICK t \in Tasks : t = worker[w].task
  BY <1>0, HeldBy
<1>2. /\ worker \in [Workers -> WorkerStates] /\ worker[w] \in WorkerStates
      /\ status \in [Tasks -> Statuses] /\ error \in [Tasks -> BOOLEAN]
      /\ InRegion(w) /\ status[t] \in Expected(worker[w].pc, worker[w].to)
      /\ status[t] = "COMPLETED" => ~error[t] \/ worker[w].pc = "settle"
  <2>1. status[t] = "COMPLETED" => ~error[t] \/ worker[w].pc = "settle"
    BY <1>1 DEF OwnInv, TaskOwned, HoldInv, OneWorker
  <2> QED
    BY <1>0, <1>1, <2>1, HeldBy DEF TypeOK, WorkerTypes, TaskTypes, RegionInv, OwnInv, WorkerOwns
<1> USE <1>1, <1>2 DEF taskVars
<1>3. CASE Enter(w)
  <2>1. /\ UNCHANGED <<status, error>> /\ worker[w].pc = "enter"
        /\ \/ worker'[w].pc = "check" /\ worker'[w].to = "RUNNING"
           \/ worker'[w].pc = "resume" /\ status[t] \notin {"ASSIGNED", "RETRYING"}
    BY <1>3 DEF Enter, Transition, Goto, WorkerStates
  <2> QED
    BY <2>1 DEF Expected
<1>4. CASE Resume(w) \/ Run(w)
  <2>1. /\ UNCHANGED <<status, error>> /\ worker[w].pc \in {"resume", "running"}
        /\ worker'[w].pc \in {"running", "handler", "complete"}
    BY <1>4 DEF Resume, Run, Goto, GotoHandler, WorkerStates
  <2> QED
    BY <2>1 DEF Expected
<1>5. CASE Complete(w)
  <2>1. /\ UNCHANGED <<status, error>> /\ worker[w].pc = "complete"
        /\ \/ worker'[w].pc = "write" /\ worker'[w].to = "COMPLETED"
           \/ worker'[w].pc = "handler"
    BY <1>5 DEF Complete, Transition, GotoHandler, WorkerStates
  <2> QED
    BY <2>1 DEF Expected
<1>6. CASE Handle(w)
  <2>1. /\ UNCHANGED status /\ worker[w].pc = "handler"
        /\ worker'[w].pc = HandlerStep[Outcome(w)] /\ worker'[w].to = Outcome(w)
    BY <1>6 DEF Handle, Transition, WorkerStates
  <2>2. \/ Outcome(w) = "CANCELLED" /\ HandlerStep[Outcome(w)] = "test"
        \/ Outcome(w) = "RETRYING" /\ HandlerStep[Outcome(w)] = "spend"
        \/ Outcome(w) = "FAILED" /\ HandlerStep[Outcome(w)] = "check"
    BY DEF Outcome, HandlerStep
  <2> QED
    BY <2>1, <2>2 DEF Expected
<1>7. CASE Spend(w)
  <2>1. /\ UNCHANGED <<status, error>> /\ worker[w].pc = "spend"
        /\ worker'[w].pc = "test" /\ worker'[w].to = "RETRYING"
    BY <1>7 DEF Spend, Goto, WorkerStates, InRegion
  <2> QED
    BY <2>1 DEF Expected
<1>8. CASE Test(w)
  <2>1. /\ UNCHANGED <<status, error>> /\ worker[w].pc = "test"
        /\ worker[w].to \in {"RETRYING", "FAILED", "CANCELLED"}
        /\ \/ worker'[w].pc = "settle" /\ worker'[w].to = worker[w].to /\ status[t] = worker[w].to
           \/ worker'[w].pc = "check" /\ worker'[w].to = worker[w].to /\ worker[w].to # "FAILED"
           \/ worker'[w].pc = "finally" /\ worker[w].to = "FAILED"
    BY <1>8 DEF Test, ForcedOrRaise, Goto, Transition, WorkerStates, InRegion
  <2> QED
    BY <2>1 DEF Expected
<1>9. CASE Check(w)
  <2>1. /\ UNCHANGED <<status, error>> /\ worker[w].pc = "check"
        /\ worker[w].to \in {"RUNNING", "RETRYING", "FAILED", "CANCELLED"}
        /\ \/ worker'[w].pc = "write" /\ worker'[w].to = worker[w].to
           \/ worker'[w].pc = "handler" /\ worker[w].to = "RUNNING" /\ ~CanMove(t, worker[w].to)
           \/ worker'[w].pc = "test" /\ worker'[w].to = "FAILED" /\ worker[w].to = "FAILED" /\ ~CanMove(t, worker[w].to)
           \/ worker'[w].pc = "finally" /\ worker[w].to \in {"RETRYING", "CANCELLED"} /\ ~CanMove(t, worker[w].to)
    <3>1. worker[w].to \in {"RUNNING", "RETRYING", "FAILED", "CANCELLED"}
      BY <1>0, <1>9 DEF Check, InRegion, WorkerStates, TypeOK, WorkerTypes
    <3> QED
      BY <1>9, <3>1 DEF Check, ForcedOrRaise, Goto, GotoHandler, Transition, WorkerStates
  <2> QED
    BY <2>1 DEF Expected, CanMove, Transitions
<1>10. CASE Write(w)
  <2>1. /\ UNCHANGED error /\ worker[w].pc = "write" /\ status'[t] = worker[w].to
        /\ worker[w].to \in {"RUNNING", "COMPLETED", "RETRYING", "FAILED", "CANCELLED"}
        /\ \/ worker'[w].pc = "running" /\ worker[w].to = "RUNNING"
           \/ worker'[w].pc = "settle" /\ worker'[w].to = worker[w].to /\ worker[w].to # "RUNNING"
    <3>1. worker[w].to \in {"RUNNING", "COMPLETED", "RETRYING", "FAILED", "CANCELLED"}
      BY <1>10 DEF Write, WorkerStates, TypeOK, WorkerTypes
    <3> QED
      BY <1>10, <3>1 DEF Write, Goto, Transition, WorkerStates
  <2> QED
    BY <2>1 DEF Expected
<1>11. CASE Settle(w)
  <2>1. /\ UNCHANGED status /\ worker[w].pc = "settle"
        /\ worker[w].to \in {"COMPLETED", "RETRYING", "FAILED", "CANCELLED"}
        /\ worker'[w].pc = "finally" /\ worker'[w].exc = worker[w].exc
        /\ worker[w].to = "COMPLETED" <=> worker[w].exc = "none"
        /\ worker[w].to = "COMPLETED" => ~error'[t]
    BY <1>11 DEF Settle, Transition, WorkerStates, InRegion, TypeOK, WorkerTypes
  <2> QED
    BY <2>1 DEF Expected
<1> QED
  BY <1>3, <1>4, <1>5, <1>6, <1>7, <1>8, <1>9, <1>10, <1>11

LEMMA WorkOwnInv ==
    ASSUME TypeOK, RegionInv, HoldInv, OwnInv, ~ForcedFallback, ~FreeCalls, NEW w \in Workers, Execution(w),
           \/ Enter(w) \/ Resume(w) \/ Run(w) \/ Complete(w) \/ Handle(w) \/ Spend(w)
           \/ Test(w) \/ Check(w) \/ Write(w) \/ Settle(w)
    PROVE  OwnInv'
<1>0. Engaged(w) /\ worker[w].pc # "aggregate"
  BY DEF Enter, Resume, Run, Complete, Handle, Spend, Test, Check, Write, Settle, Engaged
<1>1. PICK t \in Tasks, a \in Agents : t = worker[w].task /\ a = worker[w].agent
  BY <1>0, HeldBy
<1>2. /\ worker \in [Workers -> WorkerStates] /\ worker[w] \in WorkerStates
      /\ status \in [Tasks -> Statuses] /\ error \in [Tasks -> BOOLEAN]
      /\ \A v \in Workers \ {w} : worker[v].task # t
      /\ \A b \in Agents : t \in active[b] <=> b = a
      /\ ~Free(t) /\ TaskOwned(t)
      /\ assignedTo[t] = a /\ t \in Registry /\ status[t] # "PENDING"
  BY <1>0, <1>1, HeldBy DEF OwnInv, TaskOwned, TypeOK, WorkerTypes, TaskTypes
<1>3. UNCHANGED <<queuedIds, submitter, canceller, assignedTo, born, active>>
  BY DEF Enter, Resume, Run, Complete, Handle, Spend, Test, Check, Write, Settle,
         queueVars, creationVars, agentVars, taskVars
<1>4. /\ worker'[w].task = t /\ worker'[w].agent = a
      /\ \A v \in Workers \ {w} : worker'[v] = worker[v]
  <2>1. ~Aggregate(w) /\ \A u \in Tasks, b \in Agents : ~ExecuteCall(w, u, b)
    BY <1>0 DEF Aggregate, ExecuteCall
  <2>2. worker'[w].task = worker[w].task /\ worker'[w].agent = worker[w].agent
    BY <2>1, HoldMoves
  <2> QED
    BY <1>1, <2>2, WorkerStep
<1>5. \A u \in Tasks \ {t} : status'[u] = status[u] /\ error'[u] = error[u]
  <2>1. CASE Enter(w) \/ Resume(w) \/ Run(w) \/ Complete(w) \/ Spend(w) \/ Test(w) \/ Check(w)
    BY <2>1 DEF Enter, Resume, Run, Complete, Spend, Test, Check, taskVars
  <2>2. CASE Handle(w) \/ Write(w) \/ Settle(w)
    BY <1>1, <1>2, <2>2 DEF Handle, Write, Settle
  <2> QED
    BY <2>1, <2>2
<1>6. /\ worker'[w].pc \notin {"idle", "aggregate"}
      /\ status'[t] \in Expected(worker'[w].pc, worker'[w].to)
      /\ worker'[w].pc = "finally" /\ status'[t] # "CANCELLED" =>
            (worker'[w].exc = "none" <=> status'[t] = "COMPLETED")
      /\ status'[t] # "PENDING"
      /\ status'[t] = "COMPLETED" => ~error'[t] \/ worker'[w].pc = "settle"
  BY <1>1, <1>2, WorkExpected
<1>7. WorkerOwns(w)'
  BY <1>2, <1>3, <1>4, <1>6 DEF WorkerOwns
<1>8. TaskOwned(t)'
  <2>1. ~Free(t)' /\ t \in Registry'
    BY <1>2, <1>3, <1>4 DEF Free, Registry
  <2>2. t \in queuedIds' => \E s \in Submitters : Taking(s, t)' \/ submitter'[s].pc = "stopped"
    BY <1>2, <1>3 DEF TaskOwned, Taking
  <2> QED
    BY <1>2, <1>3, <1>4, <1>6, <2>1, <2>2 DEF TaskOwned
<1>9. {worker[w].task, worker'[w].task} \subseteq {t, NoTask}
  BY <1>1, <1>4
<1> QED
  BY <1>2, <1>3, <1>4, <1>5, <1>7, <1>8, <1>9, ElsewhereOwned

\* The finally block releases the task, which stays the worker's own.
LEMMA FinallyOwnInv ==
    ASSUME TypeOK, HoldInv, OwnInv, NEW w \in Workers, Finally(w)
    PROVE  OwnInv'
<1>0. Engaged(w) /\ worker[w].pc = "finally"
  BY DEF Finally, Engaged
<1>1. PICK t \in Tasks, a \in Agents : t = worker[w].task /\ a = worker[w].agent
  BY <1>0, HeldBy
<1>2. /\ worker \in [Workers -> WorkerStates] /\ worker[w] \in WorkerStates
      /\ active \in [Agents -> SUBSET Tasks]
      /\ \A v \in Workers \ {w} : worker[v].task # t
      /\ \A b \in Agents : t \in active[b] <=> b = a
      /\ ~Free(t) /\ TaskOwned(t) /\ WorkerOwns(w)
  BY <1>0, <1>1, HeldBy DEF OwnInv, TypeOK, WorkerTypes, AgentTypes
<1>3. /\ UNCHANGED <<status, error, queuedIds, submitter, canceller, assignedTo, born>>
      /\ active' = [active EXCEPT ![a] = @ \ {t}]
      /\ worker' = [worker EXCEPT ![w].pc = "aggregate"]
  BY <1>1 DEF Finally, Release, taskVars, creationVars, queueVars
<1>4. /\ worker'[w].pc = "aggregate" /\ worker'[w].task = t /\ worker'[w].exc = worker[w].exc
      /\ \A v \in Workers \ {w} : worker'[v] = worker[v]
  BY <1>1, <1>2, <1>3 DEF WorkerStates
<1>5. /\ \A b \in Agents : t \notin active'[b]
      /\ \A u \in Tasks \ {t} : \A b \in Agents : u \in active'[b] <=> u \in active[b]
  BY <1>2, <1>3
<1>6. /\ status[t] \in {"COMPLETED", "RETRYING", "FAILED", "CANCELLED"}
      /\ status[t] # "CANCELLED" => (worker[w].exc = "none" <=> status[t] = "COMPLETED")
  BY <1>0, <1>1, <1>2 DEF WorkerOwns, Expected
<1>7. WorkerOwns(w)'
  BY <1>3, <1>4, <1>5, <1>6 DEF WorkerOwns, Expected
<1>8. TaskOwned(t)'
  <2>1. t \in Registry' /\ (t \in queuedIds' => \E s \in Submitters : Taking(s, t)' \/ submitter'[s].pc = "stopped")
    BY <1>2, <1>3 DEF TaskOwned, Registry, Taking
  <2>2. status[t] = "COMPLETED" => ~error[t]
    BY <1>0, <1>1, <1>2 DEF TaskOwned
  <2> QED
    BY <1>3, <1>5, <1>6, <2>1, <2>2 DEF TaskOwned
<1>9. {worker[w].task, worker'[w].task} \subseteq {t, NoTask}
  BY <1>1, <1>4
<1> QED
  BY <1>2, <1>3, <1>4, <1>5, <1>7, <1>8, <1>9, ElsewhereOwned

\* The call returns: nobody has the task, and a retry may go back to the queue.
LEMMA AggregateOwnInv ==
    ASSUME TypeOK, HoldInv, OwnInv, NEW w \in Workers, Aggregate(w)
    PROVE  OwnInv'
<1>0. Engaged(w) /\ worker[w].pc = "aggregate"
  BY DEF Aggregate, Engaged
<1>1. PICK t \in Tasks : t = worker[w].task
  BY <1>0, HeldBy
<1>2. /\ worker \in [Workers -> WorkerStates]
      /\ \A v \in Workers \ {w} : worker[v].task # t
      /\ \A b \in Agents : t \notin active[b]
      /\ ~Free(t) /\ TaskOwned(t) /\ t \in Registry
      /\ status[t] \in {"COMPLETED", "RETRYING", "FAILED", "CANCELLED"}
  BY <1>0, <1>1, HeldBy DEF OwnInv, WorkerOwns, TaskOwned, Expected, TypeOK, WorkerTypes
<1>3. /\ UNCHANGED <<status, error, submitter, canceller, assignedTo, born, active>>
      /\ worker' = [worker EXCEPT ![w] = IdleWorker]
      /\ \A u \in Tasks \ {t} : u \in queuedIds' <=> u \in queuedIds
  BY <1>1 DEF Aggregate, QueueIfAbsent, taskVars, creationVars, agentVars, queueVars
<1>4. /\ worker'[w].pc = "idle" /\ worker'[w].task = NoTask
      /\ \A v \in Workers \ {w} : worker'[v] = worker[v]
  BY <1>2, <1>3 DEF IdleWorker
<1>5. WorkerOwns(w)'
  BY <1>4 DEF WorkerOwns, Engaged
<1>6. TaskOwned(t)'
  <2>1. Free(t)' /\ t \in Registry'
    BY <1>2, <1>3, <1>4, NullAssumption DEF Free, Registry
  <2>2. status[t] = "COMPLETED" => ~error[t]
    BY <1>0, <1>1, <1>2 DEF TaskOwned
  <2> QED
    BY <1>2, <1>3, <2>1, <2>2 DEF TaskOwned, Free
<1>7. {worker[w].task, worker'[w].task} \subseteq {t, NoTask}
  BY <1>1, <1>4
<1>8. ~CancelInFlight(t)
  BY DEF Aggregate, SystemFree, CancelInFlight
<1> QED
  BY <1>2, <1>3, <1>4, <1>5, <1>6, <1>7, <1>8, ElsewhereOwned

LEMMA OwnInvStep ==
    ASSUME Driven
    PROVE  TypeOK /\ RegionInv /\ QueueSound /\ HoldInv /\ OwnInv /\ [Next]_vars => OwnInv'
<1> SUFFICES ASSUME TypeOK, RegionInv, QueueSound, HoldInv, OwnInv, [Next]_vars PROVE OwnInv'
  OBVIOUS
<1>1. ASSUME NEW w \in Workers, Execution(w) PROVE OwnInv'
  <2>1. CASE \E t \in Tasks, a \in Agents : ExecuteCall(w, t, a)
    <3>1. ~Aggregate(w) /\ ~Engaged(w)
      BY <2>1 DEF ExecuteCall, Aggregate, Engaged
    <3> QED
      BY <1>1, <3>1, HoldMoves, CallOwnInv DEF Driven
  <2>2. CASE Finally(w) \/ Aggregate(w)
    BY <2>2, FinallyOwnInv, AggregateOwnInv
  <2> QED
    BY <1>1, <2>1, <2>2, WorkOwnInv DEF Execution, Driven
<1>2. ASSUME NEW s \in Submitters, Submission(s) PROVE OwnInv'
  BY <1>2, SubmissionOwnInv DEF Driven
<1> QED
  BY <1>1, <1>2, OutsideOwnInv DEF Next

LEMMA OwnInvCorrect ==
    ASSUME Driven
    PROVE  Spec => [](TypeOK /\ RegionInv /\ HoldInv /\ OwnInv)
<1>1. Spec => []HoldInv
  BY HoldCorrect DEF Driven
<1> QED
  BY <1>1, InitOwnInv, OwnInvStep, QueueCorrect, RegionCorrect, TypeCorrect, PTL DEF Spec

\* With one scheduler thread as the only one that submits, and workers that
\* execute what is active on their agents, a task is active on one agent at
\* most, whatever is cancelled, suspended, removed or fails, and it is there
\* that an ASSIGNED or RUNNING task is.
THEOREM OwnershipCorrect == ASSUME Driven PROVE Spec => []Ownership
<1>1. TypeOK /\ OwnInv => Ownership
  <2> SUFFICES ASSUME TypeOK, OwnInv, NEW t \in Tasks
               PROVE  /\ Cardinality(Holders(t)) <= 1
                      /\ \/ status[t] \notin {"ASSIGNED", "RUNNING"}
                         \/ \E s \in Submitters : submitter[s].pc = "record" /\ submitter[s].task = t
                         \/ assignedTo[t] # NoAgent /\ t \in active[assignedTo[t]]
    BY DEF Ownership
  <2>1. TaskOwned(t)
    BY DEF OwnInv
  <2>2. Holders(t) \subseteq {assignedTo[t]}
    BY <2>1 DEF TaskOwned, Holders
  <2>3. Cardinality(Holders(t)) <= 1
    <3>1. Holders(t) = {} \/ Holders(t) = {assignedTo[t]}
      BY <2>2
    <3>2. Cardinality({}) = 0 /\ Cardinality({assignedTo[t]}) = 1
      BY FS_EmptySet, FS_Singleton
    <3> QED
      BY <3>1, <3>2
  <2> QED
    BY <2>1, <2>3, NullAssumption DEF TaskOwned, Recording
<1> QED
  BY <1>1, OwnInvCorrect, PTL

\* A task that completes shows no error: no handler of another call comes after
\* its success, because there is no other call for it.
THEOREM CleanCorrect == ASSUME Driven PROVE Spec => []CompletedIsClean
<1>1. OwnInv => CompletedIsClean
  BY DEF OwnInv, TaskOwned, CompletedIsClean
<1> QED
  BY <1>1, OwnInvCorrect, PTL

-----------------------------------------------------------------------------
(* The order of dependencies                                               *)

\* A ready task of the registry, whose dependencies nobody is about to move.
ReadyForGood(t) ==
    /\ t \in Registry
    /\ \A d \in deps[t] : d \in Registry /\ status[d] = "COMPLETED" /\ Intended(d) = {}

\* Past the look at the dependencies.
Committed(t) ==
    \/ status[t] \notin {"PENDING", "CANCELLED"}
    \/ \E a \in Agents : t \in active[a]
    \/ \E w \in Workers : worker[w].task = t
    \/ \E s \in Submitters :
        \/ submitter[s].phase = "retry" /\ t \in submitter[s].todo
        \/ /\ submitter[s].pc \in {"submit", "assign", "check", "write", "record", "dequeue"}
           /\ submitter[s].task = t

DependencyInv == \A t \in Tasks : Committed(t) => ReadyForGood(t)

\* What a task depends on is settled when it is created.
LEMMA DependenciesStay ==
    ASSUME TypeOK, [Next]_vars, NEW t \in Registry
    PROVE  t \in Registry' /\ deps'[t] = deps[t]
<1> USE DEF taskVars, creationVars, queueVars, resultVars, agentVars
<1>1. CASE UNCHANGED <<born, deps>>
  BY <1>1 DEF Registry
<1>2. ASSUME NEW u \in Tasks, CreateTask(u) PROVE t \in Registry' /\ deps'[t] = deps[t]
  <2>1. u # t /\ t \in Tasks
    BY <1>2 DEF CreateTask, Registry
  <2>2. born'[t] = born[t] /\ deps'[t] = deps[t]
    BY <1>2, <2>1 DEF CreateTask, TypeOK, TaskTypes
  <2> QED
    BY <2>2 DEF Registry
<1>3. CASE UNCHANGED vars \/ Cancellation
  BY <1>1, <1>3 DEF vars, Cancellation, RequestCancel, CancelCheck, CancelWrite
<1>4. CASE \/ \E u \in Tasks : Cancel(u) \/ RetryComesDue(u)
           \/ \E a \in Agents : RemoveAgent(a) \/ AddAgent(a) \/ SetSuspended(a)
  BY <1>1, <1>4 DEF Cancel, RetryComesDue, RemoveAgent, AddAgent, SetSuspended
<1>5. ASSUME NEW s \in Submitters, Submission(s) PROVE UNCHANGED <<born, deps>>
  BY <1>5 DEF Submission, DispatchSnapshot, NextCandidate, EndOfSnapshot, ClientSubmit,
              ChooseAgent, Assign, AssignCheck, AssignWrite, Record, Dequeue
<1>6. ASSUME NEW w \in Workers, Execution(w) PROVE UNCHANGED <<born, deps>>
  BY <1>6 DEF Execution, ExecuteCall, Enter, Resume, Run, Complete, Handle, Spend, Test, Check,
              Write, Settle, Finally, Aggregate
<1> QED
  BY <1>1, <1>2, <1>3, <1>4, <1>5, <1>6 DEF Next, Operator

LEMMA ReadyStays ==
    ASSUME TypeOK, RegionInv, ~ForcedFallback, [Next]_vars, NEW t \in Tasks, ReadyForGood(t)
    PROVE  ReadyForGood(t)'
<1>1. t \in Registry' /\ deps'[t] = deps[t]
  BY DependenciesStay DEF ReadyForGood
<1>2. ASSUME NEW d \in deps[t]
      PROVE  d \in Registry' /\ status'[d] = "COMPLETED" /\ Intended(d)' = {}
  <2>1. d \in Registry /\ d \in Tasks /\ Settled(d)
    BY DEF ReadyForGood, Registry, Settled, Terminal
  <2> QED
    BY <2>1, SettledStep, DependenciesStay DEF ReadyForGood, Settled
<1> QED
  BY <1>1, <1>2 DEF ReadyForGood

\* While no one is inside cancel_task, nobody is about to move what has completed.
LEMMA CompletedQuiet ==
    ASSUME TypeOK, RegionInv, OwnInv, SystemFree, NEW t \in Tasks, status[t] = "COMPLETED"
    PROVE  Intended(t) = {}
<1>1. Writers(t) = {}
  BY DEF Writers, OwnInv, WorkerOwns, Expected, Engaged
<1>2. Assigners(t) = {}
  BY DEF Assigners, OwnInv, SchedulerOwns
<1>3. ~CancelInFlight(t)
  BY DEF CancelInFlight, SystemFree
<1> QED
  BY <1>1, <1>2, <1>3, IntendedParts DEF Granted

\* A task is committed by the scheduler's look at its dependencies only.
LEMMA OnlyReadyCommits ==
    ASSUME TypeOK, RegionInv, HoldInv, OwnInv, Driven, [Next]_vars,
           NEW t \in Tasks, ~Committed(t), Committed(t)'
    PROVE  ReadyForGood(t)
<1>0. /\ status \in [Tasks -> Statuses] /\ worker \in [Workers -> WorkerStates]
      /\ submitter \in [Submitters -> SubmitterStates] /\ active \in [Agents -> SUBSET Tasks]
  BY DEF TypeOK, TaskTypes, WorkerTypes, SubmitterTypes, AgentTypes
<1>1. status'[t] \in {"PENDING", "CANCELLED"}
  <2> SUFFICES ASSUME status'[t] \notin {"PENDING", "CANCELLED"} PROVE FALSE
    OBVIOUS
  <2>1. status[t] # status'[t]
    BY DEF Committed
  <2> QED
    BY <1>0, <2>1, StatusWriters DEF CancelWrite, AssignWrite, Write, Committed
<1>2. ASSUME NEW w \in Workers, worker'[w].task = t PROVE FALSE
  <2>1. Execution(w) /\ worker[w].task # t
    BY <1>2, WorkerSteps DEF Committed
  <2>2. ~Aggregate(w)
    BY <1>0, <1>2, NullAssumption DEF Aggregate, IdleWorker
  <2>3. ASSUME NEW u \in Tasks, NEW a \in Agents, ExecuteCall(w, u, a) PROVE FALSE
    <3>1. u = t
      BY <1>0, <1>2, <2>3 DEF ExecuteCall, IdleWorker
    <3> QED
      BY <2>3, <3>1 DEF ExecuteCall, Driven, Committed
  <2> QED
    BY <1>2, <2>1, <2>2, <2>3, WorkerStep
<1>3. ASSUME NEW a \in Agents, t \in active'[a] PROVE FALSE
  <2>1. t \notin active[a]
    BY DEF Committed
  <2>2. CASE \E s \in Submitters : Record(s)
    BY <1>0, <1>3, <2>1, <2>2 DEF Record, Committed
  <2>3. CASE \E w \in Workers : Finally(w)
    BY <1>0, <1>3, <2>1, <2>3 DEF Finally, Release
  <2>4. CASE UNCHANGED active
    BY <1>3, <2>1, <2>4
  <2> QED
    BY <2>2, <2>3, <2>4, ActiveWriters
<1>4. PICK s \in Submitters :
        \/ submitter'[s].phase = "retry" /\ t \in submitter'[s].todo
        \/ /\ submitter'[s].pc \in {"submit", "assign", "check", "write", "record", "dequeue"}
           /\ submitter'[s].task = t
  BY <1>1, <1>2, <1>3 DEF Committed
<1>5. /\ ~(submitter[s].phase = "retry" /\ t \in submitter[s].todo)
      /\ ~(/\ submitter[s].pc \in {"submit", "assign", "check", "write", "record", "dequeue"}
           /\ submitter[s].task = t)
  BY DEF Committed
<1>6. Submission(s)
  <2>1. submitter'[s] # Raise(s)
    BY <1>4 DEF Raise, IdleSubmitter
  <2> QED
    BY <1>4, <1>5, <2>1, SubmitterSteps
<1>7. ~EndOfSnapshot(s)
  BY <1>0, <1>4 DEF EndOfSnapshot, Iterate, IdleSubmitter, Committed
<1>8. ~DispatchSnapshot(s)
  BY <1>0, <1>4 DEF DispatchSnapshot, Iterate
<1>9. ~(ChooseAgent(s) \/ Assign(s) \/ AssignCheck(s) \/ AssignWrite(s) \/ Record(s) \/ Dequeue(s))
  <2>1. Record(s) => submitter'[s] = Raise(s) \/ submitter'[s] = [submitter[s] EXCEPT !.pc = "dequeue"]
    BY <1>0 DEF Record
  <2>2. ~Record(s)
    BY <1>0, <1>4, <1>5, <2>1 DEF Record, Raise, IdleSubmitter, SubmitterStates
  <2> QED
    BY <1>0, <1>4, <1>5, <2>2 DEF ChooseAgent, Assign, AssignCheck, AssignWrite, Dequeue, Return, SubmitterStates
<1>10. \A u \in Tasks, a \in Agents \cup {NoAgent} : ~ClientSubmit(s, u, a)
  BY DEF Driven, ClientSubmit
<1>11. PICK u \in Tasks : NextCandidate(s, u)
  BY <1>6, <1>7, <1>8, <1>9, <1>10 DEF Submission
<1>12. u = t /\ SystemFree /\ Ready(t) /\ t \in submitter[s].todo
  <2>1. /\ submitter'[s].phase = submitter[s].phase
        /\ submitter'[s].todo = submitter[s].todo \ {u} /\ submitter'[s].task = u
        /\ u \in submitter[s].todo
    BY <1>0, <1>11 DEF NextCandidate, SubmitterStates
  <2> QED
    BY <1>0, <1>4, <1>5, <1>11, <2>1 DEF NextCandidate, SubmitterStates
<1>13. t \in Registry
  BY <1>12 DEF OwnInv, SchedulerOwns
<1>14. ASSUME NEW d \in deps[t] PROVE d \in Registry /\ status[d] = "COMPLETED" /\ Intended(d) = {}
  BY <1>12, CompletedQuiet DEF Ready, Registry
<1> QED
  BY <1>13, <1>14 DEF ReadyForGood

LEMMA DependencyStep ==
    ASSUME Driven
    PROVE  TypeOK /\ RegionInv /\ HoldInv /\ OwnInv /\ DependencyInv /\ [Next]_vars => DependencyInv'
BY ReadyStays, OnlyReadyCommits DEF Driven, DependencyInv

\* No task is assigned before its dependencies have completed, however stale the
\* snapshot it was taken from, and none of them is moved afterwards by a
\* cancellation or an execution that overtook it.
THEOREM DependencyCorrect == ASSUME Driven PROVE Spec => []DependencyOrder
<1>1. Init => DependencyInv
  BY NullAssumption DEF Init, DependencyInv, Committed, IdleWorker, IdleSubmitter
<1>2. DependencyInv => DependencyOrder
  BY DEF DependencyInv, Committed, ReadyForGood, DependencyOrder
<1> QED
  BY <1>1, <1>2, DependencyStep, OwnInvCorrect, PTL DEF Spec

-----------------------------------------------------------------------------
(* The results: what is over and in no worker's hands has been counted     *)

Outcomes == {"COMPLETED", "FAILED"}

Reported(o) == {t \in Tasks : status[t] = o /\ \A w \in Workers : worker[w].task # t}

SuccessInv ==
    /\ completedIds = Reported("COMPLETED")
    /\ IsFiniteSet(completedIds)
    /\ successful = Cardinality(completedIds)

FailureInv ==
    /\ IsFiniteSet(Reported("FAILED"))
    /\ failed = Cardinality(Reported("FAILED"))

\* A reported task is out of reach: cancel_task has not consulted the table
\* while it had no outcome yet, and no agent has it.
LEMMA ReportedStays ==
    ASSUME TypeOK, HoldInv, OwnInv, Driven, [Next]_vars, NEW o \in Outcomes, NEW t \in Reported(o)
    PROVE  t \in Reported(o)'
<1>0. /\ status \in [Tasks -> Statuses] /\ worker \in [Workers -> WorkerStates]
      /\ t \in Tasks /\ status[t] = o /\ \A w \in Workers : worker[w].task # t
  BY DEF TypeOK, TaskTypes, WorkerTypes, Reported
<1>1. status'[t] = o
  <2>1. CASE CancelWrite
    <3>1. canceller.pc = "write" /\ status' = [status EXCEPT ![canceller.task] = "CANCELLED"]
      BY <2>1 DEF CancelWrite
    <3>2. canceller.task = t => CancelInFlight(t)
      BY <3>1 DEF CancelInFlight, TypeOK, CancellerTypes, CancellerStates
    <3>3. canceller.task # t
      BY <1>0, <3>2 DEF OwnInv, CancelOwns, Outcomes
    <3> QED
      BY <1>0, <3>1, <3>3
  <2>2. ASSUME NEW s \in Submitters, AssignWrite(s) PROVE status'[t] = o
    <3>1. submitter[s].task # t
      BY <1>0, <2>2 DEF AssignWrite, OwnInv, SchedulerOwns, Outcomes
    <3> QED
      BY <1>0, <2>2, <3>1 DEF AssignWrite
  <2>3. ASSUME NEW w \in Workers, Write(w) PROVE status'[t] = o
    BY <1>0, <2>3 DEF Write
  <2> QED
    BY <1>0, <2>1, <2>2, <2>3, StatusWriters
<1>2. ASSUME NEW w \in Workers, worker'[w].task = t PROVE FALSE
  <2>1. Execution(w)
    BY <1>0, <1>2, WorkerSteps
  <2>2. ~Aggregate(w)
    BY <1>0, <1>2, NullAssumption DEF Aggregate, IdleWorker
  <2>3. ASSUME NEW u \in Tasks, NEW a \in Agents, ExecuteCall(w, u, a) PROVE FALSE
    <3>1. u = t
      BY <1>0, <1>2, <2>3 DEF ExecuteCall, IdleWorker
    <3>2. t \in active[a]
      BY <2>3, <3>1 DEF ExecuteCall, Driven
    <3> QED
      BY <1>0, <3>2 DEF OwnInv, TaskOwned, Outcomes
  <2> QED
    BY <1>0, <1>2, <2>1, <2>2, <2>3, WorkerStep
<1> QED
  BY <1>0, <1>1, <1>2 DEF Reported

\* A task is reported by the end of the call that brought it to its outcome.
LEMMA OnlyAggregateReports ==
    ASSUME TypeOK, HoldInv, [Next]_vars, NEW o \in Outcomes, NEW t \in Reported(o)', t \notin Reported(o)
    PROVE  \E w \in Workers : Aggregate(w) /\ worker[w].task = t /\ status[t] = o
<1>0. /\ status \in [Tasks -> Statuses] /\ worker \in [Workers -> WorkerStates]
      /\ t \in Tasks /\ status'[t] = o /\ \A w \in Workers : worker'[w].task # t
  BY DEF TypeOK, TaskTypes, WorkerTypes, Reported
<1>1. status[t] = o
  <2> SUFFICES ASSUME status[t] # o PROVE FALSE
    OBVIOUS
  <2>1. PICK w \in Workers : Write(w)
    BY <1>0, StatusWriters DEF CancelWrite, AssignWrite, Outcomes
  <2>2. worker[w].task = t /\ worker'[w].task = worker[w].task
    BY <1>0, <2>1 DEF Write, Transition, Goto, WorkerStates
  <2> QED
    BY <1>0, <2>2
<1>2. PICK w \in Workers : worker[w].task = t
  BY <1>0, <1>1 DEF Reported
<1>3. Execution(w) /\ Engaged(w)
  BY <1>0, <1>2, WorkerSteps, NullAssumption DEF HoldInv
<1>4. Aggregate(w)
  BY <1>0, <1>2, <1>3, WorkerStep DEF ExecuteCall
<1> QED
  BY <1>1, <1>2, <1>4

\* What Aggregate does to what is reported and to the counters.
LEMMA AggregateReports ==
    ASSUME TypeOK, HoldInv, OwnInv, Driven, [Next]_vars, NEW w \in Workers, Aggregate(w)
    PROVE  LET t == worker[w].task IN
           /\ \A o \in Outcomes : Reported(o)' = IF status[t] = o THEN Reported(o) \cup {t} ELSE Reported(o)
           /\ \A o \in Outcomes : t \notin Reported(o)
           /\ t \in Tasks
           /\ IF status[t] = "COMPLETED" THEN AddCompleted(t) /\ successful' = successful + 1
              ELSE UNCHANGED <<completedIds, successful>>
           /\ failed' = IF status[t] = "FAILED" THEN failed + 1 ELSE failed
<1>1. PICK t \in Tasks : t = worker[w].task
  BY HeldBy DEF Aggregate, Engaged
<1>2. \A v \in Workers \ {w} : worker'[v] = worker[v] /\ worker[v].task # t
  BY <1>1, HeldBy, WorkerStep DEF Aggregate, Engaged, Execution
<1>3. worker'[w].task = NoTask /\ UNCHANGED status
  BY <1>1 DEF Aggregate, IdleWorker, TypeOK, WorkerTypes, taskVars
<1>4. /\ worker[w].pc = "aggregate" /\ status[t] \in {"COMPLETED", "RETRYING", "FAILED", "CANCELLED"}
      /\ status[t] # "CANCELLED" => (worker[w].exc = "none" <=> status[t] = "COMPLETED")
  BY <1>1 DEF Aggregate, OwnInv, WorkerOwns, Engaged, Expected
<1>5. \A o \in Outcomes : t \notin Reported(o)
  BY <1>1 DEF Reported
<1>6. \A o \in Outcomes : Reported(o)' = IF status[t] = o THEN Reported(o) \cup {t} ELSE Reported(o)
  <2> SUFFICES ASSUME NEW o \in Outcomes, NEW u \in Tasks
               PROVE  u \in Reported(o)' <=> u \in Reported(o) \/ (u = t /\ status[t] = o)
    <3>1. \A o \in Outcomes : Reported(o) \subseteq Tasks /\ Reported(o)' \subseteq Tasks
      BY DEF Reported
    <3> QED
      BY <1>1, <3>1
  <2>1. CASE u = t
    <3>1. \A v \in Workers : worker'[v].task # t
      BY <1>1, <1>2, <1>3, NullAssumption
    <3> QED
      BY <1>3, <1>5, <2>1, <3>1 DEF Reported
  <2>2. CASE u # t
    <3>1. \A v \in Workers : worker'[v].task = u <=> worker[v].task = u
      BY <1>1, <1>2, <1>3, <2>2, NullAssumption
    <3> QED
      BY <1>3, <2>2, <3>1 DEF Reported
  <2> QED
    BY <2>1, <2>2
<1>7. /\ IF status[t] = "COMPLETED" THEN AddCompleted(t) /\ successful' = successful + 1
         ELSE UNCHANGED <<completedIds, successful>>
      /\ failed' = IF status[t] = "FAILED" THEN failed + 1 ELSE failed
  BY <1>1, <1>4 DEF Aggregate, resultVars
<1> QED
  BY <1>1, <1>5, <1>6, <1>7

LEMMA ResultStep ==
    ASSUME Driven
    PROVE  TypeOK /\ HoldInv /\ OwnInv /\ SuccessInv /\ FailureInv /\ [Next]_vars
                => SuccessInv' /\ FailureInv'
<1> SUFFICES ASSUME TypeOK, HoldInv, OwnInv, SuccessInv, FailureInv, [Next]_vars
             PROVE  SuccessInv' /\ FailureInv'
  OBVIOUS
<1>1. ASSUME NEW w \in Workers, Aggregate(w) PROVE SuccessInv' /\ FailureInv'
  <2>1. PICK t \in Tasks : t = worker[w].task
    BY <1>1, AggregateReports
  <2>2. /\ \A o \in Outcomes : Reported(o)' = IF status[t] = o THEN Reported(o) \cup {t} ELSE Reported(o)
        /\ \A o \in Outcomes : t \notin Reported(o)
        /\ IF status[t] = "COMPLETED" THEN AddCompleted(t) /\ successful' = successful + 1
           ELSE UNCHANGED <<completedIds, successful>>
        /\ failed' = IF status[t] = "FAILED" THEN failed + 1 ELSE failed
    BY <1>1, <2>1, AggregateReports
  <2>3. SuccessInv'
    <3>1. CASE status[t] = "COMPLETED"
      <4>1. /\ Reported("COMPLETED")' = completedIds \cup {t} /\ t \notin completedIds
            /\ completedIds' = completedIds \cup {t} /\ successful' = successful + 1
        BY <2>2, <3>1 DEF Outcomes, SuccessInv, AddCompleted
      <4>2. IsFiniteSet(completedIds') /\ Cardinality(completedIds') = Cardinality(completedIds) + 1
        BY <4>1, FS_AddElement DEF SuccessInv
      <4> QED
        BY <4>1, <4>2 DEF SuccessInv
    <3>2. CASE status[t] # "COMPLETED"
      BY <2>2, <3>2 DEF Outcomes, SuccessInv
    <3> QED
      BY <3>1, <3>2
  <2>4. FailureInv'
    <3>1. CASE status[t] = "FAILED"
      <4>1. /\ Reported("FAILED")' = Reported("FAILED") \cup {t} /\ t \notin Reported("FAILED")
            /\ failed' = failed + 1
        BY <2>2, <3>1 DEF Outcomes
      <4>2. IsFiniteSet(Reported("FAILED")') /\ Cardinality(Reported("FAILED")') = Cardinality(Reported("FAILED")) + 1
        BY <4>1, FS_AddElement DEF FailureInv
      <4> QED
        BY <4>1, <4>2 DEF FailureInv
    <3>2. CASE status[t] # "FAILED"
      BY <2>2, <3>2 DEF Outcomes, FailureInv
    <3> QED
      BY <3>1, <3>2
  <2> QED
    BY <2>3, <2>4
<1>2. CASE \A w \in Workers : ~Aggregate(w)
  <2>1. ASSUME NEW o \in Outcomes PROVE Reported(o)' = Reported(o)
    BY <1>2, ReportedStays, OnlyAggregateReports
  <2>2. UNCHANGED <<completedIds, successful, failed>>
    <3> USE DEF resultVars
    <3>1. CASE UNCHANGED vars \/ Operator \/ Cancellation
      BY <3>1 DEF vars, Operator, CreateTask, Cancel, RetryComesDue, RemoveAgent, AddAgent,
                  SetSuspended, Cancellation, RequestCancel, CancelCheck, CancelWrite
    <3>2. ASSUME NEW s \in Submitters, Submission(s) PROVE UNCHANGED <<completedIds, successful, failed>>
      BY <3>2 DEF Submission, DispatchSnapshot, NextCandidate, EndOfSnapshot, ClientSubmit,
                  ChooseAgent, Assign, AssignCheck, AssignWrite, Record, Dequeue
    <3>3. ASSUME NEW w \in Workers, Execution(w) PROVE UNCHANGED <<completedIds, successful, failed>>
      BY <1>2, <3>3 DEF Execution, ExecuteCall, Enter, Resume, Run, Complete, Handle, Spend, Test,
                        Check, Write, Settle, Finally
    <3> QED
      BY <3>1, <3>2, <3>3 DEF Next
  <2> QED
    BY <2>1, <2>2 DEF SuccessInv, FailureInv, Outcomes
<1> QED
  BY <1>1, <1>2

LEMMA ResultCorrect ==
    ASSUME Driven
    PROVE  Spec => [](TypeOK /\ RegionInv /\ HoldInv /\ OwnInv /\ SuccessInv /\ FailureInv)
<1>1. Init => SuccessInv /\ FailureInv
  <2> SUFFICES ASSUME Init PROVE SuccessInv /\ FailureInv
    OBVIOUS
  <2>1. Reported("COMPLETED") = {} /\ Reported("FAILED") = {} /\ completedIds = {} /\ successful = 0 /\ failed = 0
    BY DEF Init, Reported
  <2> QED
    BY <2>1, FS_EmptySet DEF SuccessInv, FailureInv
<1> QED
  BY <1>1, ResultStep, OwnInvCorrect, PTL DEF Spec

\* The tasks with an outcome that are not reported, and the workers that are
\* going to report them, are paired off.
LEMMA OutcomesCounted ==
    ASSUME TypeOK, RegionInv, HoldInv, OwnInv, IsFiniteSet(Workers),
           NEW o \in Outcomes, IsFiniteSet(Reported(o))
    PROVE  Cardinality(Reported(o)) + Cardinality(Unreported(o)) = Cardinality(TasksIn(o))
<1> DEFINE U == Unreported(o)
<1> DEFINE T == TasksIn(o) \ Reported(o)
<1> DEFINE f == [w \in U |-> worker[w].task]
<1>1. ASSUME NEW w \in U PROVE worker[w].task \in T
  <2>1. Engaged(w) /\ w \in Workers /\ status[worker[w].task] = o
    BY DEF Unreported, Engaged
  <2>2. worker[w].task \in Tasks
    BY <2>1, HeldBy
  <2> QED
    BY <2>1, <2>2 DEF TasksIn, Reported
<1>2. ASSUME NEW t \in T PROVE \E w \in U : worker[w].task = t
  <2>1. PICK w \in Workers : worker[w].task = t
    BY DEF TasksIn, Reported
  <2>2. t \in Tasks /\ status[t] = o /\ Engaged(w)
    BY <2>1, NullAssumption DEF TasksIn, HoldInv
  <2>3. /\ o \in Expected(worker[w].pc, worker[w].to) /\ InRegion(w)
        /\ worker[w].pc \in {"finally", "aggregate"} => (worker[w].exc = "none" <=> o = "COMPLETED")
        /\ worker[w].pc \in {"settle", "finally", "aggregate", "resume", "enter", "running", "complete",
                             "handler", "spend", "test", "check", "write"}
    BY <2>1, <2>2, HeldBy DEF OwnInv, WorkerOwns, RegionInv, Outcomes, WorkerStates, Engaged
  <2>4. worker[w].pc \in {"settle", "finally", "aggregate"} /\ (worker[w].exc = "none" <=> o = "COMPLETED")
    BY <2>3 DEF Expected, InRegion, Outcomes
  <2>5. w \in U
    BY <2>1, <2>2, <2>4 DEF Unreported
  <2> QED
    BY <2>1, <2>5
<1>3. \A v, w \in U : worker[v].task = worker[w].task => v = w
  BY <1>1 DEF Unreported, HoldInv, OneWorker, TasksIn
<1>4. IsFiniteSet(U) /\ Cardinality(U) \in Nat
  BY FS_Subset, FS_CardinalityType DEF Unreported
<1>5. IsFiniteSet(T) /\ Cardinality(T) = Cardinality(U)
  <2>1. f \in Bijection(U, T)
    <3>1. f \in [U -> T]
      BY <1>1
    <3>2. \A v, w \in U : f[v] = f[w] => v = w
      BY <1>3
    <3>3. \A t \in T : \E w \in U : f[w] = t
      BY <1>2
    <3> HIDE DEF f, U, T
    <3> QED
      BY <3>1, <3>2, <3>3 DEF Bijection, Injection, Surjection, IsInjective
  <2> HIDE DEF f, U, T
  <2> QED
    BY <1>4, <2>1, FS_Bijection DEF ExistsBijection
<1>6. T \cap Reported(o) = {} /\ TasksIn(o) = T \cup Reported(o)
  BY DEF Reported, TasksIn
<1>7. Cardinality(T \cup Reported(o)) = Cardinality(T) + Cardinality(Reported(o))
  <2> HIDE DEF T
  <2>1. Cardinality(T \cup Reported(o)) =
            Cardinality(T) + Cardinality(Reported(o)) - Cardinality(T \cap Reported(o))
    BY <1>5, FS_Union
  <2>2. /\ Cardinality(T) \in Nat /\ Cardinality(Reported(o)) \in Nat
        /\ Cardinality(T \cap Reported(o)) = 0
    BY <1>5, <1>6, FS_CardinalityType, FS_EmptySet
  <2> QED
    BY <2>1, <2>2
<1>8. Cardinality(Reported(o)) \in Nat
  BY FS_CardinalityType
<1> HIDE DEF T, U
<1>9. Cardinality(Reported(o)) + Cardinality(U) = Cardinality(TasksIn(o))
  BY <1>4, <1>5, <1>6, <1>7, <1>8
<1> QED
  BY <1>9 DEF U

\* Every completed task is counted once, although cancel_task may overwrite a
\* completion and the table is consulted before it is: what is overwritten has
\* not been counted yet.
THEOREM SuccessCorrect ==
    ASSUME Driven, IsFiniteSet(Workers)
    PROVE  Spec => []SuccessAccounting
<1>1. TypeOK /\ RegionInv /\ HoldInv /\ OwnInv /\ SuccessInv => SuccessAccounting
  BY OutcomesCounted DEF SuccessInv, SuccessAccounting, Outcomes
<1> QED
  BY <1>1, ResultCorrect, PTL

\* Every failed task is counted once: the call that fails it is the one that
\* reports it, and no other call can report the same failure.
THEOREM FailureCorrect ==
    ASSUME Driven, IsFiniteSet(Workers)
    PROVE  Spec => []FailureAccounting
<1>1. TypeOK /\ RegionInv /\ HoldInv /\ OwnInv /\ FailureInv => FailureAccounting
  BY OutcomesCounted DEF FailureInv, FailureAccounting, Outcomes
<1> QED
  BY <1>1, ResultCorrect, PTL

=============================================================================
