---------------------------- MODULE AgentSystem ----------------------------
(***************************************************************************)
(* The task system of src/agents/{system,base,specialized,runtime}.py:     *)
(* clients create, submit and cancel tasks, schedulers run run_once, and   *)
(* workers call execute_task, each in a thread of its own.                 *)
(*                                                                         *)
(* AgentSystem._lock and the lock of each agent are different locks, and   *)
(* task.status is written under either, so that what was read under one may*)
(* be gone when it is used.  A region that writes a status or retry_count  *)
(* therefore is several actions, cut between a read and the write it       *)
(* decides on, with the lock held throughout; a region whose other data    *)
(* are guarded by its lock is one action.                                  *)
(***************************************************************************)
EXTENDS TaskModel, Integers, FiniteSets

CONSTANTS
    Tasks, Agents,      \* the tasks that may be created, the agents added at setup
    NoTask, NoAgent,    \* None
    Workers,            \* threads that call execute_task
    Schedulers,         \* threads that call run_once (run_forever)
    Clients,            \* threads that call submit_task themselves
    Prio,               \* [Tasks -> Nat], task.priority.value
    Capable,            \* [Tasks -> SUBSET Agents], who has the required capabilities
    MaxActive,          \* agent.max_active_tasks
    MaxRetries,         \* task.max_retries
    ResultBound,        \* no call of execute_task starts once so many were counted
    FreeCalls,          \* TRUE: execute_task is called for any task on any agent;
                        \* FALSE: for a task active there that no other worker executes
    ForcedFallback,     \* enable_forced_status_fallback, on agent and task
    HookCancels,        \* tasks whose metadata carries a cancellation_check
    Suspendable,        \* agents an operator may suspend
    Removable,          \* agents an operator may remove and add again
    NoMemory            \* agents with memory.max_episodes = 0

ASSUME NullAssumption == NoTask \notin Tasks /\ NoAgent \notin Agents
ASSUME ParameterAssumption ==
    /\ Prio \in [Tasks -> Nat]
    /\ Capable \in [Tasks -> SUBSET Agents]
    /\ MaxActive \in Nat
    /\ MaxRetries \in Nat
    /\ ResultBound \in Nat
    /\ FreeCalls \in BOOLEAN
    /\ ForcedFallback \in BOOLEAN
    /\ HookCancels \subseteq Tasks
    /\ Suspendable \subseteq Agents
    /\ Removable \subseteq Agents
    /\ NoMemory \subseteq Agents
ASSUME ThreadAssumption == Schedulers \cap Clients = {}

Submitters == Schedulers \cup Clients

VARIABLES
    status,         \* task.status
    assignedTo,     \* task.assigned_to
    retries,        \* task.retry_count
    retryDue,       \* FALSE while task.next_retry_at lies in the future
    cancelRequested,\* task.metadata["cancel_requested"]
    error,          \* task.error is set
    deps,           \* task.dependencies
    born,           \* rank of task.created_at; 0 when not in task_registry
    totalTasks,     \* system_metrics["total_tasks"]
    queued,         \* the number of entries a task has in global_task_queue
    queuedIds,      \* _queued_task_ids
    completed,      \* the number of entries a task has in completed_tasks
    completedIds,   \* _completed_task_ids
    successful,     \* system_metrics["successful_tasks"]
    failed,         \* system_metrics["failed_tasks"]
    registered,     \* AgentSystem.agents, orchestrator.managed_agents
    active,         \* agent.active_tasks
    agentStatus,    \* agent.status
    worker,         \* the threads inside execute_task
    submitter,      \* the threads inside submit_task or run_once
    canceller       \* the thread inside cancel_task, which has the system's lock

taskVars == <<status, assignedTo, retries, retryDue, cancelRequested, error>>
creationVars == <<deps, born, totalTasks>>
queueVars == <<queued, queuedIds>>
resultVars == <<completed, completedIds, successful, failed>>
agentVars == <<registered, active, agentStatus>>
vars == <<taskVars, creationVars, queueVars, resultVars, agentVars, worker, submitter, canceller>>

AgentStatuses == {"IDLE", "BUSY", "ERROR", "SUSPENDED"}

WorkerStates ==
    [pc    : {"idle", "enter", "resume", "check", "write", "running", "complete",
              "handler", "spend", "test", "settle", "finally", "aggregate"},
     task  : Tasks \cup {NoTask},
     agent : Agents \cup {NoAgent},
     exc   : {"none", "error", "cancelled"},
     \* the argument of the transition_to under way
     to    : {"none", "RUNNING", "COMPLETED", "RETRYING", "FAILED", "CANCELLED"}]

SubmitterStates ==
    [pc    : {"idle", "next", "submit", "assign", "check", "write", "record", "dequeue", "stopped"},
     phase : {"none", "dispatch", "retry", "client"},
     todo  : SUBSET Tasks,
     task  : Tasks \cup {NoTask},
     agent : Agents \cup {NoAgent}]

CancellerStates ==
    [pc   : {"idle", "request", "check", "write"},
     task : Tasks \cup {NoTask}]

IdleWorker == [pc |-> "idle", task |-> NoTask, agent |-> NoAgent, exc |-> "none", to |-> "none"]
IdleSubmitter == [pc |-> "idle", phase |-> "none", todo |-> {},
                  task |-> NoTask, agent |-> NoAgent]
IdleCanceller == [pc |-> "idle", task |-> NoTask]

\* The system right after setup: Agents added, no task created.
Init ==
    /\ status = [t \in Tasks |-> "PENDING"]
    /\ assignedTo = [t \in Tasks |-> NoAgent]
    /\ retries = [t \in Tasks |-> 0]
    /\ retryDue = [t \in Tasks |-> TRUE]
    /\ cancelRequested = [t \in Tasks |-> FALSE]
    /\ error = [t \in Tasks |-> FALSE]
    /\ deps = [t \in Tasks |-> {}]
    /\ born = [t \in Tasks |-> 0]
    /\ totalTasks = 0
    /\ queued = [t \in Tasks |-> 0]
    /\ queuedIds = {}
    /\ completed = [t \in Tasks |-> 0]
    /\ completedIds = {}
    /\ successful = 0
    /\ failed = 0
    /\ registered = Agents
    /\ active = [a \in Agents |-> {}]
    /\ agentStatus = [a \in Agents |-> "IDLE"]
    /\ worker = [w \in Workers |-> IdleWorker]
    /\ submitter = [s \in Submitters |-> IdleSubmitter]
    /\ canceller = IdleCanceller

-----------------------------------------------------------------------------
(* Locks                                                                   *)

\* The points inside a region of BaseAgent.execute_task, and of assign_task.
ExecuteRegion == {"resume", "check", "write", "spend", "test", "settle"}
AssignRegion == {"check", "write", "record"}

\* No thread is inside a region of agent a's lock ...
AgentFree(a) ==
    /\ \A w \in Workers : worker[w].agent = a => worker[w].pc \notin ExecuteRegion
    /\ \A s \in Submitters : submitter[s].agent = a => submitter[s].pc \notin AssignRegion

\* Faulty variant of SystemFree: cancel_task does not take the lock.
AlwaysFree == TRUE

\* ... or of the system's lock.  Its other regions are one action each.
SystemFree == canceller.pc = "idle"

-----------------------------------------------------------------------------
(* Tasks and the queue                                                     *)

Registry == {t \in Tasks : born[t] > 0}

\* transition_to accepts s.
CanMove(t, s) == s \in Transitions[status[t]]

\* Faulty variant of Ready: a dependency that has failed blocks nobody.
ReadyWhenTerminal(t) == \A d \in deps[t] : d \in Registry /\ status[d] \in Terminal

\* is_task_ready: every dependency has completed.
Ready(t) == \A d \in deps[t] : d \in Registry /\ status[d] = "COMPLETED"

\* Faulty variant of QueueIfAbsent: no look at _queued_task_ids.
QueueAlways(t) ==
    /\ queued' = [queued EXCEPT ![t] = @ + 1]
    /\ queuedIds' = queuedIds \cup {t}

\* Faulty variant of QueueIfAbsent: what is to be retried is not queued.
QueueIfPending(t) ==
    \/ /\ t \in queuedIds \/ status[t] # "PENDING"
       /\ UNCHANGED queueVars
    \/ /\ t \notin queuedIds /\ status[t] = "PENDING"
       /\ queued' = [queued EXCEPT ![t] = @ + 1]
       /\ queuedIds' = queuedIds \cup {t}

QueueIfAbsent(t) ==
    \/ /\ t \in queuedIds
       /\ UNCHANGED queueVars
    \/ /\ t \notin queuedIds
       /\ queued' = [queued EXCEPT ![t] = @ + 1]
       /\ queuedIds' = queuedIds \cup {t}

\* Faulty variant of RemoveFromQueue: the list keeps the task.
RemoveIdOnly(t) ==
    /\ queuedIds' = queuedIds \ {t}
    /\ UNCHANGED queued

\* Faulty variant of RemoveFromQueue: an entry is taken without a look for it.
RemoveOne(t) ==
    /\ queued' = [queued EXCEPT ![t] = @ - 1]
    /\ queuedIds' = queuedIds \ {t}

RemoveFromQueue(t) ==
    /\ queued' = [queued EXCEPT ![t] = 0]
    /\ queuedIds' = queuedIds \ {t}

\* Faulty variant of AddCompleted: no look at _completed_task_ids.
AddCompletedAlways(t) ==
    /\ completed' = [completed EXCEPT ![t] = @ + 1]
    /\ completedIds' = completedIds \cup {t}

AddCompleted(t) ==
    \/ /\ t \in completedIds
       /\ UNCHANGED <<completed, completedIds>>
    \/ /\ t \notin completedIds
       /\ completed' = [completed EXCEPT ![t] = @ + 1]
       /\ completedIds' = completedIds \cup {t}

-----------------------------------------------------------------------------
(* Calls that are one critical section                                     *)

CreateTask(t) ==
    /\ SystemFree
    /\ t \notin Registry
    /\ \E D \in SUBSET Registry : deps' = [deps EXCEPT ![t] = D]
    /\ QueueIfAbsent(t)
    /\ born' = [born EXCEPT ![t] = totalTasks + 1]
    /\ totalTasks' = totalTasks + 1
    /\ UNCHANGED <<taskVars, resultVars, agentVars, worker, submitter, canceller>>

\* The clock passes task.next_retry_at.
RetryComesDue(t) ==
    /\ ~retryDue[t]
    /\ retryDue' = [retryDue EXCEPT ![t] = TRUE]
    /\ UNCHANGED <<status, assignedTo, retries, cancelRequested, error, creationVars,
                   queueVars, resultVars, agentVars, worker, submitter, canceller>>

\* submit_task of a retry that is not due returns False.
Waiting(t) == status[t] = "RETRYING" /\ ~retryDue[t]

\* A thread whose call raises: the exception goes through run_once and ends
\* run_forever, and a client's call.
Raise(s) == IF s \in Schedulers THEN [IdleSubmitter EXCEPT !.pc = "stopped"] ELSE IdleSubmitter

\* The threads that may be iterating over managed_agents, without a lock.
Selecting == {s \in Submitters : /\ submitter[s].pc = "submit"
                                 /\ submitter[s].agent = NoAgent
                                 /\ ~Waiting(submitter[s].task)}

\* managed_agents changes its size: the iteration of any thread that is in the
\* middle of it raises.
ResizeManaged ==
    \E hit \in SUBSET Selecting :
        submitter' = [s \in Submitters |-> IF s \in hit THEN Raise(s) ELSE submitter[s]]

RemoveAgent(a) ==
    /\ SystemFree
    /\ a \in registered \cap Removable
    /\ registered' = registered \ {a}
    /\ ResizeManaged
    /\ UNCHANGED <<taskVars, creationVars, queueVars, resultVars, active, agentStatus,
                   worker, canceller>>

AddAgent(a) ==
    /\ SystemFree
    /\ a \in Removable \ registered
    /\ registered' = registered \cup {a}
    /\ ResizeManaged
    /\ UNCHANGED <<taskVars, creationVars, queueVars, resultVars, active, agentStatus,
                   worker, canceller>>

\* No code under src/ suspends an agent: its operator assigns agent.status.
SetSuspended(a) ==
    /\ a \in Suspendable
    /\ \/ agentStatus' = [agentStatus EXCEPT ![a] = "SUSPENDED"]
       \/ /\ agentStatus[a] = "SUSPENDED"
          /\ agentStatus' = [agentStatus EXCEPT ![a] = "IDLE"]
    /\ UNCHANGED <<taskVars, creationVars, queueVars, resultVars, registered, active,
                   worker, submitter, canceller>>

-----------------------------------------------------------------------------
(* cancel_task: one region of the system's lock, with the status read when *)
(* the call begins, again by transition_to, and written after that         *)

\* A task that runs only gets a request (a second one changes nothing and is
\* left out); any other that is not over is to be moved.
Cancel(t) ==
    /\ SystemFree
    /\ t \in Registry
    /\ \/ /\ status[t] = "RUNNING" /\ ~cancelRequested[t]
          /\ canceller' = [pc |-> "request", task |-> t]
       \/ /\ status[t] \notin Terminal \cup {"RUNNING"}
          /\ canceller' = [pc |-> "check", task |-> t]
    /\ UNCHANGED <<taskVars, creationVars, queueVars, resultVars, agentVars, worker, submitter>>

RequestCancel ==
    /\ canceller.pc = "request"
    /\ cancelRequested' = [cancelRequested EXCEPT ![canceller.task] = TRUE]
    /\ canceller' = IdleCanceller
    /\ UNCHANGED <<status, assignedTo, retries, retryDue, error, creationVars,
                   queueVars, resultVars, agentVars, worker, submitter>>

CancelCheck ==
    /\ canceller.pc = "check"
    /\ canceller' = IF CanMove(canceller.task, "CANCELLED")
                    THEN [canceller EXCEPT !.pc = "write"] ELSE IdleCanceller
    /\ UNCHANGED <<taskVars, creationVars, queueVars, resultVars, agentVars, worker, submitter>>

CancelWrite ==
    /\ canceller.pc = "write"
    /\ status' = [status EXCEPT ![canceller.task] = "CANCELLED"]
    /\ RemoveFromQueue(canceller.task)
    /\ canceller' = IdleCanceller
    /\ UNCHANGED <<assignedTo, retries, retryDue, cancelRequested, error,
                   creationVars, resultVars, agentVars, worker, submitter>>

-----------------------------------------------------------------------------
(* submit_task, and run_once on top of it                                  *)

\* A thread at the head of a loop over a snapshot of the queue.
Iterate(phase, todo) ==
    [pc |-> "next", phase |-> phase, todo |-> todo, task |-> NoTask, agent |-> NoAgent]

\* dispatch_pending_tasks snapshots the queue under the lock and sorts the copy.
DispatchSnapshot(s) ==
    /\ s \in Schedulers
    /\ submitter[s].pc = "idle"
    /\ SystemFree
    /\ submitter' = [submitter EXCEPT ![s] = Iterate("dispatch",
            {t \in Tasks : queued[t] > 0 /\ status[t] \in {"PENDING", "RETRYING"}})]
    /\ UNCHANGED <<taskVars, creationVars, queueVars, resultVars, agentVars, worker, canceller>>

\* The dispatch order: priority first, then age.
Before(t, u) == Prio[t] > Prio[u] \/ (Prio[t] = Prio[u] /\ born[t] < born[u])

\* The next task of the snapshot: in dispatch order, and skipped when its
\* dependencies block it; process_retry_queue takes them in any order.
NextCandidate(s, t) ==
    LET me == submitter[s] IN
    /\ me.pc = "next"
    /\ t \in me.todo
    /\ \/ /\ me.phase = "dispatch"
          /\ SystemFree
          /\ \A u \in me.todo : ~Before(u, t)
          /\ submitter' = [submitter EXCEPT ![s].todo = @ \ {t}, ![s].task = t,
                                ![s].pc = IF Ready(t) THEN "submit" ELSE "next"]
       \/ /\ me.phase = "retry"
          /\ submitter' = [submitter EXCEPT ![s].todo = @ \ {t}, ![s].task = t,
                                ![s].pc = "submit"]
    /\ UNCHANGED <<taskVars, creationVars, queueVars, resultVars, agentVars, worker, canceller>>

\* run_once goes on from dispatch_pending_tasks to process_retry_queue, which
\* takes a snapshot of its own; then the call returns.
EndOfSnapshot(s) ==
    LET me == submitter[s] IN
    /\ me.pc = "next"
    /\ me.todo = {}
    /\ \/ /\ me.phase = "dispatch"
          /\ SystemFree
          /\ submitter' = [submitter EXCEPT ![s] = Iterate("retry",
                {t \in Tasks : queued[t] > 0 /\ status[t] = "RETRYING"})]
       \/ /\ me.phase # "dispatch"
          /\ submitter' = [submitter EXCEPT ![s] = IdleSubmitter]
    /\ UNCHANGED <<taskVars, creationVars, queueVars, resultVars, agentVars, worker, canceller>>

\* A client calls submit_task(task, agent_id); NoAgent leaves the choice open.
ClientSubmit(s, t, a) ==
    /\ s \in Clients
    /\ submitter[s].pc = "idle"
    /\ t \in Registry
    /\ submitter' = [submitter EXCEPT ![s] =
            [pc |-> "submit", phase |-> "client", todo |-> {}, task |-> t, agent |-> a]]
    /\ UNCHANGED <<taskVars, creationVars, queueVars, resultVars, agentVars, worker, canceller>>

\* _select_best_agent: capable, not suspended, below its limit, least loaded.
Available(t) == {a \in registered \cap Capable[t] :
                    /\ agentStatus[a] # "SUSPENDED"
                    /\ Cardinality(active[a]) < MaxActive}
BestAgents(t) == {a \in Available(t) :
                    \A b \in Available(t) : Cardinality(active[a]) <= Cardinality(active[b])}

\* submit_task up to assign_task: a retry that is not due, an unknown agent and
\* the lack of a suitable one all make it return False.  get_agent takes the
\* system's lock; the choice of an agent takes none.
ChooseAgent(s) ==
    LET me == submitter[s]
        candidates == IF me.agent = NoAgent THEN BestAgents(me.task) ELSE {me.agent} \cap registered
    IN
    /\ me.pc = "submit"
    /\ me.agent = NoAgent \/ Waiting(me.task) \/ SystemFree
    /\ \/ /\ ~Waiting(me.task)
          /\ \E a \in candidates :
                submitter' = [submitter EXCEPT ![s].pc = "assign", ![s].agent = a]
       \/ /\ Waiting(me.task) \/ candidates = {}
          /\ submitter' = [submitter EXCEPT ![s].agent = NoAgent, ![s].pc = "next"]
    /\ UNCHANGED <<taskVars, creationVars, queueVars, resultVars, agentVars, worker, canceller>>

\* submit_task returns into the loop of its caller.
Return(s) == submitter' = [submitter EXCEPT ![s].agent = NoAgent, ![s].pc = "next"]

\* BaseAgent.assign_task, under the agent's lock: a task that is not PENDING
\* keeps its status.
Assign(s) ==
    LET t == submitter[s].task
        a == submitter[s].agent
        room == Cardinality(active[a]) < MaxActive
    IN
    /\ submitter[s].pc = "assign"
    /\ AgentFree(a)
    /\ \/ /\ room /\ status[t] = "PENDING"
          /\ submitter' = [submitter EXCEPT ![s].pc = "check"]
       \/ /\ room /\ status[t] \in {"RETRYING", "ASSIGNED"}
          /\ submitter' = [submitter EXCEPT ![s].pc = "record"]
       \/ /\ ~(room /\ status[t] \in {"PENDING", "RETRYING", "ASSIGNED"})
          /\ Return(s)
    /\ UNCHANGED <<taskVars, creationVars, queueVars, resultVars, agentVars, worker, canceller>>

\* transition_to(ASSIGNED) of the task found PENDING.
AssignCheck(s) ==
    /\ submitter[s].pc = "check"
    /\ \/ /\ CanMove(submitter[s].task, "ASSIGNED")
          /\ submitter' = [submitter EXCEPT ![s].pc = "write"]
       \/ /\ ~CanMove(submitter[s].task, "ASSIGNED")
          /\ Return(s)
    /\ UNCHANGED <<taskVars, creationVars, queueVars, resultVars, agentVars, worker, canceller>>

AssignWrite(s) ==
    /\ submitter[s].pc = "write"
    /\ status' = [status EXCEPT ![submitter[s].task] = "ASSIGNED"]
    /\ submitter' = [submitter EXCEPT ![s].pc = "record"]
    /\ UNCHANGED <<assignedTo, retries, retryDue, cancelRequested, error, creationVars,
                   queueVars, resultVars, agentVars, worker, canceller>>

\* The agent has the task.  store_episode looks for the oldest entry of a memory
\* that holds none, and raises.
Record(s) ==
    LET t == submitter[s].task
        a == submitter[s].agent
    IN
    /\ submitter[s].pc = "record"
    /\ assignedTo' = [assignedTo EXCEPT ![t] = a]
    /\ active' = [active EXCEPT ![a] = @ \cup {t}]
    /\ \/ /\ a \notin NoMemory
          /\ submitter' = [submitter EXCEPT ![s].pc = "dequeue"]
       \/ /\ a \in NoMemory
          /\ submitter' = [submitter EXCEPT ![s] = Raise(s)]
    /\ UNCHANGED <<status, retries, retryDue, cancelRequested, error, creationVars, queueVars,
                   resultVars, registered, agentStatus, worker, canceller>>

\* Only then, and under the other lock, does submit_task take it off the queue.
Dequeue(s) ==
    /\ submitter[s].pc = "dequeue"
    /\ SystemFree
    /\ RemoveFromQueue(submitter[s].task)
    /\ Return(s)
    /\ UNCHANGED <<taskVars, creationVars, resultVars, agentVars, worker, canceller>>

-----------------------------------------------------------------------------
(* execute_task: AgentSystem's, around BaseAgent's                         *)

Engaged(w) == worker[w].pc # "idle"

\* AgentSystem.execute_task finds the agent and the task.
ExecuteCall(w, t, a) ==
    /\ ~Engaged(w)
    /\ SystemFree
    /\ t \in Registry
    /\ a \in registered
    /\ FreeCalls \/ (t \in active[a] /\ \A v \in Workers : worker[v].task # t)
    /\ successful + failed < ResultBound
    /\ worker' = [worker EXCEPT ![w] = [IdleWorker EXCEPT !.pc = "enter", !.task = t, !.agent = a]]
    /\ UNCHANGED <<taskVars, creationVars, queueVars, resultVars, agentVars, submitter, canceller>>

Goto(w, l) == worker' = [worker EXCEPT ![w].pc = l]
GotoHandler(w) == worker' = [worker EXCEPT ![w].pc = "handler", ![w].exc = "error", ![w].to = "none"]

\* w is about to call transition_to(s), or to test whether it must.
Transition(w, l, s) == worker' = [worker EXCEPT ![w].pc = l, ![w].to = s]

\* The first region: the agent is BUSY whatever it was.
Enter(w) ==
    LET t == worker[w].task
        a == worker[w].agent
    IN
    /\ worker[w].pc = "enter"
    /\ AgentFree(a)
    /\ agentStatus' = [agentStatus EXCEPT ![a] = "BUSY"]
    /\ \/ /\ status[t] \in {"ASSIGNED", "RETRYING"}
          /\ Transition(w, "check", "RUNNING")
       \/ /\ status[t] \notin {"ASSIGNED", "RETRYING"}
          /\ Goto(w, "resume")
    /\ UNCHANGED <<taskVars, creationVars, queueVars, resultVars, registered, active,
                   submitter, canceller>>

\* A task that is neither ASSIGNED nor RETRYING must be RUNNING.
Resume(w) ==
    /\ worker[w].pc = "resume"
    /\ \/ /\ status[worker[w].task] = "RUNNING"
          /\ Goto(w, "running")
       \/ /\ status[worker[w].task] # "RUNNING"
          /\ GotoHandler(w)
    /\ UNCHANGED <<taskVars, creationVars, queueVars, resultVars, agentVars, submitter, canceller>>

CancelSeen(t) == status[t] = "CANCELLED" \/ cancelRequested[t]

\* think and act with the boundary checks around them.  A timeout, or an
\* exception of think or act, may end them at any point; a boundary reached by
\* a cancelled task ends them; only a task that is not passes the last one.
Run(w) ==
    LET t == worker[w].task IN
    /\ worker[w].pc = "running"
    /\ \/ /\ ~CancelSeen(t)
          /\ worker' = [worker EXCEPT ![w].pc = "complete"]
       \/ worker' = [worker EXCEPT ![w].pc = "handler", ![w].exc = "error"]
       \/ /\ CancelSeen(t) \/ t \in HookCancels
          /\ worker' = [worker EXCEPT ![w].pc = "handler", ![w].exc = "cancelled"]
    /\ UNCHANGED <<taskVars, creationVars, queueVars, resultVars, agentVars, submitter, canceller>>

\* The region of a success begins with transition_to(COMPLETED).
Complete(w) ==
    LET t == worker[w].task IN
    /\ worker[w].pc = "complete"
    /\ AgentFree(worker[w].agent)
    /\ \/ /\ CanMove(t, "COMPLETED")
          /\ Transition(w, "write", "COMPLETED")
       \/ /\ ~CanMove(t, "COMPLETED")
          /\ GotoHandler(w)
    /\ UNCHANGED <<taskVars, creationVars, queueVars, resultVars, agentVars, submitter, canceller>>

\* Faulty variant of Outcome: one retry too many.
OutcomeOffByOne(w) ==
    IF worker[w].exc = "cancelled" THEN "CANCELLED"
    ELSE IF retries[worker[w].task] <= MaxRetries THEN "RETRYING"
    ELSE "FAILED"

\* The status the handler wants the task to have.
Outcome(w) ==
    IF worker[w].exc = "cancelled" THEN "CANCELLED"
    ELSE IF retries[worker[w].task] < MaxRetries THEN "RETRYING"
    ELSE "FAILED"

\* Where the handler starts: a retry is spent first; a failure goes straight to
\* transition_to, a cancellation looks first whether it is needed.
HandlerStep == [RETRYING |-> "spend", FAILED |-> "check", CANCELLED |-> "test"]

\* The except block, under the agent's lock; retry_count is read here ...
Handle(w) ==
    /\ worker[w].pc = "handler"
    /\ AgentFree(worker[w].agent)
    /\ error' = [error EXCEPT ![worker[w].task] = TRUE]
    /\ Transition(w, HandlerStep[Outcome(w)], Outcome(w))
    /\ UNCHANGED <<status, assignedTo, retries, retryDue, cancelRequested, creationVars,
                   queueVars, resultVars, agentVars, submitter, canceller>>

\* ... and incremented here, when another agent's worker may have spent one.
Spend(w) ==
    /\ worker[w].pc = "spend"
    /\ retries' = [retries EXCEPT ![worker[w].task] = @ + 1]
    /\ Goto(w, "test")
    /\ UNCHANGED <<status, assignedTo, retryDue, cancelRequested, error, creationVars,
                   queueVars, resultVars, agentVars, submitter, canceller>>

\* Faulty variant of ForcedOrRaise: the status is forced without being enabled.
ForcedAlways(w) == Goto(w, "write")

\* _force_task_status: without the fallback it raises, out of the handler.
ForcedOrRaise(w) ==
    \/ ForcedFallback /\ Goto(w, "write")
    \/ ~ForcedFallback /\ Transition(w, "finally", "none")

\* The handler looks whether the task has the status already: for RETRYING and
\* CANCELLED before transition_to is called, for FAILED after it has refused.
Test(w) ==
    LET s == worker[w].to IN
    /\ worker[w].pc = "test"
    /\ \/ status[worker[w].task] = s /\ Goto(w, "settle")
       \/ status[worker[w].task] # s /\ s # "FAILED" /\ Goto(w, "check")
       \/ status[worker[w].task] # s /\ s = "FAILED" /\ ForcedOrRaise(w)
    /\ UNCHANGED <<taskVars, creationVars, queueVars, resultVars, agentVars, submitter, canceller>>

\* transition_to looks the table up ...
Check(w) ==
    LET t == worker[w].task
        s == worker[w].to
    IN
    /\ worker[w].pc = "check"
    /\ \/ CanMove(t, s) /\ Goto(w, "write")
       \/ ~CanMove(t, s) /\ s = "RUNNING" /\ GotoHandler(w)
       \/ ~CanMove(t, s) /\ s = "FAILED" /\ Goto(w, "test")
       \/ ~CanMove(t, s) /\ s \notin {"RUNNING", "FAILED"} /\ ForcedOrRaise(w)
    /\ UNCHANGED <<taskVars, creationVars, queueVars, resultVars, agentVars, submitter, canceller>>

\* ... and sets the status, whatever it is by now.
Write(w) ==
    LET s == worker[w].to IN
    /\ worker[w].pc = "write"
    /\ status' = [status EXCEPT ![worker[w].task] = s]
    /\ \/ s = "RUNNING" /\ Transition(w, "running", "none")
       \/ s # "RUNNING" /\ Goto(w, "settle")
    /\ UNCHANGED <<assignedTo, retries, retryDue, cancelRequested, error, creationVars,
                   queueVars, resultVars, agentVars, submitter, canceller>>

\* The rest of the region that ended the execution.
Settle(w) ==
    LET t == worker[w].task
        a == worker[w].agent
        s == worker[w].to
    IN
    /\ worker[w].pc = "settle"
    /\ error' = [error EXCEPT ![t] = @ /\ s # "COMPLETED"]
    /\ retryDue' = [retryDue EXCEPT ![t] = s # "RETRYING"]
    /\ agentStatus' = [agentStatus EXCEPT ![a] = IF s = "COMPLETED" THEN "IDLE" ELSE "ERROR"]
    /\ Transition(w, "finally", "none")
    /\ UNCHANGED <<status, assignedTo, retries, cancelRequested, creationVars, queueVars,
                   resultVars, registered, active, submitter, canceller>>

\* Faulty variant of RestStatus: ERROR stays.
RestStatusAfterError(st) == IF st \in {"SUSPENDED", "ERROR"} THEN st ELSE "IDLE"

\* The agent status the finally block leaves behind.
RestStatus(st) == IF st = "SUSPENDED" THEN st ELSE "IDLE"

\* Faulty variant of Release: the task stays active.
KeepActive(t, a) == UNCHANGED active

\* active_tasks.pop(task.id, None)
Release(t, a) == active' = [active EXCEPT ![a] = @ \ {t}]

Finally(w) ==
    LET t == worker[w].task
        a == worker[w].agent
    IN
    /\ worker[w].pc = "finally"
    /\ AgentFree(a)
    /\ Release(t, a)
    /\ agentStatus' = [agentStatus EXCEPT ![a] = RestStatus(@)]
    /\ worker' = [worker EXCEPT ![w].pc = "aggregate"]
    /\ UNCHANGED <<taskVars, creationVars, queueVars, resultVars, registered, submitter, canceller>>

\* Back in AgentSystem.execute_task the call is accounted for, by the status
\* the task has by then.
Aggregate(w) ==
    LET t == worker[w].task
        ok == worker[w].exc = "none"
    IN
    /\ worker[w].pc = "aggregate"
    /\ SystemFree
    /\ \/ /\ ok /\ status[t] = "COMPLETED"
          /\ AddCompleted(t)
          /\ successful' = successful + 1
          /\ UNCHANGED <<failed, queueVars>>
       \/ /\ ~ok /\ status[t] = "RETRYING"
          /\ QueueIfAbsent(t)
          /\ UNCHANGED resultVars
       \/ /\ ~ok /\ status[t] = "FAILED"
          /\ failed' = failed + 1
          /\ UNCHANGED <<completed, completedIds, successful, queueVars>>
       \/ /\ status[t] \notin (IF ok THEN {"COMPLETED"} ELSE {"RETRYING", "FAILED"})
          /\ UNCHANGED <<resultVars, queueVars>>
    /\ worker' = [worker EXCEPT ![w] = IdleWorker]
    /\ UNCHANGED <<taskVars, creationVars, agentVars, submitter, canceller>>

-----------------------------------------------------------------------------

Submission(s) ==
    \/ DispatchSnapshot(s)
    \/ \E t \in Tasks : NextCandidate(s, t)
    \/ EndOfSnapshot(s)
    \/ \E t \in Tasks, a \in Agents \cup {NoAgent} : ClientSubmit(s, t, a)
    \/ ChooseAgent(s)
    \/ Assign(s)
    \/ AssignCheck(s)
    \/ AssignWrite(s)
    \/ Record(s)
    \/ Dequeue(s)

Execution(w) ==
    \/ \E t \in Tasks, a \in Agents : ExecuteCall(w, t, a)
    \/ Enter(w)
    \/ Resume(w)
    \/ Run(w)
    \/ Complete(w)
    \/ Handle(w)
    \/ Spend(w)
    \/ Test(w)
    \/ Check(w)
    \/ Write(w)
    \/ Settle(w)
    \/ Finally(w)
    \/ Aggregate(w)

Cancellation == RequestCancel \/ CancelCheck \/ CancelWrite

Operator ==
    \/ \E t \in Tasks : CreateTask(t) \/ Cancel(t) \/ RetryComesDue(t)
    \/ \E a \in Agents : RemoveAgent(a) \/ AddAgent(a) \/ SetSuspended(a)

Next ==
    \/ Operator
    \/ Cancellation
    \/ \E s \in Submitters : Submission(s)
    \/ \E w \in Workers : Execution(w)

Spec == Init /\ [][Next]_vars

\* run_forever keeps calling run_once, the workers keep serving their agents'
\* active tasks, think and act return, time passes, and whoever is inside
\* cancel_task gets on with it.
Fairness ==
    /\ \A s \in Schedulers : WF_vars(Submission(s))
    /\ \A w \in Workers : WF_vars(Execution(w))
    /\ \A t \in Tasks : WF_vars(RetryComesDue(t))
    /\ WF_vars(Cancellation)

FairSpec == Spec /\ Fairness

-----------------------------------------------------------------------------
(* Properties that hold whatever is called                                 *)

TaskTypes ==
    /\ status \in [Tasks -> Statuses]
    /\ assignedTo \in [Tasks -> Agents \cup {NoAgent}]
    /\ retries \in [Tasks -> Nat]
    /\ retryDue \in [Tasks -> BOOLEAN]
    /\ cancelRequested \in [Tasks -> BOOLEAN]
    /\ error \in [Tasks -> BOOLEAN]
    /\ deps \in [Tasks -> SUBSET Tasks]
    /\ born \in [Tasks -> Nat]
    /\ totalTasks \in Nat

QueueTypes ==
    /\ queued \in [Tasks -> Nat]
    /\ queuedIds \subseteq Tasks
    /\ completed \in [Tasks -> Nat]
    /\ completedIds \subseteq Tasks
    /\ successful \in Nat
    /\ failed \in Nat

AgentTypes ==
    /\ registered \subseteq Agents
    /\ active \in [Agents -> SUBSET Tasks]
    /\ agentStatus \in [Agents -> AgentStatuses]

WorkerTypes ==
    /\ worker \in [Workers -> WorkerStates]
    /\ \A w \in Workers :
        /\ Engaged(w) => worker[w].task \in Tasks /\ worker[w].agent \in Agents
        /\ worker[w].pc \in {"spend", "check", "write", "test", "settle"} => worker[w].to # "none"

SubmitterTypes ==
    /\ submitter \in [Submitters -> SubmitterStates]
    /\ \A s \in Submitters :
        /\ submitter[s].pc \in {"submit", "assign", "check", "write", "record", "dequeue"} =>
                submitter[s].task \in Tasks
        /\ submitter[s].pc \in {"assign", "check", "write", "record", "dequeue"} =>
                submitter[s].agent \in Agents

CancellerTypes ==
    /\ canceller \in CancellerStates
    /\ canceller.pc # "idle" => canceller.task \in Tasks

\* The types, and that every thread inside a call knows its task, and its
\* agent once it has one.
TypeOK ==
    TaskTypes /\ QueueTypes /\ AgentTypes /\ WorkerTypes /\ SubmitterTypes /\ CancellerTypes

\* The queue and the set that guards it against duplicates agree ("Queue a task
\* once, guarding against duplicate entries", _queue_task_if_absent), and no
\* step of any thread drops a task that nobody has taken yet: a PENDING task
\* of the registry is in the queue, where the next dispatch finds it.
QueueSound ==
    \A t \in Tasks :
        /\ queued[t] = IF t \in queuedIds THEN 1 ELSE 0
        /\ t \in Registry /\ status[t] = "PENDING" => t \in queuedIds

\* How often max_retries is overshot: the threads that fail attempts of one task
\* at once, on different agents, may all find its last retry unspent, and each
\* but the first of them spends one too many.
Spenders(t) == {w \in Workers : worker[w].pc = "spend" /\ worker[w].task = t}
RetryOvershoot ==
    \A t \in Tasks : retries[t] > MaxRetries => retries[t] - MaxRetries < Cardinality(Workers)

\* "Track a completed task once, guarding against duplicate aggregation"
\* (_add_completed_task): completed_tasks lists a task at most once, even when
\* a forced status lets it complete again.
CompletedListedOnce ==
    \A t \in Tasks : completed[t] = IF t \in completedIds THEN 1 ELSE 0

\* A RUNNING task has a thread in execute_task that is still going to end it:
\* no error path, refused transition or cancellation leaves it RUNNING alone.
RunningHasWorker ==
    \A t \in Tasks : status[t] = "RUNNING" =>
        \E w \in Workers : /\ worker[w].task = t
                           /\ worker[w].pc \in {"running", "complete", "handler", "spend",
                                               "test", "check", "write"}

\* "Avoid permanent ERROR lock-in for recoverable failures" (execute_task): an
\* agent nobody executes on is IDLE again, even when the handler itself raised.
IdleAtRest ==
    \A a \in Agents :
        \/ agentStatus[a] \in {"IDLE", "SUSPENDED"}
        \/ \E w \in Workers : /\ worker[w].agent = a
                              /\ worker[w].pc \in ExecuteRegion \cup
                                    {"running", "complete", "handler", "finally"}

\* The threads between transition_to's look at the table and its write.
Writers(t) == {w \in Workers : worker[w].pc = "write" /\ worker[w].task = t}
Assigners(t) == {s \in Submitters : submitter[s].pc = "write" /\ submitter[s].task = t}
CancelInFlight(t) == canceller = [pc |-> "write", task |-> t]

Intended(t) ==
    {worker[w].to : w \in Writers(t)}
        \cup {s \in {"ASSIGNED"} : Assigners(t) # {}}
        \cup {s \in {"CANCELLED"} : CancelInFlight(t)}
Spent(t) == {w \in Workers : /\ worker[w].pc \in {"test", "check"}
                             /\ worker[w].to = "RETRYING"
                             /\ worker[w].task = t}

\* Every task follows the lifecycle of TaskLifecycle, unless its status is forced.
Lifecycle == INSTANCE TaskLifecycle WITH
                intended <- [t \in Tasks |-> Intended(t)],
                failing <- [t \in Tasks |-> Spenders(t)],
                spent <- [t \in Tasks |-> Spent(t)]
FollowsLifecycle == Lifecycle!Spec

\* A task that is over, and that no thread was about to move when it ended.
Settled(t) == status[t] \in Terminal /\ Intended(t) = {}

\* Such a task stays as it is, whatever is called, unless its status is forced:
\* an overwritten terminal status is always the work of a thread that had
\* consulted the table before the task was over.
TerminalSettles ==
    [][\A t \in Tasks : Settled(t) => status'[t] = status[t] /\ Settled(t)']_vars

-----------------------------------------------------------------------------
(* Properties of a system driven by its scheduler alone: one scheduler, no *)
(* client submits, and a worker executes what is active on its agent       *)

Holders(t) == {a \in Agents : t \in active[a]}

\* A task is active on one agent at most, although assign_task accepts a task
\* that is ASSIGNED already and a RETRYING one stays RETRYING when assigned; and
\* an ASSIGNED or RUNNING task is active on the agent it is assigned to, once
\* assign_task has got that far.
Ownership ==
    \A t \in Tasks :
        /\ Cardinality(Holders(t)) <= 1
        /\ \/ status[t] \notin {"ASSIGNED", "RUNNING"}
           \/ \E s \in Submitters : submitter[s].pc = "record" /\ submitter[s].task = t
           \/ assignedTo[t] # NoAgent /\ t \in active[assignedTo[t]]

\* "task IDs that must complete before this task runs" (create_task): whatever
\* has been assigned had all its dependencies completed, and they stay so,
\* although cancel_task and execute_task overwrite each other's statuses.
DependencyOrder ==
    \A t \in Tasks : status[t] \notin {"PENDING", "CANCELLED"} =>
        \A d \in deps[t] : status[d] = "COMPLETED"

\* The workers that have completed or failed a task and not yet reported it.
Unreported(outcome) ==
    {w \in Workers : /\ worker[w].pc \in {"settle", "finally", "aggregate"}
                     /\ status[worker[w].task] = outcome
                     /\ (worker[w].exc = "none") = (outcome = "COMPLETED")}

TasksIn(s) == {t \in Tasks : status[t] = s}

\* successful_tasks counts every COMPLETED task exactly once, as soon as the call
\* that completed it has returned, and agrees with completed_tasks: a completion
\* that cancel_task overwrites is overwritten before it is counted.
SuccessAccounting ==
    /\ successful + Cardinality(Unreported("COMPLETED")) = Cardinality(TasksIn("COMPLETED"))
    /\ successful = Cardinality(completedIds)

\* failed_tasks counts every FAILED task exactly once, as soon as the call
\* that failed it has returned.
FailureAccounting ==
    failed + Cardinality(Unreported("FAILED")) = Cardinality(TasksIn("FAILED"))

\* A COMPLETED task shows no error of an attempt before or after its success,
\* once the region that completed it has been left.
CompletedIsClean ==
    \A t \in Tasks : status[t] = "COMPLETED" =>
        ~error[t] \/ \E w \in Workers : worker[w].pc = "settle" /\ worker[w].task = t

\* While one thread at a time executes a task, max_retries is kept.
RetriesKept == \A t \in Tasks : retries[t] <= MaxRetries

\* Out of reach of every thread: waiting for a retry that no queue, no active
\* set and no thread will bring about.
Lost(t) ==
    /\ status[t] = "RETRYING"
    /\ t \notin queuedIds
    /\ Holders(t) = {}
    /\ \A w \in Workers : worker[w].task # t

\* "Requeue for retry dispatch, guarding against duplicates" (execute_task):
\* a task to be retried is dispatched again.
NoRetryLost == \A t \in Tasks : ~Lost(t)

\* A retry is lost in one way only: submit_task takes off the queue what it has
\* assigned before.  No end of an execution loses one, no cancellation, and
\* nothing an operator does, with any threads that submit and cancel.
LostOnlyByDequeue ==
    [][\A t \in Tasks : ~Lost(t) /\ Lost(t)' =>
            \E s \in Submitters : /\ submitter[s].pc = "dequeue" /\ submitter[s].task = t
                                  /\ submitter'[s].pc = "next"]_vars

\* A task whose dependencies are completed and accounted for reaches a terminal
\* status; the one way it may not is the retry that NoRetryLost is about.
Settles ==
    \A t \in Tasks : (t \in Registry /\ deps[t] \subseteq completedIds)
                        ~> (status[t] \in Terminal \/ Lost(t))

\* "Run the scheduling loop continuously until stop_event is set" (run_forever).
SchedulerRuns == \A s \in Schedulers : submitter[s].pc # "stopped"

=============================================================================
