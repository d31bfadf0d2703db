---------------------------- MODULE StatusRace ----------------------------
(***************************************************************************)
(* One task under the two locks that guard it: cancel_task holds the lock  *)
(* of the system and execute_task that of an agent, so they do interleave  *)
(* in each other's regions.  Every read and every write of task.status by  *)
(* transition_to and its callers is a step of its own, those included that *)
(* AgentSystem takes together with what else its regions do.  The test and *)
(* the increment of retry_count are one step; AgentSystem has them apart.  *)
(***************************************************************************)
EXTENDS TaskModel, Naturals

CONSTANTS
    Workers,      \* threads in BaseAgent.execute_task, each of another agent
    Cancellers,   \* threads in AgentSystem.cancel_task; one lock serialises them
    MaxRetries,   \* task.max_retries
    Nobody

ASSUME RetriesAssumption == MaxRetries \in Nat
ASSUME ThreadsAssumption == Workers \cap Cancellers = {} /\ Nobody \notin Cancellers

VARIABLES
    status,          \* task.status
    retries,         \* task.retry_count
    cancelRequested, \* task.metadata["cancel_requested"]
    ended,           \* the first terminal status ever written, or "none" (history)
    systemLock,      \* the canceller that holds AgentSystem._lock
    pc,              \* where each thread is
    target           \* the argument of the transition_to a thread is in

vars == <<status, retries, cancelRequested, ended, systemLock, pc, target>>

Threads == Workers \cup Cancellers

\* A task that has just been assigned.
Init ==
    /\ status = "ASSIGNED"
    /\ retries = 0
    /\ cancelRequested = FALSE
    /\ ended = "none"
    /\ systemLock = Nobody
    /\ pc = [p \in Threads |-> "idle"]
    /\ target = [p \in Threads |-> "none"]

Goto(p, l) == pc' = [pc EXCEPT ![p] = l]

CallTransition(p, s) ==
    /\ pc' = [pc EXCEPT ![p] = "check"]
    /\ target' = [target EXCEPT ![p] = s]

-----------------------------------------------------------------------------
(* transition_to                                                           *)

\* The caller of a transition_to that returned False: execute_task raises into
\* its handler, the handler is refused a forced status, cancel_task returns.
AfterRefusal(p) ==
    IF target[p] \in {"RUNNING", "COMPLETED"} THEN "handler" ELSE "out"

\* The table is looked up with the status read now ...
Check(p) ==
    /\ pc[p] = "check"
    /\ \/ /\ target[p] \in Transitions[status]
          /\ Goto(p, "write")
       \/ /\ target[p] \notin Transitions[status]
          /\ Goto(p, AfterRefusal(p))
    /\ UNCHANGED <<status, retries, cancelRequested, ended, systemLock, target>>

\* ... and the status written later, whatever it is by then.
Write(p) ==
    /\ pc[p] = "write"
    /\ status' = target[p]
    /\ ended' = IF ended = "none" /\ target[p] \in Terminal THEN target[p] ELSE ended
    /\ Goto(p, IF target[p] = "RUNNING" THEN "running" ELSE "out")
    /\ UNCHANGED <<retries, cancelRequested, systemLock, target>>

-----------------------------------------------------------------------------
(* BaseAgent.execute_task                                                  *)

\* Two tests of the status: neither ASSIGNED nor RETRYING, it must be RUNNING.
Enter(w) ==
    /\ w \in Workers
    /\ \/ /\ pc[w] = "idle"
          /\ \/ status \in {"ASSIGNED", "RETRYING"} /\ CallTransition(w, "RUNNING")
             \/ status \notin {"ASSIGNED", "RETRYING"} /\ Goto(w, "entering") /\ UNCHANGED target
       \/ /\ pc[w] = "entering"
          /\ Goto(w, IF status = "RUNNING" THEN "running" ELSE "handler")
          /\ UNCHANGED target
    /\ UNCHANGED <<status, retries, cancelRequested, ended, systemLock>>

CancelSeen == status = "CANCELLED" \/ cancelRequested

\* The boundary checks: the last one is passed, or an exception ends the run.
Run(w) ==
    /\ pc[w] = "running"
    /\ \/ ~CancelSeen /\ CallTransition(w, "COMPLETED")
       \/ Goto(w, "handler") /\ UNCHANGED target
       \/ CancelSeen /\ Goto(w, "cancelled") /\ UNCHANGED target
    /\ UNCHANGED <<status, retries, cancelRequested, ended, systemLock>>

\* Faulty variant of Handle: a spent task is left alone instead of failed.
HandleRetriesOnly(w) ==
    /\ pc[w] = "handler"
    /\ \/ /\ retries < MaxRetries
          /\ retries' = retries + 1
          /\ Goto(w, "retrying")
       \/ /\ retries >= MaxRetries
          /\ Goto(w, "out")
          /\ UNCHANGED retries
    /\ UNCHANGED <<status, cancelRequested, ended, systemLock, target>>

\* The handler of an exception other than a cancellation spends a retry or
\* fails the task ...
Handle(w) ==
    /\ pc[w] = "handler"
    /\ \/ /\ retries < MaxRetries
          /\ retries' = retries + 1
          /\ Goto(w, "retrying")
          /\ UNCHANGED target
       \/ /\ retries >= MaxRetries
          /\ CallTransition(w, "FAILED")
          /\ UNCHANGED retries
    /\ UNCHANGED <<status, cancelRequested, ended, systemLock>>

\* ... and then moves the task, unless it waits for a retry already.
HandleRetry(w) ==
    /\ pc[w] = "retrying"
    /\ \/ status # "RETRYING" /\ CallTransition(w, "RETRYING")
       \/ status = "RETRYING" /\ Goto(w, "out") /\ UNCHANGED target
    /\ UNCHANGED <<status, retries, cancelRequested, ended, systemLock>>

HandleCancel(w) ==
    /\ pc[w] = "cancelled"
    /\ \/ status # "CANCELLED" /\ CallTransition(w, "CANCELLED")
       \/ status = "CANCELLED" /\ Goto(w, "out") /\ UNCHANGED target
    /\ UNCHANGED <<status, retries, cancelRequested, ended, systemLock>>

-----------------------------------------------------------------------------
(* AgentSystem.cancel_task                                                 *)

\* Not found terminal; the status is read again for the next test.
Cancel(c) ==
    /\ c \in Cancellers
    /\ pc[c] = "idle"
    /\ systemLock = Nobody
    /\ status \notin Terminal
    /\ systemLock' = c
    /\ Goto(c, "found")
    /\ UNCHANGED <<status, retries, cancelRequested, ended, target>>

\* RUNNING only gets a request; anything else is moved to CANCELLED.
CancelFound(c) ==
    /\ pc[c] = "found"
    /\ \/ /\ status = "RUNNING"
          /\ Goto(c, "request")
          /\ UNCHANGED target
       \/ /\ status # "RUNNING"
          /\ CallTransition(c, "CANCELLED")
    /\ UNCHANGED <<status, retries, cancelRequested, ended, systemLock>>

RequestCancel(c) ==
    /\ pc[c] = "request"
    /\ cancelRequested' = TRUE
    /\ Goto(c, "out")
    /\ UNCHANGED <<status, retries, ended, systemLock, target>>

-----------------------------------------------------------------------------

\* The call returns or raises; a canceller releases the lock.
Return(p) ==
    /\ pc[p] = "out"
    /\ Goto(p, "idle")
    /\ target' = [target EXCEPT ![p] = "none"]
    /\ systemLock' = IF p = systemLock THEN Nobody ELSE systemLock
    /\ UNCHANGED <<status, retries, cancelRequested, ended>>

Next ==
    \E p \in Threads :
        \/ Check(p) \/ Write(p) \/ Return(p)
        \/ Enter(p) \/ Run(p) \/ Handle(p) \/ HandleRetry(p) \/ HandleCancel(p)
        \/ Cancel(p) \/ CancelFound(p) \/ RequestCancel(p)

Spec == Init /\ [][Next]_vars

-----------------------------------------------------------------------------

\* What RunningHasWorker of AgentSystem says holds at this grain too: a task is
\* never left RUNNING by its last worker, even when a canceller overtakes it
\* between the check and the write of a transition.
RunningNotAbandoned ==
    status = "RUNNING" =>
        \E w \in Workers : pc[w] \in {"running", "check", "write",
                                     "handler", "retrying", "cancelled"}

\* "Guarded state transitions for task lifecycle" (TASK_STATUS_TRANSITIONS),
\* whose terminal statuses have no successor: the first one reached stays.
TerminalKept == ended # "none" => status = ended

=============================================================================
