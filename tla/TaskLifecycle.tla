--------------------------- MODULE TaskLifecycle ---------------------------
(***************************************************************************)
(* What the agent system promises about the status of every task, whatever *)
(* its threads do.  A status is written only after TASK_STATUS_TRANSITIONS *)
(* has been consulted for it, but the status may change between the look   *)
(* and the write; only a failed attempt that has spent one of max_retries  *)
(* leads to RETRYING, and the count may change after it was compared.      *)
(* AgentSystem is shown to implement this specification.                   *)
(***************************************************************************)
EXTENDS TaskModel, Naturals

CONSTANTS
    Tasks,       \* the tasks clients may create
    Workers,     \* the threads that execute tasks
    MaxRetries   \* task.max_retries, a natural number

VARIABLES
    status,      \* [Tasks -> Statuses]
    retries,     \* [Tasks -> Nat], task.retry_count
    intended,    \* the statuses a task has been found fit for and may be given
    failing,     \* the workers that have found a retry left for their attempt
    spent        \* the workers that have spent it and may move the task

vars == <<status, retries, intended, failing, spent>>

Init ==
    /\ status = [t \in Tasks |-> "PENDING"]
    /\ retries = [t \in Tasks |-> 0]
    /\ intended = [t \in Tasks |-> {}]
    /\ failing = [t \in Tasks |-> {}]
    /\ spent = [t \in Tasks |-> {}]

\* transition_to accepts a status other than RETRYING.
Intend(t) ==
    /\ \E s \in Transitions[status[t]] \ {"RETRYING"} :
            intended' = [intended EXCEPT ![t] = @ \cup {s}]
    /\ UNCHANGED <<status, retries, failing, spent>>

\* An attempt has failed with retries left ...
FailAttempt(t, w) ==
    /\ retries[t] < MaxRetries
    /\ failing' = [failing EXCEPT ![t] = @ \cup {w}]
    /\ UNCHANGED <<status, retries, intended, spent>>

\* ... spends one ...
SpendRetry(t, w) ==
    /\ w \in failing[t]
    /\ failing' = [failing EXCEPT ![t] = @ \ {w}]
    /\ retries' = [retries EXCEPT ![t] = @ + 1]
    /\ spent' = [spent EXCEPT ![t] = @ \cup {w}]
    /\ UNCHANGED <<status, intended>>

\* ... and leaves the task as it is, or has it wait if the table lets it.
IntendRetry(t, w) ==
    /\ w \in spent[t]
    /\ spent' = [spent EXCEPT ![t] = @ \ {w}]
    /\ \/ UNCHANGED intended
       \/ /\ "RETRYING" \in Transitions[status[t]]
          /\ intended' = [intended EXCEPT ![t] = @ \cup {"RETRYING"}]
    /\ UNCHANGED <<status, retries, failing>>

\* A thread writes the status it was granted; another may have been granted the
\* same.
Move(t) ==
    /\ \E s \in intended[t] :
        /\ status' = [status EXCEPT ![t] = s]
        /\ \/ UNCHANGED intended
           \/ intended' = [intended EXCEPT ![t] = @ \ {s}]
    /\ UNCHANGED <<retries, failing, spent>>

Next ==
    \E t \in Tasks :
        \/ Intend(t)
        \/ Move(t)
        \/ \E w \in Workers : FailAttempt(t, w) \/ SpendRetry(t, w) \/ IntendRetry(t, w)

Spec == Init /\ [][Next]_vars

=============================================================================
