---------------------------- MODULE TaskRecords ----------------------------
(***************************************************************************)
(* What becomes of the fields of a task when SqlTaskRepository or          *)
(* RedisTaskRepository (src/agents/persistence.py) has stored it and a     *)
(* process that has been restarted loads it and goes on with it.           *)
(***************************************************************************)
EXTENDS Integers

CONSTANTS
    None,          \* None, and the NULL of a column
    EmptyText,     \* the empty string
    RetryLimits    \* values of max_retries

ASSUME RetryLimitsAssumption == RetryLimits \subseteq Nat /\ None # EmptyText

VARIABLES
    database,   \* which of the repositories it is
    restored,   \* the task, restarts included
    spared      \* history: the task as it would be if there had been no restart

recordVars == <<database, restored, spared>>

\* TaskPriority
PriorityNames == {"CRITICAL", "HIGH", "NORMAL", "LOW", "DEFERRED"}

\* What can be told apart once it has been stored and loaded.  JSON has no tuples.
Messages == {None, EmptyText, "message"}
Results == {None, "list", "tuple"}

RecordsInit ==
    /\ database \in {"sql", "redis"}
    /\ \E name \in PriorityNames, bound \in RetryLimits, agent \in {None, "agent"} :
            restored = [priority |-> name, assigned_to |-> agent, status |-> "RETRYING",
                        retry_count |-> 0, max_retries |-> bound, error |-> None,
                        result |-> None, next_retry_at |-> None]
    /\ spared = restored

-----------------------------------------------------------------------------
(* An attempt at the task fails or succeeds (BaseAgent.execute_task)       *)

Failed(task, message) ==
    IF task.retry_count < task.max_retries
    THEN [task EXCEPT !.retry_count = @ + 1, !.error = message, !.next_retry_at = "time"]
    ELSE [task EXCEPT !.status = "FAILED", !.error = message, !.next_retry_at = None]

Succeeded(task, value) ==
    [task EXCEPT !.status = "COMPLETED", !.error = None, !.result = value, !.next_retry_at = None]

AttemptFails(message) ==
    /\ restored.status = "RETRYING"
    /\ restored' = Failed(restored, message)
    /\ spared' = Failed(spared, message)
    /\ UNCHANGED database

AttemptSucceeds(value) ==
    /\ restored.status = "RETRYING"
    /\ restored' = Succeeded(restored, value)
    /\ spared' = Succeeded(spared, value)
    /\ UNCHANGED database

-----------------------------------------------------------------------------
(* Conversions                                                             *)

\* "x or y" of texts and of numbers
TextOr(text, default) == IF text \in {None, EmptyText} THEN default ELSE text
NumberOr(n, default) == IF n = 0 THEN default ELSE n

\* json.loads of json.dumps
ThroughJson(value) == IF value = "tuple" THEN "list" ELSE value

\* Faulty variant of ToPriority: the name is taken for a number, which it is not.
ToPriorityByValue(text) == "NORMAL"

\* _to_priority of a name, which is what both repositories store
ToPriority(text) == IF text \in PriorityNames THEN text ELSE "NORMAL"

\* _deserialize of _serialize.  In Redis there are only texts, and "" is None.
ThroughSql(task) ==
    [task EXCEPT !.priority = ToPriority(@),
                 !.result = ThroughJson(@),
                 !.max_retries = NumberOr(@, 3)]

ThroughRedis(task) ==
    [task EXCEPT !.priority = ToPriority(@),
                 !.assigned_to = TextOr(@, None),
                 !.error = TextOr(@, None),
                 !.result = ThroughJson(@),
                 !.next_retry_at = TextOr(@, None)]

\* The task is saved, the process ends, and another one loads it.
Restored ==
    /\ restored' = IF database = "sql" THEN ThroughSql(restored) ELSE ThroughRedis(restored)
    /\ UNCHANGED <<database, spared>>

RecordsNext ==
    \/ \E message \in Messages \ {None} : AttemptFails(message)
    \/ \E value \in Results : AttemptSucceeds(value)
    \/ Restored

RecordsSpec == RecordsInit /\ [][RecordsNext]_recordVars

-----------------------------------------------------------------------------

\* "durable task repository": a task goes on after any number of restarts as it
\* would have without them, and ends when it would have.  Only the emptiness of a
\* message is forgotten in Redis, and that a result was a tuple; and a task that
\* may not be retried at all is exempt in SQL, which takes 0 for no value.
RestartUnnoticed ==
    LET same(x, y) == \/ x = y
                      \/ database = "redis" /\ {x, y} = {None, EmptyText}
                      \/ x = "list" /\ y = "tuple"
    IN  \/ database = "sql" /\ spared.max_retries = 0
        \/ \A f \in DOMAIN restored : same(restored[f], spared[f])

=============================================================================
