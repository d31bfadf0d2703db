----------------------------- MODULE TaskModel -----------------------------
(***************************************************************************)
(* The task lifecycle of src/agents/models.py: the values of TaskStatus    *)
(* and the guarded transition table every status change consults.          *)
(***************************************************************************)

Statuses == {"PENDING", "ASSIGNED", "RUNNING", "RETRYING",
             "COMPLETED", "FAILED", "CANCELLED"}

\* Faulty variant of Transitions: a running task cannot fail.
TransitionsWithoutFailure ==
    [PENDING   |-> {"ASSIGNED", "CANCELLED"},
     ASSIGNED  |-> {"RUNNING", "RETRYING", "CANCELLED"},
     RUNNING   |-> {"COMPLETED", "RETRYING", "CANCELLED"},
     RETRYING  |-> {"ASSIGNED", "RUNNING", "FAILED", "CANCELLED"},
     COMPLETED |-> {},
     FAILED    |-> {},
     CANCELLED |-> {}]

\* Faulty variant of Transitions: a task that failed or was cancelled may be retried.
TransitionsWithRestart ==
    [PENDING   |-> {"ASSIGNED", "CANCELLED"},
     ASSIGNED  |-> {"RUNNING", "RETRYING", "CANCELLED"},
     RUNNING   |-> {"COMPLETED", "FAILED", "RETRYING", "CANCELLED"},
     RETRYING  |-> {"ASSIGNED", "RUNNING", "FAILED", "CANCELLED"},
     COMPLETED |-> {},
     FAILED    |-> {"RETRYING"},
     CANCELLED |-> {"RETRYING"}]

\* TASK_STATUS_TRANSITIONS: the statuses transition_to accepts from each status.
Transitions ==
    [PENDING   |-> {"ASSIGNED", "CANCELLED"},
     ASSIGNED  |-> {"RUNNING", "RETRYING", "CANCELLED"},
     RUNNING   |-> {"COMPLETED", "FAILED", "RETRYING", "CANCELLED"},
     RETRYING  |-> {"ASSIGNED", "RUNNING", "FAILED", "CANCELLED"},
     COMPLETED |-> {},
     FAILED    |-> {},
     CANCELLED |-> {}]

\* The statuses cancel_task refuses to leave; the table gives them no successor.
Terminal == {"COMPLETED", "FAILED", "CANCELLED"}

=============================================================================
