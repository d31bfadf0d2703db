-------------------------- MODULE TaskRepository --------------------------
(***************************************************************************)
(* RedisTaskRepository (src/agents/persistence.py) as the persistence hook *)
(* of AgentSystem calls it.  A save is several steps: the task is          *)
(* serialized, the time to live of its key is asked for, and only then one *)
(* transaction writes.  Without a time to live the same steps are those of *)
(* SqlTaskRepository, whose save is one transaction after serializing.     *)
(***************************************************************************)
EXTENDS TaskModel

CONSTANTS
    Tasks, NoTask, Absent,
    LockedSavers,     \* threads that save while they hold AgentSystem._lock
    UnlockedSavers,   \* threads in submit_task, which saves after releasing it
    UsesTtl,          \* ttl_seconds is set
    TableOnly,        \* statuses follow the table: none is forced, no check is overtaken
    Deletable         \* the tasks whose records somebody may delete

ASSUME SaversAssumption == LockedSavers \cap UnlockedSavers = {}
ASSUME NothingAssumption == NoTask \notin Tasks /\ Absent \notin Statuses
ASSUME SettingsAssumption ==
    UsesTtl \in BOOLEAN /\ TableOnly \in BOOLEAN /\ Deletable \subseteq Tasks

Savers == LockedSavers \cup UnlockedSavers

VARIABLES
    status,   \* task.status, moved by the agents under their own locks
    record,   \* the status in the hash of the task
    expiry,   \* the time its key has left: "none" without limit, "short" when
              \* it is under the half second that ttl() rounds down to 0
    index,    \* the ids in the sorted set
    saver,    \* the threads inside save_task
    listing   \* a thread inside list_pending_tasks; "sure" is history: the tasks
              \* that have been pending in the store since it began

vars == <<status, record, expiry, index, saver, listing>>

Waiting == {"PENDING", "RETRYING"}

IdleSaver == [pc |-> "idle", task |-> NoTask, payload |-> Absent, persist |-> FALSE]
IdleListing == [pc |-> "idle", todo |-> {}, found |-> {}, sure |-> {}]

Init ==
    /\ status = [t \in Tasks |-> "PENDING"]
    /\ record = [t \in Tasks |-> Absent]
    /\ expiry = [t \in Tasks |-> "none"]
    /\ index = {}
    /\ saver = [w \in Savers |-> IdleSaver]
    /\ listing = IdleListing

-----------------------------------------------------------------------------
(* The task and the clock                                                  *)

\* The agents' threads move the task along the table, or against it: the fallback
\* of the failure handler forces RETRYING and FAILED, and a transition may write
\* what it has checked against an earlier status.  Nothing moves to PENDING.
Advance(t) ==
    /\ \E s \in IF TableOnly THEN Transitions[status[t]] ELSE Statuses \ {"PENDING"} :
           status' = [status EXCEPT ![t] = s]
    /\ UNCHANGED <<record, expiry, index, saver, listing>>

\* The record of t becomes r, and is no longer surely pending unless it still is.
Store(t, r) ==
    /\ record' = [record EXCEPT ![t] = r]
    /\ listing' = [listing EXCEPT !.sure = IF r \in Waiting THEN @ ELSE @ \ {t}]

TimePasses(t) ==
    /\ \/ /\ expiry[t] = "long"
          /\ expiry' = [expiry EXCEPT ![t] = "short"]
          /\ UNCHANGED <<record, listing>>
       \/ /\ expiry[t] = "short"
          /\ expiry' = [expiry EXCEPT ![t] = "none"]
          /\ Store(t, Absent)
    /\ UNCHANGED <<status, index, saver>>

-----------------------------------------------------------------------------
(* save_task                                                               *)

\* Faulty variant of SystemLockFree: create_task saves after releasing the lock.
NoLock == TRUE

SystemLockFree == \A w \in LockedSavers : saver[w].pc = "idle"

\* submit_task has assigned the task, and gives up the lock in which it has
\* taken it off the queue.
Dequeued(w, t) ==
    /\ w \in UnlockedSavers
    /\ saver[w].pc = "idle"
    /\ SystemLockFree
    /\ status[t] # "PENDING"
    /\ saver' = [saver EXCEPT ![w].pc = "dequeued", ![w].task = t]
    /\ UNCHANGED <<status, record, expiry, index, listing>>

\* The payload is the task as it is now; a task that is not over may have to
\* lose the time to live an earlier save has given it.
Serialize(w, t) ==
    /\ \/ w \in LockedSavers /\ SystemLockFree
       \/ saver[w].pc = "dequeued" /\ saver[w].task = t
    /\ saver' = [saver EXCEPT ![w] =
            [pc |-> IF UsesTtl /\ status[t] \notin Terminal THEN "ttl" ELSE "execute",
             task |-> t, payload |-> status[t], persist |-> FALSE]]
    /\ UNCHANGED <<status, record, expiry, index, listing>>

\* Faulty variant of AskTtl: the key is persisted at once, not in the transaction.
PersistAtOnce(w) ==
    /\ saver[w].pc = "ttl"
    /\ saver' = [saver EXCEPT ![w].pc = "execute"]
    /\ expiry' = [expiry EXCEPT ![saver[w].task] = "none"]
    /\ UNCHANGED <<status, record, index, listing>>

\* self._client.ttl(task_key) > 0, asked outside of the pipeline.
AskTtl(w) ==
    /\ saver[w].pc = "ttl"
    /\ saver' = [saver EXCEPT ![w] =
            [pc |-> "execute", task |-> @.task, payload |-> @.payload,
             persist |-> expiry[@.task] = "long"]]
    /\ UNCHANGED <<status, record, expiry, index, listing>>

NewExpiry(me) ==
    IF UsesTtl /\ me.payload \in Terminal THEN "long"
    ELSE IF me.persist THEN "none"
    ELSE expiry[me.task]

\* Faulty variant of Indexed: finished tasks are taken out of the index, and
\* a task that is saved again is not put back.
IndexedOnce(me) ==
    IF me.payload \in Terminal THEN index \ {me.task}
    ELSE IF record[me.task] = Absent THEN index \cup {me.task}
    ELSE index

\* zadd
Indexed(me) == index \cup {me.task}

\* The transaction; hset leaves the time to live of an existing key alone.
Execute(w) ==
    LET me == saver[w] IN
    /\ me.pc = "execute"
    /\ Store(me.task, me.payload)
    /\ expiry' = [expiry EXCEPT ![me.task] = NewExpiry(me)]
    /\ index' = Indexed(me)
    /\ saver' = [saver EXCEPT ![w] = IdleSaver]
    /\ UNCHANGED status

\* The connection fails: save_task raises, and the hook's caller goes on.
Fail(w) ==
    /\ saver[w].pc # "idle"
    /\ saver' = [saver EXCEPT ![w] = IdleSaver]
    /\ UNCHANGED <<status, record, expiry, index, listing>>

DeleteTask(t) ==
    /\ t \in Deletable
    /\ Store(t, Absent)
    /\ expiry' = [expiry EXCEPT ![t] = "none"]
    /\ index' = index \ {t}
    /\ UNCHANGED <<status, saver>>

-----------------------------------------------------------------------------
(* list_pending_tasks: the index first, then one record after the other    *)

ListIndex ==
    /\ listing.pc = "idle"
    /\ listing' = [pc |-> "get", todo |-> index, found |-> {},
                   sure |-> {t \in Tasks : record[t] \in Waiting}]
    /\ UNCHANGED <<status, record, expiry, index, saver>>

ListGet(t) ==
    /\ listing.pc = "get"
    /\ t \in listing.todo
    /\ listing' = [listing EXCEPT !.todo = @ \ {t},
                        !.found = IF record[t] \in Waiting THEN @ \cup {t} ELSE @]
    /\ UNCHANGED <<status, record, expiry, index, saver>>

ListReturn ==
    /\ listing.pc = "get"
    /\ listing.todo = {}
    /\ listing' = IdleListing
    /\ UNCHANGED <<status, record, expiry, index, saver>>

-----------------------------------------------------------------------------

Next ==
    \/ \E t \in Tasks : Advance(t) \/ TimePasses(t) \/ DeleteTask(t) \/ ListGet(t)
    \/ \E w \in Savers, t \in Tasks : Dequeued(w, t) \/ Serialize(w, t)
    \/ \E w \in Savers : AskTtl(w) \/ Execute(w) \/ Fail(w)
    \/ ListIndex
    \/ ListReturn

Spec == Init /\ [][Next]_vars

-----------------------------------------------------------------------------

\* The types; a saver knows its task, the listing takes its ids from the index,
\* and every record is in the index, where the listings look for it.
TypeOK ==
    /\ status \in [Tasks -> Statuses]
    /\ record \in [Tasks -> Statuses \cup {Absent}]
    /\ expiry \in [Tasks -> {"none", "long", "short"}]
    /\ index \subseteq Tasks
    /\ saver \in [Savers -> [pc : {"idle", "dequeued", "ttl", "execute"}, task : Tasks \cup {NoTask},
                             payload : Statuses \cup {Absent}, persist : BOOLEAN]]
    /\ listing \in [pc : {"idle", "get"}, todo : SUBSET Tasks, found : SUBSET Tasks,
                    sure : SUBSET Tasks]
    /\ \A w \in Savers : saver[w].pc # "idle" => saver[w].task \in Tasks
    /\ \A t \in Tasks : record[t] # Absent => t \in index

\* "Return all tasks in PENDING or RETRYING state" (list_pending_tasks): a task
\* whose record has been pending since before the call began is returned,
\* whatever is saved, deleted or expires between the reads of the listing.
ListingComplete ==
    listing.pc = "get" => listing.sure \subseteq listing.found \cup listing.todo

\* A task that has been assigned is never recorded as new again: create_task
\* saves before it gives up the lock under which submit_task takes the task off
\* the queue, so no save of PENDING is overtaken, though submit_task's own save
\* comes after releasing the lock and may be overtaken by any other.
NeverNewAgain ==
    [][\A t \in Tasks : record[t] \notin {"PENDING", Absent} => record'[t] # "PENDING"]_vars

\* Every recorded outcome has a time to live, if there is one at all, though the
\* question whether a key has one is asked outside of the transaction, and by
\* several savers at once: finished tasks do not stay in the store for good.
OutcomesExpire ==
    UsesTtl => \A t \in Tasks : record[t] \in Terminal => expiry[t] # "none"

\* "durable task repository", whose "implementations must be thread-safe": the
\* outcome of a task, once recorded, is not overwritten by an earlier status that
\* somebody saves outside of the system's lock.  The code does not keep it: no run
\* claims this, README section 6.
OutcomeKept ==
    [][\A t \in Tasks : SystemLockFree /\ record[t] \in Terminal
            => record'[t] \in Terminal \cup {Absent}]_vars

=============================================================================
