----------------------------- MODULE EventStore -----------------------------
(***************************************************************************)
(* The journal of task events (src/agents/events.py) on each of its three  *)
(* backends, as the factory (src/agents/persistence_factory.py) makes it   *)
(* from the environment.  An append that fails may have been carried out   *)
(* nevertheless, and may be tried again.  SqlStore models the transactions *)
(* of the SQL backend; here they are atomic.                               *)
(***************************************************************************)
EXTENDS Integers, Sequences, FiniteSets, SequencesExt

CONSTANTS
    Sources,       \* threads that emit events
    EventTasks,    \* the tasks the events are about
    NoLimit,       \* max_events is None
    LimitSettings, \* values of REDIS_MAX_EVENTS
    MaxEvents,     \* bound: the events that are made
    MaxAttempts    \* bound: the attempts to append one of them

ASSUME LimitAssumption == NoLimit \notin Nat /\ LimitSettings \subseteq Int

VARIABLES
    backend,        \* PERSISTENCE_BACKEND
    limit,          \* max_events of Redis
    mainList,       \* _events; the rows of the table; the list of all events
    taskList,       \* task -> the list of its events; unused by SQL
    source,         \* thread -> the event it is to append
    made,           \* the number of events made
    returned        \* history: the events whose append has returned

eventVars == <<backend, limit, mainList, taskList, source, made, returned>>

NoEvent == [id |-> 0, task |-> NoLimit, timestamp |-> 0]
Silent == [event |-> NoEvent, attempts |-> 0]

\* _get_positive_int_env
PositiveOrNone(n) == IF n > 0 THEN n ELSE NoLimit

\* make_event_store; a backend it does not know is the in-memory one.
EventInit ==
    /\ backend \in {"memory", "sql", "redis"}
    /\ \E n \in LimitSettings : limit = IF backend = "redis" THEN PositiveOrNone(n) ELSE NoLimit
    /\ mainList = <<>>
    /\ taskList = [t \in EventTasks |-> <<>>]
    /\ source = [s \in Sources |-> Silent]
    /\ made = 0
    /\ returned = {}

\* A TaskEvent gets its id and its time when it is made.  The clock may not
\* have moved since the last event.
MakeEvent(s, t, now) ==
    /\ source[s] = Silent
    /\ made < MaxEvents
    /\ made' = made + 1
    /\ source' = [source EXCEPT ![s].event = [id |-> made', task |-> t, timestamp |-> now]]
    /\ UNCHANGED <<backend, limit, mainList, taskList, returned>>

Emitting(s) == source[s] # Silent /\ source[s].attempts < MaxAttempts

-----------------------------------------------------------------------------

\* Faulty variant of Trimmed: one event too many.
TrimmedOffByOne(list) ==
    IF limit = NoLimit \/ Len(list) <= limit THEN list
    ELSE SubSeq(list, Len(list) - limit, Len(list))

\* ltrim(key, -max_events, -1), in Redis only
Trimmed(list) ==
    IF limit = NoLimit \/ Len(list) <= limit THEN list
    ELSE SubSeq(list, Len(list) - limit + 1, Len(list))

\* Faulty variant of TaskAppended: the lists of the tasks are trimmed, too.
TaskTrimmed(e) ==
    [taskList EXCEPT ![e.task] = Trimmed(Append(@, e))]

TaskAppended(e) == [taskList EXCEPT ![e.task] = Append(@, e)]

\* The primary key of the table refuses an event that is there.
Refused(e) == backend = "sql" /\ Contains(mainList, e)

\* append; the lists are written under one lock, or in one transaction.
EventWritten(e) ==
    /\ ~Refused(e)
    /\ mainList' = Trimmed(Append(mainList, e))
    /\ taskList' = IF backend = "sql" THEN taskList ELSE TaskAppended(e)

AppendReturns(s) ==
    /\ Emitting(s)
    /\ EventWritten(source[s].event)
    /\ returned' = returned \cup {source[s].event}
    /\ source' = [source EXCEPT ![s] = Silent]
    /\ UNCHANGED <<backend, limit, made>>

\* The connection fails: before the transaction or after it, when only the
\* answer is lost.  The caller gets an exception and may call again.
AppendRaises(s) ==
    /\ Emitting(s)
    /\ backend # "memory"
    /\ \/ EventWritten(source[s].event)
       \/ UNCHANGED <<mainList, taskList>>
    /\ source' = [source EXCEPT ![s].attempts = @ + 1]
    /\ UNCHANGED <<backend, limit, made, returned>>

GiveUp(s) ==
    /\ source[s].attempts > 0
    /\ source' = [source EXCEPT ![s] = Silent]
    /\ UNCHANGED <<backend, limit, mainList, taskList, made, returned>>

\* The process ends and starts again: the in-memory store is empty.
Restart ==
    /\ source' = [s \in Sources |-> Silent]
    /\ \/ /\ backend = "memory"
          /\ mainList' = <<>>
          /\ taskList' = [t \in EventTasks |-> <<>>]
          /\ returned' = {}
       \/ backend # "memory" /\ UNCHANGED <<mainList, taskList, returned>>
    /\ UNCHANGED <<backend, limit, made>>

EventNext ==
    \/ \E s \in Sources, t \in EventTasks, now \in made .. made + 1 : MakeEvent(s, t, now)
    \/ \E s \in Sources : AppendReturns(s) \/ AppendRaises(s) \/ GiveUp(s)
    \/ Restart

EventSpec == EventInit /\ [][EventNext]_eventVars

-----------------------------------------------------------------------------
(* What is read: each call is the set of the lists it may return           *)

\* order_by(timestamp): every row once; rows of one timestamp come in any order.
ByTimestamp(rows) ==
    {list \in [1 .. Cardinality(rows) -> rows] :
        \A i, j \in DOMAIN list :
            i < j => list[i] # list[j] /\ list[i].timestamp <= list[j].timestamp}

OfTask(rows, t) == {e \in rows : e.task = t}

get_all_events ==
    IF backend = "sql" THEN ByTimestamp(ToSet(mainList)) ELSE {mainList}

get_events_for_task(t) ==
    IF backend = "sql" THEN ByTimestamp(OfTask(ToSet(mainList), t)) ELSE {taskList[t]}

PlacesOf(list, t) == {i \in DOMAIN list : list[i].task = t}

\* The events on a list that come after the i-th and are of the same task.
LaterThan(list, i) == Cardinality({j \in PlacesOf(list, list[i].task) : i < j})

\* Two reads of one table may order the events of one timestamp differently.
Equivalent(e, f) == IF backend = "sql" THEN e.timestamp = f.timestamp ELSE e = f

\* Trimming forgets the oldest events and no others: what is read of one task
\* ends with what is read of all, in the same order, and nothing is missing
\* from the latter unless it holds as many events as it may.
ViewsAgree ==
    \A all \in get_all_events, t \in EventTasks :
        \A found \in get_events_for_task(t) :
            /\ \A i \in PlacesOf(all, t) :
                    /\ LaterThan(all, i) < Len(found)
                    /\ Equivalent(found[Len(found) - LaterThan(all, i)], all[i])
            /\ limit # NoLimit => Len(all) <= limit
            /\ \/ limit # NoLimit /\ Len(all) = limit
               \/ Len(found) = Cardinality(PlacesOf(all, t))

\* "Append-only", "durable": an event whose append has returned is found among
\* those of its task ever after, in spite of trimming, lost answers and
\* restarts; and once only, except in Redis, which takes what is tried again
\* for another event.
AcknowledgedRead ==
    \A e \in returned : \A found \in get_events_for_task(e.task) :
        LET times == Cardinality({i \in DOMAIN found : found[i] = e})
        IN  times = 1 \/ (times > 1 /\ backend = "redis")

=============================================================================
