----------------------- MODULE TaskRepositoryProofs -----------------------
(***************************************************************************)
(* Theorems about TaskRepository, with any number of threads that save     *)
(* with and without the system's lock, and statuses that follow the table  *)
(* or do not: the listing is complete, a task once assigned is not         *)
(* recorded as new again, and every recorded outcome has a time to live.   *)
(***************************************************************************)
EXTENDS TaskRepository, TLAPS

\* Between serializing and writing, a saver has a status to write.
PayloadKnown ==
    \A w \in Savers : saver[w].pc \in {"ttl", "execute"} => saver[w].payload \in Statuses

TypeInv == TypeOK /\ PayloadKnown

\* The table has no statuses but those of TaskStatus, and none leads to PENDING.
LEMMA TransitionsTyped ==
    \A s \in Statuses : Transitions[s] \subseteq Statuses \ {"PENDING"}
  BY DEF Statuses, Transitions

\* Storing a record that the index knows keeps the types of what it touches.
LEMMA StoreTyped ==
    ASSUME TypeInv, NEW t \in Tasks, NEW r \in Statuses \cup {Absent}, Store(t, r)
    PROVE  /\ record' \in [Tasks -> Statuses \cup {Absent}]
           /\ \A u \in Tasks : record'[u] = IF u = t THEN r ELSE record[u]
           /\ listing' \in [pc : {"idle", "get"}, todo : SUBSET Tasks, found : SUBSET Tasks,
                            sure : SUBSET Tasks]
  BY DEF TypeInv, TypeOK, Store

\* The types, and that every record is in the index: save_task writes both in
\* one transaction, and delete_task removes both in one.
LEMMA TypeStep == TypeInv /\ [Next]_vars => TypeInv'
<1> SUFFICES ASSUME TypeInv, [Next]_vars PROVE TypeInv'
  OBVIOUS
<1> USE NothingAssumption
<1>1. CASE UNCHANGED vars
  BY <1>1 DEF TypeInv, TypeOK, PayloadKnown, vars
<1>2. ASSUME NEW t \in Tasks, Advance(t) PROVE TypeInv'
  <2>1. PICK s \in Statuses : status' = [status EXCEPT ![t] = s]
    BY <1>2, TransitionsTyped DEF Advance, TypeInv, TypeOK
  <2> QED BY <1>2, <2>1 DEF Advance, TypeInv, TypeOK, PayloadKnown
<1>3. ASSUME NEW t \in Tasks, TimePasses(t) PROVE TypeInv'
  <2>1. CASE expiry[t] = "long"
    BY <1>3, <2>1 DEF TimePasses, TypeInv, TypeOK, PayloadKnown
  <2>2. CASE expiry[t] = "short"
    <3>1. Store(t, Absent) /\ UNCHANGED <<status, index, saver>>
      BY <1>3, <2>2 DEF TimePasses
    <3>2. expiry' \in [Tasks -> {"none", "long", "short"}]
      BY <1>3 DEF TimePasses, TypeInv, TypeOK
    <3> QED BY <3>1, <3>2, StoreTyped DEF TypeInv, TypeOK, PayloadKnown
  <2> QED BY <1>3, <2>1, <2>2 DEF TimePasses
<1>4. ASSUME NEW t \in Tasks, DeleteTask(t) PROVE TypeInv'
  <2>1. Store(t, Absent) /\ UNCHANGED <<status, saver>>
    BY <1>4 DEF DeleteTask
  <2>2. expiry' \in [Tasks -> {"none", "long", "short"}] /\ index' = index \ {t}
    BY <1>4 DEF DeleteTask, TypeInv, TypeOK
  <2> QED BY <2>1, <2>2, StoreTyped DEF TypeInv, TypeOK, PayloadKnown
<1>5. ASSUME NEW t \in Tasks, ListGet(t) PROVE TypeInv'
  BY <1>5 DEF ListGet, TypeInv, TypeOK, PayloadKnown
<1>6. ASSUME NEW w \in Savers, NEW t \in Tasks, Dequeued(w, t) PROVE TypeInv'
  <2>1. saver' = [saver EXCEPT ![w] = [saver[w] EXCEPT !.pc = "dequeued", !.task = t]]
    BY <1>6 DEF Dequeued, TypeInv, TypeOK
  <2> QED BY <1>6, <2>1 DEF Dequeued, TypeInv, TypeOK, PayloadKnown
<1>7. ASSUME NEW w \in Savers, NEW t \in Tasks, Serialize(w, t) PROVE TypeInv'
  BY <1>7 DEF Serialize, TypeInv, TypeOK, PayloadKnown
<1>8. ASSUME NEW w \in Savers, AskTtl(w) PROVE TypeInv'
  <2> DEFINE limited == expiry[saver[w].task] = "long"
  <2>1. limited \in BOOLEAN
    OBVIOUS
  <2>2. /\ saver[w].task \in Tasks /\ saver[w].payload \in Statuses
        /\ saver' = [saver EXCEPT ![w] =
                [pc |-> "execute", task |-> saver[w].task, payload |-> saver[w].payload,
                 persist |-> limited]]
        /\ UNCHANGED <<status, record, expiry, index, listing>>
    BY <1>8 DEF AskTtl, TypeInv, TypeOK, PayloadKnown
  <2> HIDE DEF limited
  <2> QED BY <2>1, <2>2 DEF TypeInv, TypeOK, PayloadKnown
<1>9. ASSUME NEW w \in Savers, Execute(w) PROVE TypeInv'
  <2> DEFINE t == saver[w].task
             r == saver[w].payload
  <2>1. t \in Tasks /\ r \in Statuses
    BY <1>9 DEF Execute, TypeInv, TypeOK, PayloadKnown
  <2>2. Store(t, r) /\ index' = index \cup {t} /\ UNCHANGED status
    BY <1>9 DEF Execute, Indexed
  <2>3. expiry' \in [Tasks -> {"none", "long", "short"}]
    BY <1>9, <2>1 DEF Execute, NewExpiry, TypeInv, TypeOK
  <2>4. saver' = [saver EXCEPT ![w] = IdleSaver]
    BY <1>9 DEF Execute
  <2> HIDE DEF t, r
  <2> QED BY <2>1, <2>2, <2>3, <2>4, StoreTyped DEF IdleSaver, TypeInv, TypeOK, PayloadKnown
<1>10. ASSUME NEW w \in Savers, Fail(w) PROVE TypeInv'
  BY <1>10 DEF Fail, IdleSaver, TypeInv, TypeOK, PayloadKnown
<1>11. CASE ListIndex
  BY <1>11 DEF ListIndex, TypeInv, TypeOK, PayloadKnown
<1>12. CASE ListReturn
  BY <1>12 DEF ListReturn, IdleListing, TypeInv, TypeOK, PayloadKnown
<1> QED BY <1>1, <1>2, <1>3, <1>4, <1>5, <1>6, <1>7, <1>8, <1>9, <1>10, <1>11, <1>12 DEF Next

\* What TypeInv says of the first state.
LEMMA TypeInit == Init => TypeInv
  BY NothingAssumption DEF Init, IdleSaver, IdleListing, TypeInv, TypeOK, PayloadKnown, Statuses

\* The repository is well typed, and no record of it is missing in its index,
\* with any number of threads that save, delete and list.
THEOREM TypeCorrect == Spec => []TypeOK
<1>1. TypeInv => TypeOK
  BY DEF TypeInv
<1> QED BY <1>1, TypeInit, TypeStep, PTL DEF Spec

-----------------------------------------------------------------------------
(* The listing: what is surely pending has its record in the store, so that *)
(* the read of the record finds it.                                         *)

SureIsPending == \A t \in listing.sure : record[t] \in Waiting

ListingInv == TypeInv /\ SureIsPending /\ ListingComplete

\* Storing a record takes a task that is not pending any more off what is sure.
LEMMA StoreListing ==
    ASSUME ListingInv, NEW t \in Tasks, NEW r \in Statuses \cup {Absent}, Store(t, r)
    PROVE  SureIsPending' /\ ListingComplete'
<1>1. /\ \A u \in Tasks : record'[u] = IF u = t THEN r ELSE record[u]
      /\ listing.sure \subseteq Tasks
  BY StoreTyped DEF ListingInv, TypeInv, TypeOK
<1>2. /\ listing'.pc = listing.pc /\ listing'.todo = listing.todo
      /\ listing'.found = listing.found
      /\ listing'.sure = IF r \in Waiting THEN listing.sure ELSE listing.sure \ {t}
  BY DEF Store, ListingInv, TypeInv, TypeOK
<1> QED BY <1>1, <1>2 DEF ListingInv, SureIsPending, ListingComplete

\* Reads, saves and deletions in any order leave the listing complete.
LEMMA ListingStep == ListingInv /\ [Next]_vars => ListingInv'
<1> SUFFICES ASSUME ListingInv, [Next]_vars PROVE SureIsPending' /\ ListingComplete'
  BY TypeStep DEF ListingInv
<1>1. ASSUME UNCHANGED <<record, listing>> PROVE SureIsPending' /\ ListingComplete'
  BY <1>1 DEF ListingInv, SureIsPending, ListingComplete
<1>2. ASSUME NEW t \in Tasks, Advance(t) PROVE UNCHANGED <<record, listing>>
  BY <1>2 DEF Advance
<1>3. ASSUME NEW t \in Tasks, TimePasses(t) PROVE SureIsPending' /\ ListingComplete'
  BY <1>1, <1>3, StoreListing DEF TimePasses
<1>4. ASSUME NEW t \in Tasks, DeleteTask(t) PROVE SureIsPending' /\ ListingComplete'
  BY <1>4, StoreListing DEF DeleteTask
<1>5. ASSUME NEW t \in Tasks, ListGet(t) PROVE SureIsPending' /\ ListingComplete'
  BY <1>5 DEF ListGet, ListingInv, SureIsPending, ListingComplete, TypeInv, TypeOK
<1>6. ASSUME NEW w \in Savers, Execute(w) PROVE SureIsPending' /\ ListingComplete'
  <2>1. saver[w].task \in Tasks /\ saver[w].payload \in Statuses
    BY <1>6 DEF Execute, ListingInv, TypeInv, TypeOK, PayloadKnown
  <2> QED BY <1>6, <2>1, StoreListing DEF Execute
<1>7. ASSUME NEW w \in Savers, NEW t \in Tasks, Dequeued(w, t) \/ Serialize(w, t)
      PROVE  UNCHANGED <<record, listing>>
  BY <1>7 DEF Dequeued, Serialize
<1>8. ASSUME NEW w \in Savers, AskTtl(w) \/ Fail(w) PROVE UNCHANGED <<record, listing>>
  BY <1>8 DEF AskTtl, Fail
<1>9. CASE ListIndex
  <2>1. /\ listing'.pc = "get" /\ listing'.todo = index /\ listing'.found = {}
        /\ listing'.sure = {t \in Tasks : record[t] \in Waiting}
        /\ record' = record
    BY <1>9 DEF ListIndex
  <2>2. \A t \in Tasks : record[t] \in Waiting => record[t] # Absent
    BY NothingAssumption DEF Waiting, Statuses
  <2> QED BY <2>1, <2>2 DEF ListingInv, SureIsPending, ListingComplete, TypeInv, TypeOK
<1>10. CASE ListReturn
  BY <1>10 DEF ListReturn, IdleListing, SureIsPending, ListingComplete
<1>11. CASE UNCHANGED vars
  BY <1>1, <1>11 DEF vars
<1> QED BY <1>1, <1>2, <1>3, <1>4, <1>5, <1>6, <1>7, <1>8, <1>9, <1>10, <1>11 DEF Next

\* list_pending_tasks returns every task whose record has been pending since
\* the call began, whatever is saved, deleted or expires between its reads.
THEOREM ListingCorrect == Spec => []ListingComplete
<1>1. Init => ListingInv
  BY TypeInit DEF Init, IdleListing, ListingInv, SureIsPending, ListingComplete
<1>2. ListingInv => ListingComplete
  BY DEF ListingInv
<1> QED BY <1>1, <1>2, ListingStep, PTL DEF Spec

-----------------------------------------------------------------------------
(* New tasks.  A task that is recorded with another status than PENDING, or *)
(* that an unlocked saver has in hand, has been assigned; and who is about  *)
(* to write PENDING holds the lock, and nobody else has that task in hand.  *)

Writing(w) == saver[w].pc \in {"ttl", "execute"}

RecordedStarted == \A t \in Tasks : record[t] \notin {"PENDING", Absent} => status[t] # "PENDING"

InHandStarted ==
    \A w \in Savers :
        /\ saver[w].pc = "dequeued" => status[saver[w].task] # "PENDING"
        /\ Writing(w) /\ saver[w].payload # "PENDING" => status[saver[w].task] # "PENDING"

PendingUnderLock ==
    \A w \in Savers : Writing(w) /\ saver[w].payload = "PENDING" =>
        /\ w \in LockedSavers
        /\ record[saver[w].task] \in {"PENDING", Absent}
        /\ \A v \in Savers : saver[v].pc # "idle" /\ saver[v].task = saver[w].task => v = w

NewInv == TypeInv /\ RecordedStarted /\ InHandStarted /\ PendingUnderLock

NewParts == RecordedStarted /\ InHandStarted /\ PendingUnderLock

\* What stands is kept by a step that moves neither tasks nor records and puts
\* no task into anybody's hands.
LEMMA NewUntouched ==
    ASSUME NewInv, UNCHANGED <<status, record>>,
           \A v \in Savers :
               \/ saver'[v].pc = "idle"
               \/ saver'[v] = saver[v]
               \/ /\ Writing(v) /\ saver'[v].pc \in {"ttl", "execute"}
                  /\ saver'[v].task = saver[v].task /\ saver'[v].payload = saver[v].payload
    PROVE  NewParts'
  BY DEF NewInv, NewParts, RecordedStarted, InHandStarted, PendingUnderLock, Writing

\* A record that disappears.
LEMMA NewDrop ==
    ASSUME NewInv, NEW t \in Tasks, Store(t, Absent), UNCHANGED <<status, saver>>
    PROVE  NewParts'
<1>1. \A u \in Tasks : record'[u] = IF u = t THEN Absent ELSE record[u]
  BY StoreTyped DEF NewInv, TypeInv, TypeOK
<1>2. PendingUnderLock'
  BY <1>1 DEF NewInv, PendingUnderLock, Writing, TypeInv, TypeOK
<1> QED BY <1>1, <1>2 DEF NewInv, NewParts, RecordedStarted, InHandStarted, Writing

\* A thread serializes the task as it is now.
LEMMA NewSerialize ==
    ASSUME NewInv, NEW w \in Savers, NEW t \in Tasks, Serialize(w, t)
    PROVE  NewParts'
<1>1. PICK pc \in {"ttl", "execute"} :
        saver' = [saver EXCEPT ![w] =
            [pc |-> pc, task |-> t, payload |-> status[t], persist |-> FALSE]]
  BY DEF Serialize
<1>2. UNCHANGED <<status, record>> /\ status[t] \in Statuses
  BY DEF Serialize, NewInv, TypeInv, TypeOK
<1>3. \A v \in Savers : saver'[v] = IF v = w THEN [pc |-> pc, task |-> t, payload |-> status[t], persist |-> FALSE]
                                   ELSE saver[v]
  BY <1>1 DEF NewInv, TypeInv, TypeOK
<1>4. RecordedStarted' /\ InHandStarted'
  BY <1>2, <1>3 DEF NewInv, RecordedStarted, InHandStarted, Writing
<1>5. CASE status[t] = "PENDING"
  <2>1. w \in LockedSavers /\ SystemLockFree
    BY <1>5 DEF Serialize, NewInv, InHandStarted
  <2>2. \A v \in Savers : saver[v].pc # "idle" /\ saver[v].task = t => FALSE
    <3> SUFFICES ASSUME NEW v \in Savers, saver[v].pc # "idle", saver[v].task = t PROVE FALSE
      OBVIOUS
    <3>1. v \notin LockedSavers /\ saver[v].pc \in {"dequeued", "ttl", "execute"}
      BY <2>1 DEF SystemLockFree, NewInv, TypeInv, TypeOK
    <3> QED BY <1>5, <3>1 DEF NewInv, InHandStarted, PendingUnderLock, Writing
  <2>3. record[t] \in {"PENDING", Absent}
    BY <1>5 DEF NewInv, RecordedStarted
  <2>4. \A v \in Savers : ~(Writing(v) /\ saver[v].payload = "PENDING" /\ saver[v].task = t)
    BY <2>2 DEF Writing
  <2> QED BY <1>2, <1>3, <1>4, <1>5, <2>1, <2>2, <2>3, <2>4 DEF NewInv, NewParts, PendingUnderLock, Writing
<1>6. CASE status[t] # "PENDING"
  <2>1. \A v \in Savers \ {w} : Writing(v) /\ saver[v].payload = "PENDING" => saver[v].task # t
    <3> SUFFICES ASSUME NEW v \in Savers, v # w, Writing(v), saver[v].payload = "PENDING", saver[v].task = t
                 PROVE  FALSE
      OBVIOUS
    <3>1. v \in LockedSavers /\ saver[v].pc # "idle"
      BY DEF NewInv, PendingUnderLock, Writing
    <3>2. saver[w].pc = "dequeued" /\ saver[w].task = t
      BY <3>1 DEF Serialize, SystemLockFree
    <3> QED BY <3>2 DEF NewInv, PendingUnderLock
  <2> QED BY <1>2, <1>3, <1>4, <1>6, <2>1 DEF NewInv, NewParts, PendingUnderLock, Writing
<1> QED BY <1>5, <1>6

\* The transaction: if it writes PENDING, the task has not been recorded as more.
LEMMA NewExecute ==
    ASSUME NewInv, NEW w \in Savers, Execute(w)
    PROVE  /\ NewParts'
           /\ \A t \in Tasks : record[t] \notin {"PENDING", Absent} => record'[t] # "PENDING"
<1>1. PICK t \in Tasks : t = saver[w].task
  BY DEF Execute, NewInv, TypeInv, TypeOK
<1>2. PICK r \in Statuses : r = saver[w].payload
  BY DEF Execute, NewInv, TypeInv, PayloadKnown
<1>3. /\ \A u \in Tasks : record'[u] = IF u = t THEN r ELSE record[u]
      /\ UNCHANGED status
      /\ \A v \in Savers : saver'[v] = IF v = w THEN IdleSaver ELSE saver[v]
  BY <1>1, <1>2 DEF Execute, Store, NewInv, TypeInv, TypeOK
<1>4. Writing(w)
  BY DEF Execute, Writing
<1>5. RecordedStarted' /\ InHandStarted'
  BY <1>1, <1>2, <1>3, <1>4 DEF NewInv, RecordedStarted, InHandStarted, Writing, IdleSaver
<1>6. PendingUnderLock'
  <2> SUFFICES ASSUME NEW v \in Savers, v # w, Writing(v), saver[v].payload = "PENDING"
               PROVE  /\ v \in LockedSavers
                      /\ record'[saver[v].task] \in {"PENDING", Absent}
                      /\ \A x \in Savers : x # w /\ saver[x].pc # "idle" /\ saver[x].task = saver[v].task => x = v
    BY <1>3 DEF PendingUnderLock, Writing, IdleSaver
  <2>1. saver[v].task # t /\ saver[v].task \in Tasks
    BY <1>1, <1>4 DEF NewInv, PendingUnderLock, Writing, TypeInv, TypeOK
  <2> QED BY <1>3, <2>1 DEF NewInv, PendingUnderLock
<1>7. \A u \in Tasks : record[u] \notin {"PENDING", Absent} => record'[u] # "PENDING"
  BY <1>1, <1>2, <1>3, <1>4 DEF NewInv, PendingUnderLock
<1> QED BY <1>5, <1>6, <1>7 DEF NewParts

\* A task taken off the queue: it is assigned, and nobody holds the lock.
LEMMA NewDequeued ==
    ASSUME NewInv, NEW w \in Savers, NEW t \in Tasks, Dequeued(w, t)
    PROVE  NewParts'
<1>1. \A v \in Savers : saver'[v] = IF v = w THEN [saver[v] EXCEPT !.pc = "dequeued", !.task = t] ELSE saver[v]
  BY DEF Dequeued, NewInv, TypeInv, TypeOK
<1>2. /\ \A v \in Savers : ~(Writing(v) /\ saver[v].payload = "PENDING")
      /\ UNCHANGED <<status, record>> /\ status[t] # "PENDING"
  BY DEF Dequeued, SystemLockFree, NewInv, PendingUnderLock, Writing
<1>3. InHandStarted'
  <2> SUFFICES ASSUME NEW v \in Savers
               PROVE  /\ saver'[v].pc = "dequeued" => status'[saver'[v].task] # "PENDING"
                      /\ saver'[v].pc \in {"ttl", "execute"} /\ saver'[v].payload # "PENDING"
                            => status'[saver'[v].task] # "PENDING"
    BY DEF InHandStarted, Writing
  <2>1. CASE v = w
    <3>1. saver'[v].pc = "dequeued" /\ saver'[v].task = t
      BY <1>1, <2>1 DEF NewInv, TypeInv, TypeOK
    <3> QED BY <3>1, <1>2
  <2>2. CASE v # w
    <3>1. saver'[v] = saver[v]
      BY <1>1, <2>2
    <3> QED BY <3>1, <1>2 DEF NewInv, InHandStarted, Writing
  <2> QED BY <2>1, <2>2
<1>4. PendingUnderLock'
  <2>1. \A v \in Savers : ~(saver'[v].pc \in {"ttl", "execute"} /\ saver'[v].payload = "PENDING")
    BY <1>1, <1>2 DEF Writing, NewInv, TypeInv, TypeOK
  <2> QED BY <2>1 DEF PendingUnderLock, Writing
<1> QED BY <1>2, <1>3, <1>4 DEF NewInv, NewParts, RecordedStarted

LEMMA NewStep ==
    ASSUME NewInv, [Next]_vars
    PROVE  /\ NewInv'
           /\ \A t \in Tasks : record[t] \notin {"PENDING", Absent} => record'[t] # "PENDING"
<1> DEFINE Kept == /\ NewParts'
                   /\ \A t \in Tasks : record[t] \notin {"PENDING", Absent} => record'[t] # "PENDING"
<1> SUFFICES Kept
  BY TypeStep DEF NewInv, NewParts
<1>1. ASSUME UNCHANGED <<status, record, saver>> PROVE Kept
  BY <1>1, NewUntouched
<1>2. ASSUME NEW t \in Tasks, Advance(t) PROVE Kept
  <2>1. PICK s \in Statuses \ {"PENDING"} : status' = [status EXCEPT ![t] = s]
    BY <1>2, TransitionsTyped DEF Advance, NewInv, TypeInv, TypeOK
  <2>2. \A u \in Tasks : status[u] # "PENDING" => status'[u] # "PENDING"
    BY <2>1 DEF NewInv, TypeInv, TypeOK
  <2>3. UNCHANGED <<record, saver>>
    BY <1>2 DEF Advance
  <2>4. RecordedStarted'
    BY <2>2, <2>3 DEF NewInv, RecordedStarted
  <2>5. InHandStarted'
    BY <2>2, <2>3 DEF NewInv, InHandStarted, Writing, TypeInv, TypeOK
  <2> QED BY <2>3, <2>4, <2>5 DEF NewInv, NewParts, PendingUnderLock, Writing
<1>3. ASSUME NEW t \in Tasks, TimePasses(t) PROVE Kept
  <2>1. CASE UNCHANGED record
    BY <1>1, <1>3, <2>1 DEF TimePasses
  <2>2. CASE Store(t, Absent)
    <3>1. \A u \in Tasks : record'[u] = record[u] \/ record'[u] = Absent
      BY <2>2, StoreTyped DEF NewInv, TypeInv, TypeOK
    <3> QED BY <1>3, <2>2, <3>1, NewDrop, NothingAssumption DEF TimePasses, Statuses
  <2> QED BY <1>3, <2>1, <2>2 DEF TimePasses
<1>4. ASSUME NEW t \in Tasks, DeleteTask(t) PROVE Kept
  <2>1. \A u \in Tasks : record'[u] = record[u] \/ record'[u] = Absent
    BY <1>4, StoreTyped DEF DeleteTask, NewInv, TypeInv, TypeOK
  <2> QED BY <1>4, <2>1, NewDrop, NothingAssumption DEF DeleteTask, Statuses
<1>5. ASSUME NEW t \in Tasks, ListGet(t) PROVE Kept
  BY <1>1, <1>5 DEF ListGet
<1>6. ASSUME NEW w \in Savers, NEW t \in Tasks, Dequeued(w, t) PROVE Kept
  BY <1>6, NewDequeued DEF Dequeued
<1>7. ASSUME NEW w \in Savers, NEW t \in Tasks, Serialize(w, t) PROVE Kept
  BY <1>7, NewSerialize DEF Serialize
<1>8. ASSUME NEW w \in Savers, AskTtl(w) PROVE Kept
  <2>1. /\ Writing(w)
        /\ \A v \in Savers : v # w => saver'[v] = saver[v]
        /\ saver'[w].pc = "execute" /\ saver'[w].task = saver[w].task
        /\ saver'[w].payload = saver[w].payload
    BY <1>8 DEF AskTtl, Writing, NewInv, TypeInv, TypeOK
  <2> QED BY <1>8, <2>1, NewUntouched DEF AskTtl
<1>9. ASSUME NEW w \in Savers, Execute(w) PROVE Kept
  BY <1>9, NewExecute
<1>10. ASSUME NEW w \in Savers, Fail(w) PROVE Kept
  <2>1. \A v \in Savers : saver'[v].pc = "idle" \/ saver'[v] = saver[v]
    BY <1>10 DEF Fail, IdleSaver, NewInv, TypeInv, TypeOK
  <2> QED BY <1>10, <2>1, NewUntouched DEF Fail
<1>11. CASE ListIndex \/ ListReturn \/ UNCHANGED vars
  BY <1>1, <1>11 DEF ListIndex, ListReturn, vars
<1> HIDE DEF Kept
<1> QED BY <1>1, <1>2, <1>3, <1>4, <1>5, <1>6, <1>7, <1>8, <1>9, <1>10, <1>11 DEF Next

\* Once a task is recorded as assigned or further, no save records it as
\* PENDING again, whoever saves it and however the saves overtake each other.
THEOREM NewCorrect == Spec => NeverNewAgain
<1>1. Init => NewInv
  BY TypeInit DEF Init, IdleSaver, NewInv, RecordedStarted, InHandStarted, PendingUnderLock, Writing
<1>2. NewInv /\ [Next]_vars
        => NewInv' /\ [\A t \in Tasks : record[t] \notin {"PENDING", Absent} => record'[t] # "PENDING"]_vars
  BY NewStep
<1> QED BY <1>1, <1>2, PTL DEF Spec, NeverNewAgain

-----------------------------------------------------------------------------
(* Outcomes: whoever is going to persist a key writes a status that is not  *)
(* the outcome of its task in the same transaction.                         *)

PersistsUnfinished ==
    \A w \in Savers : saver[w].pc = "ttl" \/ saver[w].persist => saver[w].payload \notin Terminal

ExpiryInv == TypeInv /\ PersistsUnfinished /\ OutcomesExpire

LEMMA ExpiryStep == ExpiryInv /\ [Next]_vars => ExpiryInv'
<1> SUFFICES ASSUME ExpiryInv, [Next]_vars PROVE PersistsUnfinished' /\ OutcomesExpire'
  BY TypeStep DEF ExpiryInv
<1> USE DEF ExpiryInv
<1>1. ASSUME UNCHANGED <<record, expiry, saver>> PROVE PersistsUnfinished' /\ OutcomesExpire'
  BY <1>1 DEF PersistsUnfinished, OutcomesExpire
<1>2. ASSUME NEW t \in Tasks, Advance(t) \/ ListGet(t) PROVE PersistsUnfinished' /\ OutcomesExpire'
  BY <1>1, <1>2 DEF Advance, ListGet
<1>3. ASSUME NEW t \in Tasks, Store(t, Absent), expiry' = [expiry EXCEPT ![t] = "none"], UNCHANGED saver
      PROVE  PersistsUnfinished' /\ OutcomesExpire'
  <2>1. \A u \in Tasks : /\ record'[u] = IF u = t THEN Absent ELSE record[u]
                         /\ expiry'[u] = IF u = t THEN "none" ELSE expiry[u]
    BY <1>3, StoreTyped DEF TypeInv, TypeOK
  <2>2. Absent \notin Terminal
    BY NothingAssumption DEF Terminal, Statuses
  <2> QED BY <1>3, <2>1, <2>2 DEF PersistsUnfinished, OutcomesExpire
<1>4. ASSUME NEW t \in Tasks, TimePasses(t) PROVE PersistsUnfinished' /\ OutcomesExpire'
  <2>1. CASE expiry[t] = "long"
    <3>1. /\ UNCHANGED <<record, saver>>
          /\ \A u \in Tasks : expiry'[u] = IF u = t THEN "short" ELSE expiry[u]
      BY <1>4, <2>1 DEF TimePasses, TypeInv, TypeOK
    <3> QED BY <3>1 DEF PersistsUnfinished, OutcomesExpire
  <2>2. CASE expiry[t] = "short"
    BY <1>3, <1>4, <2>2 DEF TimePasses
  <2> QED BY <1>4, <2>1, <2>2 DEF TimePasses
<1>5. ASSUME NEW t \in Tasks, DeleteTask(t) PROVE PersistsUnfinished' /\ OutcomesExpire'
  BY <1>3, <1>5 DEF DeleteTask
<1>6. ASSUME NEW w \in Savers, UNCHANGED <<record, expiry>>,
             \A v \in Savers : v # w => saver'[v] = saver[v],
             saver'[w].pc = "ttl" \/ saver'[w].persist => saver'[w].payload \notin Terminal
      PROVE  PersistsUnfinished' /\ OutcomesExpire'
  BY <1>6 DEF PersistsUnfinished, OutcomesExpire
<1>7. ASSUME NEW w \in Savers, NEW t \in Tasks, Dequeued(w, t) PROVE PersistsUnfinished' /\ OutcomesExpire'
  <2>1. /\ \A v \in Savers : v # w => saver'[v] = saver[v]
        /\ saver'[w].pc = "dequeued" /\ saver'[w].persist = saver[w].persist
        /\ saver'[w].payload = saver[w].payload
    BY <1>7 DEF Dequeued, TypeInv, TypeOK
  <2> QED BY <1>6, <1>7, <2>1 DEF Dequeued, PersistsUnfinished
<1>8. ASSUME NEW w \in Savers, NEW t \in Tasks, Serialize(w, t) PROVE PersistsUnfinished' /\ OutcomesExpire'
  <2>1. /\ \A v \in Savers : v # w => saver'[v] = saver[v]
        /\ saver'[w] = [pc |-> IF UsesTtl /\ status[t] \notin Terminal THEN "ttl" ELSE "execute",
                        task |-> t, payload |-> status[t], persist |-> FALSE]
    BY <1>8 DEF Serialize, TypeInv, TypeOK
  <2> QED BY <1>6, <1>8, <2>1 DEF Serialize
<1>9. ASSUME NEW w \in Savers, AskTtl(w) PROVE PersistsUnfinished' /\ OutcomesExpire'
  <2>1. /\ \A v \in Savers : v # w => saver'[v] = saver[v]
        /\ saver'[w].payload = saver[w].payload
    BY <1>9 DEF AskTtl, TypeInv, TypeOK
  <2> QED BY <1>6, <1>9, <2>1 DEF AskTtl, PersistsUnfinished
<1>10. ASSUME NEW w \in Savers, Fail(w) PROVE PersistsUnfinished' /\ OutcomesExpire'
  BY <1>6, <1>10 DEF Fail, IdleSaver, TypeInv, TypeOK
<1>11. ASSUME NEW w \in Savers, Execute(w) PROVE PersistsUnfinished' /\ OutcomesExpire'
  <2>1. PICK t \in Tasks : t = saver[w].task
    BY <1>11 DEF Execute, TypeInv, TypeOK
  <2>2. PICK r \in Statuses : r = saver[w].payload
    BY <1>11 DEF Execute, TypeInv, PayloadKnown
  <2>3. /\ \A u \in Tasks : /\ record'[u] = IF u = t THEN r ELSE record[u]
                            /\ u # t => expiry'[u] = expiry[u]
        /\ expiry'[t] = NewExpiry(saver[w])
        /\ \A v \in Savers : saver'[v] = IF v = w THEN IdleSaver ELSE saver[v]
    BY <1>11, <2>1, <2>2 DEF Execute, Store, TypeInv, TypeOK
  <2>4. UsesTtl /\ r \in Terminal => expiry'[t] = "long"
    BY <2>2, <2>3 DEF NewExpiry
  <2> QED BY <2>3, <2>4 DEF PersistsUnfinished, OutcomesExpire, IdleSaver
<1>12. CASE ListIndex \/ ListReturn \/ UNCHANGED vars
  BY <1>1, <1>12 DEF ListIndex, ListReturn, vars
<1> QED BY <1>2, <1>4, <1>5, <1>7, <1>8, <1>9, <1>10, <1>11, <1>12 DEF Next

\* The record of a finished task has a time to live whenever the repository
\* uses one, though savers ask for the time to live outside of the transaction.
THEOREM ExpiryCorrect == Spec => []OutcomesExpire
<1>1. Init => ExpiryInv
  BY TypeInit, NothingAssumption
     DEF Init, IdleSaver, ExpiryInv, PersistsUnfinished, OutcomesExpire, Terminal, Statuses
<1>2. ExpiryInv => OutcomesExpire
  BY DEF ExpiryInv
<1> QED BY <1>1, <1>2, ExpiryStep, PTL DEF Spec

=============================================================================
