--------------------------- MODULE StorageProofs ---------------------------
(***************************************************************************)
(* What is kept by the databases behind the system.  SqlStore with a       *)
(* connection for each caller, as the pool of every database but sqlite    *)
(* gives them out: what has been acknowledged is kept, for all sets of     *)
(* callers, rows and contents.  TaskRecords: what a task is after any      *)
(* number of restarts, for all limits of its retries.  EventStore: the two *)
(* views of the journal agree, and what has been acknowledged is read, on  *)
(* each backend, for all numbers of threads, events and attempts.          *)
(***************************************************************************)
EXTENDS SqlStore, TaskRecords, EventStore, FiniteSetTheorems, SequenceTheorems, TLAPS

-----------------------------------------------------------------------------
(* Transactions                                                            *)

\* The open transaction of a caller is the one row it has written, and
\* nothing else; what is committed is what has been acknowledged.
OwnTransaction(c) ==
    /\ DOMAIN uncommitted[c] = IF caller[c].pc = "executed" THEN {caller[c].id} ELSE {}
    /\ caller[c].pc = "executed" =>
            /\ caller[c].id \in Ids
            /\ caller[c].row \in Row
            /\ uncommitted[c][caller[c].id] = caller[c].row

SqlInv ==
    /\ table \in [Ids -> Row]
    /\ acknowledged = table
    /\ DOMAIN uncommitted = Callers
    /\ caller \in [Callers -> [pc : {"idle", "executed", "reading"},
                               id : Ids \cup {NoRow}, row : Row]]
    /\ \A c \in Callers : OwnTransaction(c)

-----------------------------------------------------------------------------

LEMMA InitSqlInv ==
    ASSUME ~SharedConnection, SqlInit
    PROVE  SqlInv
  BY DEF SqlInit, SqlInv, OwnTransaction, Resting, NoWrites, Row, Connections, Connection

LEMMA UpsertPreserves ==
    ASSUME ~SharedConnection, SqlInv,
           NEW c \in Callers, NEW i \in Ids, NEW r \in Row, Upsert(c, i, r)
    PROVE  SqlInv'
  <1>1. DOMAIN uncommitted' = Callers
    BY DEF SqlInv, Upsert, Connection
  <1>2. caller' \in [Callers -> [pc : {"idle", "executed", "reading"},
                                 id : Ids \cup {NoRow}, row : Row]]
    BY DEF SqlInv, Upsert
  <1>3. ASSUME NEW d \in Callers
        PROVE  OwnTransaction(d)'
    <2>1. CASE d = c
      BY <2>1 DEF SqlInv, Upsert, OwnTransaction, Connection, RowWritten, Found
    <2>2. CASE d # c
      BY <2>2 DEF SqlInv, Upsert, OwnTransaction, Connection
    <2> QED BY <2>1, <2>2
  <1> QED BY <1>1, <1>2, <1>3 DEF SqlInv, Upsert

LEMMA WithoutCommitPreserves ==
    ASSUME ~SharedConnection, SqlInv, NEW c \in Callers, WithoutCommit(c)
    PROVE  SqlInv'
  <1>1. ASSUME NEW d \in Callers
        PROVE  OwnTransaction(d)'
    BY DEF SqlInv, WithoutCommit, OwnTransaction, Resting
  <1> QED BY <1>1 DEF SqlInv, WithoutCommit, Resting, Row

\* The commit writes the caller's own row: it is acknowledged as it is committed.
LEMMA CommitPreserves ==
    ASSUME ~SharedConnection, SqlInv, NEW c \in Callers, Commit(c)
    PROVE  SqlInv'
  <1>1. OwnTransaction(c) /\ caller[c].pc = "executed"
    BY DEF SqlInv, Commit
  <1>2. table' = [table EXCEPT ![caller[c].id] = caller[c].row]
    BY <1>1 DEF SqlInv, OwnTransaction, Commit, Found, Connection
  <1>3. acknowledged' = table' /\ table' \in [Ids -> Row]
    BY <1>1, <1>2 DEF SqlInv, OwnTransaction, Commit
  <1>4. ASSUME NEW d \in Callers
        PROVE  OwnTransaction(d)'
    BY DEF SqlInv, Commit, OwnTransaction, Resting, NoWrites, Connection
  <1> QED BY <1>3, <1>4 DEF SqlInv, Commit, Resting, Row, Connection

LEMMA ClosePreserves ==
    ASSUME ~SharedConnection, SqlInv, NEW c \in Callers, Close(c)
    PROVE  SqlInv'
  <1>1. ASSUME NEW d \in Callers
        PROVE  OwnTransaction(d)'
    BY DEF SqlInv, Close, OwnTransaction, Resting, NoWrites, Connection
  <1> QED BY <1>1 DEF SqlInv, Close, Resting, Row, Connection

LEMMA SqlInvStep ==
    ASSUME ~SharedConnection, SqlInv, [SqlNext]_sqlVars
    PROVE  SqlInv'
  <1>1. CASE SqlNext
    <2>1. PICK c \in Callers :
            \/ \E i \in Ids, r \in Row : Upsert(c, i, r)
            \/ \E i \in Ids, r \in Contents : Insert(c, i, r)
            \/ WithoutCommit(c)
            \/ Commit(c)
            \/ Close(c)
      BY <1>1 DEF SqlNext
    <2>2. CASE \E i \in Ids, r \in Row : Upsert(c, i, r)
      BY <2>2, UpsertPreserves
    <2>3. CASE \E i \in Ids, r \in Contents : Insert(c, i, r)
      <3>1. PICK i \in Ids, r \in Contents : Upsert(c, i, r)
        BY <2>3 DEF Insert
      <3> QED BY <3>1, UpsertPreserves DEF Row
    <2> QED BY <2>1, <2>2, <2>3, WithoutCommitPreserves, CommitPreserves, ClosePreserves
  <1>2. CASE UNCHANGED sqlVars
    BY <1>2 DEF sqlVars, SqlInv, OwnTransaction
  <1> QED BY <1>1, <1>2

-----------------------------------------------------------------------------

\* With a connection for each caller, no call undoes what another has written: a
\* row nobody is writing holds what the last call that returned has written to it.
THEOREM AcknowledgedCorrect ==
    ASSUME ~SharedConnection
    PROVE  SqlSpec => []AcknowledgedKept
  <1>1. SqlInit => SqlInv
    BY InitSqlInv
  <1>2. SqlInv /\ [SqlNext]_sqlVars => SqlInv'
    BY SqlInvStep
  <1>3. SqlInv => AcknowledgedKept
    BY DEF SqlInv, AcknowledgedKept
  <1> QED BY <1>1, <1>2, <1>3, PTL DEF SqlSpec

-----------------------------------------------------------------------------
(* Restarts                                                                *)

TaskRecord ==
    [priority      : PriorityNames,
     assigned_to   : {None, EmptyText, "agent"},
     status        : {"RETRYING", "FAILED", "COMPLETED"},
     retry_count   : Nat,
     max_retries   : Nat,
     error         : Messages,
     result        : Results,
     next_retry_at : {None, EmptyText, "time"}]

RecordTypes ==
    /\ database \in {"sql", "redis"}
    /\ restored \in TaskRecord
    /\ spared \in TaskRecord

\* SQL takes 0 retries for no value.
Exempt == database = "sql" /\ spared.max_retries = 0

\* Two texts that Redis does not tell apart.
Alike(x, y) == x = y \/ (database = "redis" /\ {x, y} \subseteq {None, EmptyText})

\* What decides about the course of the task is equal; what does not, differs at
\* most in what a database forgets.
RecordsAgree ==
    /\ \A f \in {"priority", "status", "retry_count", "max_retries"} : restored[f] = spared[f]
    /\ \A f \in {"assigned_to", "error", "next_retry_at"} : Alike(restored[f], spared[f])
    /\ restored.result = spared.result \/ (restored.result = "list" /\ spared.result = "tuple")

RecordInv == RecordTypes /\ (Exempt \/ RecordsAgree)

LEMMA InitRecordInv == RecordsInit => RecordInv
  <1> SUFFICES ASSUME RecordsInit PROVE RecordInv
    OBVIOUS
  <1>1. PICK name \in PriorityNames, bound \in RetryLimits, agent \in {None, "agent"} :
            restored = [priority |-> name, assigned_to |-> agent, status |-> "RETRYING",
                        retry_count |-> 0, max_retries |-> bound, error |-> None,
                        result |-> None, next_retry_at |-> None]
    BY DEF RecordsInit
  <1>2. spared = restored /\ bound \in Nat /\ database \in {"sql", "redis"}
    BY RetryLimitsAssumption DEF RecordsInit
  <1>3. restored \in TaskRecord
    BY <1>1, <1>2 DEF TaskRecord, Messages, Results
  <1> QED BY <1>2, <1>3 DEF RecordInv, RecordTypes, RecordsAgree, Alike

LEMMA FailurePreserves ==
    ASSUME RecordInv, NEW message \in Messages, AttemptFails(message)
    PROVE  RecordInv'
  <1>1. RecordTypes'
    <2>1. ASSUME NEW task \in TaskRecord PROVE Failed(task, message) \in TaskRecord
      <3>1. /\ task.retry_count + 1 \in Nat
            /\ {None, "time"} \subseteq {None, EmptyText, "time"}
            /\ "FAILED" \in {"RETRYING", "FAILED", "COMPLETED"}
        BY DEF TaskRecord
      <3> QED BY <3>1 DEF Failed, TaskRecord
    <2> QED BY <2>1 DEF RecordInv, RecordTypes, AttemptFails
  <1>2. Exempt => Exempt'
    BY DEF RecordInv, RecordTypes, TaskRecord, AttemptFails, Failed, Exempt
  <1>3. RecordsAgree => RecordsAgree'
    BY DEF RecordInv, RecordTypes, TaskRecord, AttemptFails, Failed, RecordsAgree, Alike
  <1> QED BY <1>1, <1>2, <1>3 DEF RecordInv

LEMMA SuccessPreserves ==
    ASSUME RecordInv, NEW value \in Results, AttemptSucceeds(value)
    PROVE  RecordInv'
  <1>1. RecordTypes'
    BY DEF RecordInv, RecordTypes, TaskRecord, AttemptSucceeds, Succeeded, Messages
  <1>2. Exempt => Exempt'
    BY DEF RecordInv, RecordTypes, TaskRecord, AttemptSucceeds, Succeeded, Exempt
  <1>3. RecordsAgree => RecordsAgree'
    BY DEF RecordInv, RecordTypes, TaskRecord, AttemptSucceeds, Succeeded, RecordsAgree, Alike
  <1> QED BY <1>1, <1>2, <1>3 DEF RecordInv

LEMMA RestartPreserves ==
    ASSUME RecordInv, Restored
    PROVE  RecordInv'
  <1> USE DEF RecordInv, RecordTypes, TaskRecord, Restored, ToPriority, NumberOr, TextOr, ThroughJson
  <1>1. CASE database = "sql"
    <2>1. restored' = ThroughSql(restored) /\ UNCHANGED <<database, spared>>
      BY <1>1
    <2>2. RecordTypes'
      <3>1. /\ ToPriority(restored.priority) \in PriorityNames
            /\ ThroughJson(restored.result) \in Results
            /\ NumberOr(restored.max_retries, 3) \in Nat
        BY DEF Results
      <3> HIDE DEF ToPriority, ThroughJson, NumberOr
      <3> QED BY <2>1, <3>1 DEF ThroughSql
    <2>3. RecordsAgree /\ ~Exempt => RecordsAgree'
      BY <1>1, <2>1 DEF ThroughSql, RecordsAgree, Alike, Exempt
    <2> QED BY <2>1, <2>2, <2>3 DEF Exempt
  <1>2. CASE database = "redis"
    <2>1. restored' = ThroughRedis(restored) /\ UNCHANGED <<database, spared>>
      BY <1>2
    <2>2. RecordTypes'
      BY <2>1 DEF ThroughRedis, Messages, Results
    <2>3. RecordsAgree => RecordsAgree'
      BY <1>2, <2>1 DEF ThroughRedis, RecordsAgree, Alike
    <2> QED BY <1>2, <2>1, <2>2, <2>3 DEF Exempt
  <1> QED BY <1>1, <1>2

\* No restart changes when a task is over or what comes of it: it makes as many
\* attempts as it would have made, and keeps what the databases can tell apart.
THEOREM RestartCorrect == RecordsSpec => []RestartUnnoticed
  <1>1. RecordInv /\ [RecordsNext]_recordVars => RecordInv'
    <2> SUFFICES ASSUME RecordInv, [RecordsNext]_recordVars PROVE RecordInv'
      OBVIOUS
    <2>1. CASE UNCHANGED recordVars
      BY <2>1 DEF recordVars, RecordInv, RecordTypes, Exempt, RecordsAgree, Alike
    <2> QED BY <2>1, FailurePreserves, SuccessPreserves, RestartPreserves DEF RecordsNext
  <1>2. RecordInv => RestartUnnoticed
    <2> SUFFICES ASSUME RecordTypes, RecordsAgree, NEW f \in DOMAIN restored
                 PROVE  \/ restored[f] = spared[f]
                        \/ database = "redis" /\ {restored[f], spared[f]} = {None, EmptyText}
                        \/ restored[f] = "list" /\ spared[f] = "tuple"
      BY DEF RecordInv, RestartUnnoticed, Exempt
    <2>1. f \in {"priority", "assigned_to", "status", "retry_count", "max_retries", "error",
                 "result", "next_retry_at"}
      BY DEF RecordTypes, TaskRecord
    <2>2. ASSUME Alike(restored[f], spared[f])
          PROVE  \/ restored[f] = spared[f]
                 \/ database = "redis" /\ {restored[f], spared[f]} = {None, EmptyText}
      BY <2>2 DEF Alike
    <2> QED BY <2>1, <2>2 DEF RecordsAgree
  <1> QED BY <1>1, <1>2, InitRecordInv, PTL DEF RecordsSpec

-----------------------------------------------------------------------------
(* The journal: lists that are appended to and cut                         *)

Events == [id : Nat \ {0}, task : EventTasks, timestamp : Nat]

\* The latest events of the task on the list are what found ends with.
EndsAlike(list, found, t) ==
    \A i \in PlacesOf(list, t) :
        /\ LaterThan(list, i) < Len(found)
        /\ found[Len(found) - LaterThan(list, i)] = list[i]

LEMMA PlacesAreFinite ==
    ASSUME NEW list \in Seq(Events), NEW t
    PROVE  /\ PlacesOf(list, t) \subseteq 1 .. Len(list)
           /\ IsFiniteSet(PlacesOf(list, t))
           /\ Cardinality(PlacesOf(list, t)) \in Nat
           /\ \A i : /\ IsFiniteSet({j \in PlacesOf(list, t) : i < j})
                     /\ Cardinality({j \in PlacesOf(list, t) : i < j}) \in Nat
  <1>1. PlacesOf(list, t) \subseteq 1 .. Len(list)
    BY DEF PlacesOf
  <1>2. IsFiniteSet(1 .. Len(list))
    BY FS_Interval
  <1>3. IsFiniteSet(PlacesOf(list, t))
    BY <1>1, <1>2, FS_Subset
  <1>4. \A i : {j \in PlacesOf(list, t) : i < j} \subseteq PlacesOf(list, t)
    OBVIOUS
  <1>5. \A i : IsFiniteSet({j \in PlacesOf(list, t) : i < j})
    BY <1>3, <1>4, FS_Subset
  <1> QED BY <1>1, <1>3, <1>5, FS_CardinalityType

\* On both lists, the event is the last of its task.
LEMMA AppendToBoth ==
    ASSUME NEW list \in Seq(Events), NEW found \in Seq(Events), NEW e \in Events,
           EndsAlike(list, found, e.task)
    PROVE  /\ EndsAlike(Append(list, e), Append(found, e), e.task)
           /\ Cardinality(PlacesOf(Append(list, e), e.task))
                = Cardinality(PlacesOf(list, e.task)) + 1
  <1> DEFINE t == e.task
             n == Len(list)
             longer == Append(list, e)
             longerFound == Append(found, e)
             places == PlacesOf(list, t)
  <1>1. /\ longer \in Seq(Events) /\ Len(longer) = n + 1 /\ n \in Nat
        /\ longer[n + 1] = e
        /\ \A i \in 1 .. n : longer[i] = list[i]
    OBVIOUS
  <1>2. /\ longerFound \in Seq(Events) /\ Len(longerFound) = Len(found) + 1
        /\ Len(found) \in Nat
        /\ longerFound[Len(found) + 1] = e
        /\ \A i \in 1 .. Len(found) : longerFound[i] = found[i]
    OBVIOUS
  <1>3. places \subseteq 1 .. n /\ IsFiniteSet(places)
    BY PlacesAreFinite
  <1>4. PlacesOf(longer, t) = places \cup {n + 1} /\ n + 1 \notin places
    BY <1>1 DEF PlacesOf
  <1>5. Cardinality(PlacesOf(longer, t)) = Cardinality(places) + 1
    BY <1>3, <1>4, FS_AddElement
  <1>6. ASSUME NEW i \in PlacesOf(longer, t)
        PROVE  /\ LaterThan(longer, i) < Len(longerFound)
               /\ longerFound[Len(longerFound) - LaterThan(longer, i)] = longer[i]
    <2>0. longer[i].task = t
      BY DEF PlacesOf
    <2>1. LaterThan(longer, i) = Cardinality({j \in PlacesOf(longer, t) : i < j})
      BY <2>0 DEF LaterThan
    <2>2. CASE i = n + 1
      <3>1. {j \in PlacesOf(longer, t) : i < j} = {}
        BY <1>1, <1>3, <1>4, <2>2
      <3>2. LaterThan(longer, i) = 0
        BY <2>1, <3>1, FS_EmptySet
      <3> QED BY <1>1, <1>2, <2>2, <3>2
    <2>3. CASE i \in places
      <3> DEFINE later == {j \in places : i < j}
      <3>1. {j \in PlacesOf(longer, t) : i < j} = later \cup {n + 1} /\ n + 1 \notin later
        BY <1>1, <1>3, <1>4, <2>3
      <3>2. IsFiniteSet(later) /\ Cardinality(later) \in Nat
        BY PlacesAreFinite
      <3>3. LaterThan(longer, i) = Cardinality(later) + 1
        BY <2>1, <3>1, <3>2, FS_AddElement
      <3>4. list[i].task = t /\ LaterThan(list, i) = Cardinality(later)
        BY <2>3 DEF PlacesOf, LaterThan
      <3>5. Cardinality(later) < Len(found) /\ found[Len(found) - Cardinality(later)] = list[i]
        BY <2>3, <3>4 DEF EndsAlike
      <3>6. /\ Len(found) - Cardinality(later) \in 1 .. Len(found)
            /\ Len(found) + 1 - (Cardinality(later) + 1) = Len(found) - Cardinality(later)
            /\ Cardinality(later) + 1 < Len(found) + 1
        BY <1>2, <3>2, <3>5
      <3>7. longer[i] = list[i]
        BY <1>1, <1>3, <2>3
      <3> HIDE DEF later, longer, longerFound
      <3>8. /\ LaterThan(longer, i) < Len(longerFound)
            /\ Len(longerFound) - LaterThan(longer, i) = Len(found) - Cardinality(later)
        <4> DEFINE c == Cardinality(later)
                   m == Len(found)
        <4>1. /\ c \in Nat /\ m \in Nat /\ c < m
              /\ LaterThan(longer, i) = c + 1 /\ Len(longerFound) = m + 1
          BY <1>2, <3>2, <3>3, <3>5
        <4> HIDE DEF c, m
        <4>2. c + 1 < m + 1 /\ (m + 1) - (c + 1) = m - c
          BY <4>1
        <4>3. LaterThan(longer, i) < Len(longerFound) /\ Len(longerFound) - LaterThan(longer, i) = m - c
          BY <4>1, <4>2
        <4> QED BY <4>3 DEF c, m
      <3>9. longerFound[Len(found) - Cardinality(later)] = list[i]
        BY <1>2, <3>5, <3>6
      <3> QED BY <3>7, <3>8, <3>9
    <2> QED BY <1>4, <2>2, <2>3
  <1>7. EndsAlike(longer, longerFound, t)
    <2> HIDE DEF longer, longerFound, t
    <2> QED BY <1>6 DEF EndsAlike
  <1> HIDE DEF longer, longerFound, places, t
  <1> QED BY <1>5, <1>7 DEF longer, longerFound, places, t

\* An event of another task is nothing to a task.
LEMMA AppendOfAnother ==
    ASSUME NEW list \in Seq(Events), NEW e \in Events, NEW t, e.task # t
    PROVE  /\ PlacesOf(Append(list, e), t) = PlacesOf(list, t)
           /\ \A found : EndsAlike(list, found, t) => EndsAlike(Append(list, e), found, t)
  <1> DEFINE longer == Append(list, e)
  <1>1. /\ Len(longer) = Len(list) + 1 /\ Len(list) \in Nat
        /\ longer \in Seq(Events)
        /\ longer[Len(list) + 1] = e
        /\ \A i \in 1 .. Len(list) : longer[i] = list[i]
    OBVIOUS
  <1>2. PlacesOf(longer, t) = PlacesOf(list, t)
    BY <1>1 DEF PlacesOf
  <1>3. ASSUME NEW i \in PlacesOf(list, t)
        PROVE  longer[i] = list[i] /\ LaterThan(longer, i) = LaterThan(list, i)
    <2>1. longer[i] = list[i] /\ list[i].task = t
      BY <1>1 DEF PlacesOf
    <2> QED BY <1>2, <2>1 DEF LaterThan
  <1> HIDE DEF longer
  <1> QED BY <1>2, <1>3 DEF EndsAlike, longer

\* Cutting off the first events leaves what comes last.
LEMMA CutKeepsEnd ==
    ASSUME NEW list \in Seq(Events), NEW k \in 0 .. Len(list), NEW t, NEW found,
           EndsAlike(list, found, t)
    PROVE  EndsAlike(SubSeq(list, k + 1, Len(list)), found, t)
  <1> DEFINE cut == SubSeq(list, k + 1, Len(list))
  <1>1. /\ Len(list) \in Nat /\ k \in Nat
        /\ \A i \in k + 1 .. Len(list) : list[i] \in Events
    OBVIOUS
  <1>2. /\ cut \in Seq(Events)
        /\ Len(cut) = Len(list) - k
        /\ \A i \in 1 .. Len(list) - k : cut[i] = list[i + k]
    <2>1. /\ cut \in Seq(Events)
          /\ Len(cut) = IF k + 1 <= Len(list) THEN Len(list) - (k + 1) + 1 ELSE 0
          /\ \A i \in 1 .. Len(list) - (k + 1) + 1 : cut[i] = list[k + 1 + i - 1]
      BY <1>1, SubSeqProperties
    <2>2. \A i \in 1 .. Len(list) - k : k + 1 + i - 1 = i + k
      BY <1>1
    <2> QED BY <1>1, <2>1, <2>2
  <1> HIDE DEF cut
  <1>3. \A i : i \in PlacesOf(cut, t) <=> i \in 1 .. Len(list) - k /\ i + k \in PlacesOf(list, t)
    <2>1. DOMAIN cut = 1 .. Len(list) - k /\ DOMAIN list = 1 .. Len(list)
      BY <1>2
    <2>2. \A i \in 1 .. Len(list) - k : i + k \in 1 .. Len(list)
      BY <1>1
    <2> QED BY <1>2, <2>1, <2>2 DEF PlacesOf
  <1>4. ASSUME NEW i \in PlacesOf(cut, t)
        PROVE  cut[i] = list[i + k] /\ LaterThan(cut, i) = LaterThan(list, i + k)
    <2>0. i \in 1 .. Len(list) - k /\ i + k \in PlacesOf(list, t) /\ cut[i] = list[i + k]
      BY <1>2, <1>3
    <2>1. cut[i].task = t /\ list[i + k].task = t
      BY <2>0 DEF PlacesOf
    <2> DEFINE S == {j \in PlacesOf(cut, t) : i < j}
               T == {j \in PlacesOf(list, t) : i + k < j}
               shift == [j \in S |-> j + k]
    <2>2. IsFiniteSet(S)
      BY <1>2, PlacesAreFinite
    <2>3. \A j \in S : j \in Int /\ j + k \in T
      BY <1>1, <1>3, <2>0
    <2>4. \A j \in T : j - k \in S /\ (j - k) + k = j
      <3>1. \A j \in T : j \in 1 .. Len(list)
        BY PlacesAreFinite
      <3> QED BY <1>1, <1>3, <2>0, <3>1
    <2>5. shift \in Bijection(S, T)
      <3>1. shift \in [S -> T]
        BY <2>3
      <3>2. \A a, b \in S : shift[a] = shift[b] => a = b
        BY <1>1, <2>3
      <3>3. \A j \in T : \E a \in S : shift[a] = j
        <4> TAKE j \in T
        <4>1. j - k \in S /\ shift[j - k] = j
          BY <2>4
        <4> QED BY <4>1
      <3> HIDE DEF S, T, shift
      <3>4. shift \in Surjection(S, T)
        BY <3>1, <3>3 DEF Surjection
      <3>5. shift \in Injection(S, T)
        BY <3>1, <3>2 DEF Injection, IsInjective
      <3> QED BY <3>4, <3>5 DEF Bijection
    <2>6. Cardinality(T) = Cardinality(S)
      BY <2>2, <2>5, FS_Bijection DEF ExistsBijection
    <2> QED BY <2>0, <2>1, <2>6 DEF LaterThan
  <1>5. \A i \in PlacesOf(cut, t) : i + k \in PlacesOf(list, t)
    BY <1>3
  <1> QED BY <1>4, <1>5 DEF EndsAlike, cut

-----------------------------------------------------------------------------
(* Journal: ordered reads of a table                                       *)

\* A list by timestamp is a sequence of every row, once.
LEMMA OrderedIsOnto ==
    ASSUME NEW rows, IsFiniteSet(rows), NEW list \in ByTimestamp(rows)
    PROVE  /\ Len(list) = Cardinality(rows) /\ Len(list) \in Nat
           /\ DOMAIN list = 1 .. Len(list)
           /\ \A i \in 1 .. Len(list) : list[i] \in rows
           /\ \A i, j \in 1 .. Len(list) : list[i] = list[j] => i = j
           /\ \A e \in rows : \E i \in 1 .. Len(list) : list[i] = e
  <1> DEFINE n == Cardinality(rows)
  <1>0. n \in Nat
    BY FS_CardinalityType
  <1> HIDE DEF n
  <1>1. list \in [1 .. n -> rows]
    BY DEF ByTimestamp, n
  <1>2. Len(list) = n
    <2>1. list \in Seq(rows)
      BY <1>0, <1>1
    <2> QED BY <1>0, <1>1, <2>1, LenProperties
  <1>3. \A i, j \in 1 .. n : i < j => list[i] # list[j]
    BY <1>1 DEF ByTimestamp
  <1>4. \A i, j \in 1 .. n : list[i] = list[j] => i = j
    BY <1>0, <1>3
  <1>5. list \in Injection(1 .. n, rows)
    BY <1>1, <1>4 DEF Injection, IsInjective
  <1>6. Cardinality(1 .. n) = n
    BY <1>0, FS_Interval
  <1>7. list \in Surjection(1 .. n, rows)
    BY <1>5, <1>6, FS_Injection DEF n
  <1> QED BY <1>0, <1>1, <1>2, <1>4, <1>7 DEF Surjection, n

\* There is such a list of any table, when there has been one of the table
\* before its last row.
LEMMA InsertInOrder ==
    ASSUME NEW rows \in SUBSET Events, IsFiniteSet(rows), NEW e \in Events, e \notin rows,
           ByTimestamp(rows) # {}
    PROVE  ByTimestamp(rows \cup {e}) # {}
  <1>1. PICK r : r \in ByTimestamp(rows)
    OBVIOUS
  <1> DEFINE n == Cardinality(rows)
             before == {i \in 1 .. n : r[i].timestamp <= e.timestamp}
             p == Cardinality(before)
  <1>2. /\ n \in Nat
        /\ \A i \in 1 .. n : r[i] \in rows
        /\ \A i, j \in 1 .. n : i < j => r[i].timestamp <= r[j].timestamp
        /\ \A i, j \in 1 .. n : r[i] = r[j] => i = j
    <2>1. \A i, j \in DOMAIN r : i < j => r[i].timestamp <= r[j].timestamp
      BY <1>1 DEF ByTimestamp
    <2>2. /\ Len(r) = n /\ n \in Nat /\ DOMAIN r = 1 .. n
          /\ \A i \in 1 .. n : r[i] \in rows
          /\ \A i, j \in 1 .. n : r[i] = r[j] => i = j
      <3>1. /\ Len(r) = Cardinality(rows) /\ Len(r) \in Nat
            /\ DOMAIN r = 1 .. Len(r)
            /\ \A i \in 1 .. Len(r) : r[i] \in rows
            /\ \A i, j \in 1 .. Len(r) : r[i] = r[j] => i = j
        BY <1>1, OrderedIsOnto
      <3> QED BY <3>1
    <2> HIDE DEF n
    <2> QED BY <2>1, <2>2
  <1>3. \A i \in 1 .. n : r[i].timestamp \in Nat /\ e.timestamp \in Nat
    BY <1>2 DEF Events
  <1>4. IsFiniteSet(before) /\ p \in Nat /\ p <= n
    <2>1. before \subseteq 1 .. n /\ IsFiniteSet(1 .. n) /\ Cardinality(1 .. n) = n
      BY <1>2, FS_Interval
    <2> QED BY <1>2, <2>1, FS_Subset, FS_CardinalityType
  <1>5. before = 1 .. p
    <2>1. ASSUME NEW i \in before PROVE i <= p
      <3>1. i \in 1 .. n /\ 1 .. i \subseteq before
        BY <1>2, <1>3
      <3>2. Cardinality(1 .. i) = i
        BY <3>1, FS_Interval
      <3>3. Cardinality(1 .. i) <= p
        BY <1>4, <3>1, FS_Subset
      <3> QED BY <3>2, <3>3
    <2>2. before \subseteq 1 .. p
      BY <1>2, <1>4, <2>1
    <2>3. IsFiniteSet(1 .. p) /\ Cardinality(1 .. p) = p
      BY <1>4, FS_Interval
    <2> HIDE DEF before
    <2> QED BY <2>2, <2>3, FS_Subset DEF p
  <1>6. \A i \in 1 .. n : r[i].timestamp <= e.timestamp <=> i <= p
    BY <1>2, <1>4, <1>5
  <1> HIDE DEF n, before, p
  <1> DEFINE longer == [i \in 1 .. n + 1 |->
                            IF i <= p THEN r[i] ELSE IF i = p + 1 THEN e ELSE r[i - 1]]
  <1>7. \A i \in 1 .. n + 1 : \/ i <= p /\ i \in 1 .. n /\ longer[i] = r[i]
                              \/ i = p + 1 /\ longer[i] = e
                              \/ i > p + 1 /\ i - 1 \in 1 .. n /\ longer[i] = r[i - 1]
    BY <1>2, <1>4
  <1>8. longer \in [1 .. n + 1 -> rows \cup {e}]
    <2>1. \A i \in 1 .. n + 1 : longer[i] \in rows \cup {e}
      BY <1>2, <1>7
    <2>2. DOMAIN longer = 1 .. n + 1
      OBVIOUS
    <2>3. longer = [i \in 1 .. n + 1 |-> longer[i]]
      OBVIOUS
    <2> HIDE DEF longer
    <2> QED BY <2>1, <2>3
  <1>9. DOMAIN longer = 1 .. n + 1
    OBVIOUS
  <1> HIDE DEF longer
  <1>10. ASSUME NEW i \in 1 .. n + 1, NEW j \in 1 .. n + 1, i < j
         PROVE  longer[i] # longer[j] /\ longer[i].timestamp <= longer[j].timestamp
    <2>1. CASE i <= p /\ j = p + 1
      BY <1>2, <1>3, <1>4, <1>6, <1>7, <2>1
    <2>2. CASE i = p + 1
      <3>1. j - 1 \in 1 .. n /\ longer[j] = r[j - 1] /\ longer[i] = e /\ ~(j - 1 <= p)
        BY <1>4, <1>7, <1>10, <2>2
      <3>2. ~(r[j - 1].timestamp <= e.timestamp) /\ r[j - 1] # e
        BY <1>2, <1>6, <3>1
      <3> QED BY <1>3, <3>1, <3>2
    <2>3. CASE i <= p /\ j <= p
      BY <1>2, <1>4, <1>7, <1>10, <2>3
    <2>4. CASE i <= p /\ j > p + 1
      <3>1. i \in 1 .. n /\ longer[i] = r[i] /\ j - 1 \in 1 .. n /\ longer[j] = r[j - 1] /\ i < j - 1
        BY <1>4, <1>7, <2>4
      <3> QED BY <1>2, <3>1
    <2>5. CASE i > p + 1
      <3>1. /\ i - 1 \in 1 .. n /\ longer[i] = r[i - 1]
            /\ j - 1 \in 1 .. n /\ longer[j] = r[j - 1] /\ i - 1 < j - 1
        BY <1>4, <1>7, <1>10, <2>5
      <3> QED BY <1>2, <3>1
    <2> QED BY <1>4, <2>1, <2>2, <2>3, <2>4, <2>5
  <1>11. Cardinality(rows \cup {e}) = n + 1
    BY FS_AddElement DEF n
  <1>12. longer \in ByTimestamp(rows \cup {e})
    BY <1>8, <1>9, <1>10, <1>11 DEF ByTimestamp
  <1> QED BY <1>12

\* Read by itself or among all, a task has the same times in the same order.
LEMMA OrderedViewsAgree ==
    ASSUME NEW rows \in SUBSET Events, IsFiniteSet(rows), NEW t \in EventTasks,
           NEW all \in ByTimestamp(rows), NEW found \in ByTimestamp(OfTask(rows, t))
    PROVE  /\ Len(found) = Cardinality(PlacesOf(all, t))
           /\ \A i \in PlacesOf(all, t) :
                /\ LaterThan(all, i) < Len(found)
                /\ found[Len(found) - LaterThan(all, i)].timestamp = all[i].timestamp
  <1> DEFINE own == OfTask(rows, t)
             n == Len(found)
             places == PlacesOf(all, t)
  <1>1. own \subseteq rows /\ IsFiniteSet(own)
    BY FS_Subset DEF OfTask
  <1>2. /\ n = Cardinality(own) /\ n \in Nat /\ DOMAIN found = 1 .. n
        /\ \A i \in 1 .. n : found[i] \in own
        /\ \A i, j \in 1 .. n : found[i] = found[j] => i = j
        /\ \A e \in own : \E i \in 1 .. n : found[i] = e
    BY <1>1, OrderedIsOnto
  <1>3. /\ Len(all) \in Nat /\ DOMAIN all = 1 .. Len(all)
        /\ \A i \in 1 .. Len(all) : all[i] \in rows
        /\ \A i, j \in 1 .. Len(all) : all[i] = all[j] => i = j
        /\ \A e \in rows : \E i \in 1 .. Len(all) : all[i] = e
    BY OrderedIsOnto
  <1>4. /\ \A i, j \in 1 .. n : i < j => found[i].timestamp <= found[j].timestamp
        /\ \A i, j \in 1 .. Len(all) : i < j => all[i].timestamp <= all[j].timestamp
    <2>1. \A i, j \in DOMAIN found : i < j => found[i].timestamp <= found[j].timestamp
      BY DEF ByTimestamp
    <2>2. \A i, j \in DOMAIN all : i < j => all[i].timestamp <= all[j].timestamp
      BY DEF ByTimestamp
    <2> QED BY <1>2, <1>3, <2>1, <2>2
  <1>5. /\ \A i \in 1 .. n : found[i].timestamp \in Nat
        /\ \A i \in 1 .. Len(all) : all[i].timestamp \in Nat
    BY <1>1, <1>2, <1>3 DEF Events
  <1>6. /\ places \subseteq 1 .. Len(all) /\ IsFiniteSet(places)
        /\ \A i \in places : all[i] \in own
        /\ \A e \in own : \E i \in places : all[i] = e
    <2>1. places \subseteq 1 .. Len(all)
      BY <1>3 DEF PlacesOf
    <2>2. IsFiniteSet(1 .. Len(all))
      BY <1>3, FS_Interval
    <2>3. IsFiniteSet(places)
      BY <2>1, <2>2, FS_Subset
    <2> QED BY <1>3, <2>1, <2>3 DEF PlacesOf, OfTask
  <1>7. n = Cardinality(places)
    <2> DEFINE f == [i \in places |-> all[i]]
    <2>1. f \in [places -> own]
      BY <1>6
    <2>2. \A i, j \in places : f[i] = f[j] => i = j
      BY <1>3, <1>6
    <2>3. \A e \in own : \E i \in places : f[i] = e
      BY <1>6
    <2> HIDE DEF f, places, own
    <2>4. f \in Bijection(places, own)
      BY <2>1, <2>2, <2>3 DEF Bijection, Injection, IsInjective, Surjection
    <2> QED BY <1>2, <1>6, <2>4, FS_Bijection DEF ExistsBijection
  <1> HIDE DEF own, n, places
  <1>8. ASSUME NEW i \in places
        PROVE  LaterThan(all, i) < n /\ found[n - LaterThan(all, i)].timestamp = all[i].timestamp
    <2> DEFINE L == {j \in places : i < j}
               k == Cardinality(L)
               m == n - k
    <2>1. LaterThan(all, i) = k
      <3>1. all[i].task = t
        BY DEF places, PlacesOf
      <3> QED BY <3>1 DEF LaterThan, places
    <2>2. IsFiniteSet(L) /\ k \in Nat /\ i \notin L /\ L \cup {i} \subseteq places /\ i \in Nat
      <3>1. L \subseteq places /\ i \in 1 .. Len(all)
        BY <1>6
      <3>2. IsFiniteSet(L)
        BY <1>6, <3>1, FS_Subset
      <3>3. i \notin L
        BY <1>3, <3>1
      <3> QED BY <3>1, <3>2, <3>3, FS_CardinalityType
    <2>3. IsFiniteSet(L \cup {i}) /\ Cardinality(L \cup {i}) = k + 1
      BY <2>2, FS_AddElement
    <2>4. k + 1 <= n
      BY <1>6, <1>7, <2>2, <2>3, FS_Subset
    <2>5. m \in 1 .. n
      BY <1>2, <2>2, <2>4
    <2>6. \A j \in L \cup {i} : j \in places /\ all[i].timestamp <= all[j].timestamp
      BY <1>4, <1>5, <1>6, <2>2
    <2>7. ASSUME found[m].timestamp < all[i].timestamp PROVE FALSE
      <3> DEFINE g == [j \in L \cup {i} |-> CHOOSE q \in 1 .. n : found[q] = all[j]]
      <3>1. \A j \in L \cup {i} : g[j] \in 1 .. n /\ found[g[j]] = all[j]
        BY <1>2, <1>6, <2>6
      <3> HIDE DEF L, m
      <3>2. \A j \in L \cup {i} : g[j] \in m + 1 .. n
        <4> TAKE j \in L \cup {i}
        <4>1. g[j] \in 1 .. n /\ found[g[j]] = all[j]
          BY <3>1
        <4>2. all[i].timestamp <= all[j].timestamp /\ j \in 1 .. Len(all) /\ i \in 1 .. Len(all)
          BY <1>6, <2>6
        <4> HIDE DEF g
        <4>3. g[j] < m => FALSE
          BY <1>4, <1>5, <2>5, <2>7, <4>1, <4>2
        <4>4. g[j] = m => FALSE
          BY <1>5, <2>5, <2>7, <4>1, <4>2
        <4> QED BY <1>2, <2>5, <4>1, <4>3, <4>4
      <3>3. \A a, b \in L \cup {i} : g[a] = g[b] => a = b
        <4> TAKE a, b \in L \cup {i}
        <4>1. /\ found[g[a]] = all[a] /\ found[g[b]] = all[b]
              /\ a \in 1 .. Len(all) /\ b \in 1 .. Len(all)
          BY <1>6, <2>6, <3>1
        <4> HIDE DEF g
        <4> QED BY <1>3, <4>1
      <3>4. g \in [L \cup {i} -> m + 1 .. n]
        BY <3>2
      <3>5. IsFiniteSet(m + 1 .. n) /\ Cardinality(m + 1 .. n) = k
        <4> HIDE DEF k
        <4>1. m + 1 \in Int /\ n \in Int /\ k \in Nat /\ m = n - k
          BY <1>2, <2>2 DEF m
        <4> QED BY <4>1, FS_Interval
      <3> HIDE DEF g
      <3>6. \E a, b \in L \cup {i} : a # b /\ g[a] = g[b]
        <4> DEFINE I == L \cup {i}
        <4>1. IsFiniteSet(I) /\ g \in [I -> m + 1 .. n]
          BY <2>3, <3>4
        <4>2. Cardinality(m + 1 .. n) < Cardinality(I)
          <5>1. k < k + 1
            BY <2>2
          <5> QED BY <2>3, <3>5, <5>1
        <4> HIDE DEF I
        <4>3. \E a, b \in I : a # b /\ g[a] = g[b]
          BY <3>5, <4>1, <4>2, FS_PigeonHole
        <4> QED BY <4>3 DEF I
      <3> QED BY <3>3, <3>6
    <2>8. ASSUME found[m].timestamp > all[i].timestamp PROVE FALSE
      <3> DEFINE h == [q \in m .. n |-> CHOOSE j \in places : all[j] = found[q]]
      <3>1. \A q \in m .. n : q \in 1 .. n /\ h[q] \in places /\ all[h[q]] = found[q]
        BY <1>2, <1>6, <2>5
      <3>2. \A q \in m .. n : h[q] \in L
        <4> TAKE q \in m .. n
        <4>1. q \in 1 .. n /\ h[q] \in places /\ all[h[q]] = found[q]
          BY <3>1
        <4>2. found[m].timestamp <= found[q].timestamp
          BY <1>2, <1>4, <1>5, <2>5, <4>1
        <4>3. h[q] \in 1 .. Len(all) /\ i \in 1 .. Len(all)
          BY <1>6, <4>1
        <4> HIDE DEF h, m
        <4>4. h[q] < i => FALSE
          BY <1>4, <1>5, <2>5, <2>8, <4>1, <4>2, <4>3
        <4>5. h[q] = i => FALSE
          BY <1>5, <2>5, <2>8, <4>1, <4>2, <4>3
        <4> QED BY <1>3, <4>1, <4>3, <4>4, <4>5
      <3>3. \A a, b \in m .. n : h[a] = h[b] => a = b
        BY <1>2, <3>1
      <3>4. h \in [m .. n -> L]
        BY <3>2
      <3>5. IsFiniteSet(m .. n) /\ Cardinality(m .. n) = k + 1
        BY <1>2, <2>2, <2>5, FS_Interval
      <3> HIDE DEF h, L, m
      <3>6. \E a, b \in m .. n : a # b /\ h[a] = h[b]
        <4>1. k < k + 1
          BY <2>2
        <4> QED BY <2>2, <3>4, <3>5, <4>1, FS_PigeonHole
      <3> QED BY <3>3, <3>6
    <2>9. found[m].timestamp \in Nat /\ all[i].timestamp \in Nat
      BY <1>5, <1>6, <2>5
    <2> QED BY <1>2, <2>1, <2>2, <2>4, <2>7, <2>8, <2>9
  <1> QED BY <1>7, <1>8 DEF n, places

-----------------------------------------------------------------------------
(* Journal: every append keeps the two views together                      *)

EventTypes ==
    /\ backend \in {"memory", "sql", "redis"}
    /\ limit \in {NoLimit} \cup (Nat \ {0})
    /\ backend # "redis" => limit = NoLimit
    /\ made \in Nat
    /\ mainList \in Seq(Events)
    /\ taskList \in [EventTasks -> Seq(Events)]
    /\ source \in [Sources -> [event : Events \cup {NoEvent}, attempts : Nat]]
    /\ \A s \in Sources : source[s].event = NoEvent => source[s] = Silent
    /\ returned \in SUBSET Events

\* The list of all ends as that of each task does, and is complete unless it
\* is as long as it may be.
ListsAgree ==
    /\ limit # NoLimit => Len(mainList) <= limit
    /\ backend # "sql" => \A t \in EventTasks : EndsAlike(mainList, taskList[t], t)
    /\ backend # "sql" =>
            \/ limit # NoLimit /\ Len(mainList) = limit
            \/ \A t \in EventTasks : Len(taskList[t]) = Cardinality(PlacesOf(mainList, t))

\* A table can be read in order.
Readable ==
    /\ ByTimestamp(ToSet(mainList)) # {}
    /\ \A t \in EventTasks : ByTimestamp(OfTask(ToSet(mainList), t)) # {}

\* In memory, an event that waits for its append is on no list, and nobody
\* else appends it.
Appended(e) == \E i \in DOMAIN taskList[e.task] : taskList[e.task][i] = e

OnceInMemory ==
    /\ \A s \in Sources : source[s].event # NoEvent =>
            /\ source[s].event.id <= made
            /\ ~Appended(source[s].event)
    /\ \A r, s \in Sources :
            source[r].event # NoEvent /\ source[r].event = source[s].event => r = s
    /\ \A t \in EventTasks : \A i, j \in DOMAIN taskList[t] :
            taskList[t][i] = taskList[t][j] => i = j
    /\ \A t \in EventTasks : \A i \in DOMAIN taskList[t] : taskList[t][i].id <= made

Kept ==
    \A e \in returned : IF backend = "sql" THEN e \in ToSet(mainList) ELSE Appended(e)

EventInv ==
    /\ EventTypes
    /\ ListsAgree
    /\ backend = "sql" => Readable
    /\ backend = "memory" => OnceInMemory
    /\ Kept

LEMMA NoEventIsNone == NoEvent \notin Events
  BY DEF NoEvent, Events

LEMMA InitEventInv == EventInit => EventInv
  <1> SUFFICES ASSUME EventInit PROVE EventInv
    OBVIOUS
  <1> USE DEF EventInit
  <1>1. EventTypes
    <2>1. <<>> \in Seq(Events)
      OBVIOUS
    <2>2. PICK n \in LimitSettings : limit = IF backend = "redis" THEN PositiveOrNone(n) ELSE NoLimit
      OBVIOUS
    <2>3. limit \in {NoLimit} \cup (Nat \ {0})
      BY <2>2, LimitAssumption DEF PositiveOrNone
    <2> QED BY <2>1, <2>2, <2>3 DEF EventTypes, Silent
  <1>2. \A t : PlacesOf(mainList, t) = {}
    BY DEF PlacesOf
  <1>3. ListsAgree
    <2>1. \A t \in EventTasks : EndsAlike(mainList, taskList[t], t)
      BY <1>2 DEF EndsAlike
    <2>2. \A t \in EventTasks : Len(taskList[t]) = 0
      OBVIOUS
    <2>3. limit # NoLimit => 0 <= limit
      BY <1>1 DEF EventTypes
    <2> QED BY <1>2, <2>1, <2>2, <2>3, FS_EmptySet DEF ListsAgree
  <1>4. Readable
    <2>1. ToSet(mainList) = {} /\ \A t : OfTask({}, t) = {}
      BY DEF ToSet, OfTask
    <2>2. <<>> \in ByTimestamp({})
      <3>1. Cardinality({}) = 0 /\ 1 .. 0 = {}
        BY FS_EmptySet
      <3> QED BY <3>1 DEF ByTimestamp
    <2> QED BY <2>1, <2>2 DEF Readable
  <1>5. OnceInMemory /\ Kept
    BY DEF OnceInMemory, Kept, Silent
  <1> QED BY <1>1, <1>3, <1>4, <1>5 DEF EventInv

\* ltrim cuts the oldest off, down to the limit and only from there.
LEMMA TrimmedIsCut ==
    ASSUME EventTypes, NEW list \in Seq(Events)
    PROVE  /\ \E k \in 0 .. Len(list) : Trimmed(list) = SubSeq(list, k + 1, Len(list))
           /\ limit = NoLimit \/ Len(list) <= limit => Trimmed(list) = list
           /\ limit # NoLimit /\ Len(list) > limit => Len(Trimmed(list)) = limit
           /\ Trimmed(list) \in Seq(Events)
  <1>1. Len(list) \in Nat /\ \A i \in 1 .. Len(list) : list[i] \in Events
    OBVIOUS
  <1>2. CASE limit = NoLimit \/ Len(list) <= limit
    <2>1. Trimmed(list) = list
      BY <1>2 DEF Trimmed
    <2>2. list = SubSeq(list, 0 + 1, Len(list)) /\ 0 \in 0 .. Len(list)
      BY <1>1, SubSeqFull
    <2>3. ~(limit # NoLimit /\ Len(list) > limit)
      BY <1>1, <1>2 DEF EventTypes
    <2> QED BY <2>1, <2>2, <2>3
  <1>3. CASE ~(limit = NoLimit \/ Len(list) <= limit)
    <2>1. limit \in Nat \ {0} /\ limit < Len(list)
      BY <1>1, <1>3 DEF EventTypes
    <2> DEFINE k == Len(list) - limit
    <2>2. k \in 0 .. Len(list) /\ Trimmed(list) = SubSeq(list, k + 1, Len(list))
      BY <1>1, <1>3, <2>1 DEF Trimmed
    <2>3. /\ k + 1 \in Int /\ k + 1 <= Len(list) /\ Len(list) - (k + 1) + 1 = limit
          /\ \A i \in k + 1 .. Len(list) : list[i] \in Events
      BY <1>1, <2>1
    <2> HIDE DEF k
    <2>4. Len(Trimmed(list)) = limit /\ Trimmed(list) \in Seq(Events)
      BY <1>1, <2>2, <2>3, SubSeqProperties
    <2> QED BY <1>3, <2>2, <2>4
  <1> QED BY <1>2, <1>3

\* The lists agree after an append.
LEMMA WrittenListsAgree ==
    ASSUME EventTypes, ListsAgree, NEW e \in Events, EventWritten(e),
           limit' = limit, backend' = backend
    PROVE  ListsAgree' /\ mainList' \in Seq(Events) /\ taskList' \in [EventTasks -> Seq(Events)]
  <1> DEFINE longer == Append(mainList, e)
  <1>1. longer \in Seq(Events) /\ Len(longer) = Len(mainList) + 1 /\ Len(mainList) \in Nat
    BY DEF EventTypes
  <1>2. mainList' = Trimmed(longer)
    BY DEF EventWritten
  <1> HIDE DEF longer
  <1>3. PICK k \in 0 .. Len(longer) : mainList' = SubSeq(longer, k + 1, Len(longer))
    BY <1>1, <1>2, TrimmedIsCut
  <1>4. mainList' \in Seq(Events)
    BY <1>1, <1>2, TrimmedIsCut
  <1>5. limit # NoLimit => Len(mainList') <= limit
    BY <1>1, <1>2, TrimmedIsCut DEF EventTypes
  <1>6. taskList' \in [EventTasks -> Seq(Events)]
    <2>1. e.task \in EventTasks /\ taskList \in [EventTasks -> Seq(Events)]
      BY DEF Events, EventTypes
    <2>2. Append(taskList[e.task], e) \in Seq(Events)
      BY <2>1
    <2>3. taskList' = taskList \/ taskList' = [taskList EXCEPT ![e.task] = Append(@, e)]
      BY DEF EventWritten, TaskAppended
    <2> QED BY <2>1, <2>2, <2>3
  <1>7. ASSUME backend # "sql", NEW t \in EventTasks
        PROVE  /\ EndsAlike(longer, taskList'[t], t)
               /\ Len(taskList[t]) = Cardinality(PlacesOf(mainList, t)) =>
                    Len(taskList'[t]) = Cardinality(PlacesOf(longer, t))
    <2>1. EndsAlike(mainList, taskList[t], t) /\ taskList[t] \in Seq(Events) /\ mainList \in Seq(Events)
      BY <1>7 DEF ListsAgree, EventTypes
    <2>2. taskList' = [taskList EXCEPT ![e.task] = Append(@, e)]
      BY <1>7 DEF EventWritten, TaskAppended
    <2>3. CASE e.task = t
      <3>1. taskList'[t] = Append(taskList[t], e)
        BY <2>2, <2>3 DEF EventTypes
      <3>2. /\ EndsAlike(longer, taskList'[t], t)
            /\ Cardinality(PlacesOf(longer, t)) = Cardinality(PlacesOf(mainList, t)) + 1
        BY <2>1, <2>3, <3>1, AppendToBoth DEF longer
      <3>3. Len(taskList'[t]) = Len(taskList[t]) + 1
        BY <2>1, <3>1
      <3> QED BY <3>2, <3>3
    <2>4. CASE e.task # t
      <3>1. taskList'[t] = taskList[t]
        BY <2>2, <2>4 DEF EventTypes
      <3> QED BY <2>1, <2>4, <3>1, AppendOfAnother DEF longer
    <2> QED BY <2>3, <2>4
  <1>8. backend # "sql" => \A t \in EventTasks : EndsAlike(mainList', taskList'[t], t)
    BY <1>1, <1>3, <1>7, CutKeepsEnd
  <1>9. ASSUME backend # "sql"
        PROVE  \/ limit # NoLimit /\ Len(mainList') = limit
               \/ \A t \in EventTasks : Len(taskList'[t]) = Cardinality(PlacesOf(mainList', t))
    <2>1. CASE limit # NoLimit /\ Len(longer) > limit
      BY <1>1, <1>2, <2>1, TrimmedIsCut
    <2>2. CASE ~(limit # NoLimit /\ Len(longer) > limit)
      <3>1. mainList' = longer
        BY <1>1, <1>2, <2>2, TrimmedIsCut DEF EventTypes
      <3>2. ~(limit # NoLimit /\ Len(mainList) = limit)
        BY <1>1, <2>2 DEF EventTypes
      <3>3. \A t \in EventTasks : Len(taskList[t]) = Cardinality(PlacesOf(mainList, t))
        BY <1>9, <3>2 DEF ListsAgree
      <3> QED BY <1>7, <1>9, <3>1, <3>3
    <2> QED BY <2>1, <2>2
  <1>10. ListsAgree'
    BY <1>5, <1>8, <1>9 DEF ListsAgree, EndsAlike, PlacesOf, LaterThan
  <1> QED BY <1>4, <1>6, <1>10

\* There are no more rows than appends.
LEMMA RowsAreFinite ==
    ASSUME NEW list \in Seq(Events)
    PROVE  ToSet(list) \in SUBSET Events /\ IsFiniteSet(ToSet(list))
  <1>1. ToSet(list) \in SUBSET Events
    BY DEF ToSet
  <1>2. IsFiniteSet(1 .. Len(list)) /\ DOMAIN list = 1 .. Len(list)
    BY FS_Interval
  <1>3. list \in [1 .. Len(list) -> ToSet(list)] /\ \A x \in ToSet(list) : \E i \in 1 .. Len(list) : list[i] = x
    BY DEF ToSet
  <1>4. list \in Surjection(1 .. Len(list), ToSet(list))
    BY <1>3 DEF Surjection
  <1> QED BY <1>1, <1>2, <1>4, FS_Surjection

\* A table with one more row can still be read in order.
LEMMA WrittenReadable ==
    ASSUME EventTypes, Readable, NEW e \in Events, EventWritten(e), backend = "sql"
    PROVE  Readable' /\ ToSet(mainList') = ToSet(mainList) \cup {e}
  <1> DEFINE rows == ToSet(mainList)
  <1>1. mainList' = Append(mainList, e) /\ e \notin rows
    <2>1. limit = NoLimit
      BY DEF EventTypes
    <2>2. e \notin rows
      BY DEF EventWritten, Refused, Contains, ToSet, EventTypes
    <2> QED BY <2>1, <2>2 DEF EventWritten, Trimmed
  <1>2. mainList \in Seq(Events) /\ rows \in SUBSET Events
    BY DEF EventTypes, ToSet
  <1>3. ToSet(mainList') = rows \cup {e}
    BY <1>1, <1>2, AppendProperties DEF ToSet
  <1>4. IsFiniteSet(rows)
    BY <1>2, RowsAreFinite
  <1> HIDE DEF rows
  <1>5. ByTimestamp(rows \cup {e}) # {}
    BY <1>1, <1>2, <1>4, InsertInOrder DEF Readable, rows
  <1>6. ASSUME NEW t \in EventTasks
        PROVE  ByTimestamp(OfTask(rows \cup {e}, t)) # {}
    <2> DEFINE own == OfTask(rows, t)
    <2>1. own \in SUBSET Events /\ IsFiniteSet(own) /\ e \notin own /\ ByTimestamp(own) # {}
      BY <1>1, <1>2, <1>4, FS_Subset DEF OfTask, Readable, rows
    <2>2. OfTask(rows \cup {e}, t) = IF e.task = t THEN own \cup {e} ELSE own
      BY DEF OfTask
    <2> HIDE DEF own
    <2> QED BY <2>1, <2>2, InsertInOrder
  <1> QED BY <1>3, <1>5, <1>6 DEF Readable, rows

\* What is on the list of a task stays there, and only the event is new.
LEMMA WrittenKeeps ==
    ASSUME EventTypes, NEW e \in Events, EventWritten(e), backend # "sql"
    PROVE  \A x \in Events : Appended(x)' <=> Appended(x) \/ x = e
  <1>1. /\ taskList' = [taskList EXCEPT ![e.task] = Append(@, e)]
        /\ taskList \in [EventTasks -> Seq(Events)] /\ e.task \in EventTasks
    BY DEF EventWritten, TaskAppended, EventTypes, Events
  <1> TAKE x \in Events
  <1>2. x.task \in EventTasks /\ (x = e => x.task = e.task)
    BY DEF Events
  <1>3. CASE x.task = e.task
    <2>1. taskList'[x.task] = Append(taskList[x.task], e) /\ taskList[x.task] \in Seq(Events)
      BY <1>1, <1>3
    <2> DEFINE q == taskList[x.task]
    <2>2. /\ DOMAIN Append(q, e) = 1 .. Len(q) + 1 /\ Len(q) \in Nat /\ DOMAIN q = 1 .. Len(q)
          /\ \A i \in 1 .. Len(q) : Append(q, e)[i] = q[i]
          /\ Append(q, e)[Len(q) + 1] = e
      BY <2>1
    <2> HIDE DEF q
    <2>3. (\E i \in DOMAIN Append(q, e) : Append(q, e)[i] = x) <=> (\E i \in DOMAIN q : q[i] = x) \/ x = e
      BY <2>2
    <2> QED BY <2>1, <2>3 DEF Appended, q
  <1>4. CASE x.task # e.task
    <2>1. taskList'[x.task] = taskList[x.task]
      BY <1>1, <1>2, <1>4
    <2> QED BY <1>2, <1>4, <2>1 DEF Appended
  <1> QED BY <1>3, <1>4

\* An append, whether its answer comes or not, keeps all but OnceInMemory.
LEMMA WrittenPreserves ==
    ASSUME EventInv, NEW e \in Events, EventWritten(e), limit' = limit, backend' = backend
    PROVE  /\ ListsAgree'
           /\ backend = "sql" => Readable'
           /\ mainList' \in Seq(Events) /\ taskList' \in [EventTasks -> Seq(Events)]
           /\ \A x \in returned \cup {e} :
                IF backend = "sql" THEN x \in ToSet(mainList') ELSE Appended(x)'
  <1>1. EventTypes /\ ListsAgree /\ Kept /\ (backend = "sql" => Readable)
    BY DEF EventInv
  <1>2. \A x \in returned \cup {e} :
            IF backend = "sql" THEN x \in ToSet(mainList') ELSE Appended(x)'
    <2> TAKE x \in returned \cup {e}
    <2>1. CASE backend = "sql"
      <3>1. ToSet(mainList') = ToSet(mainList) \cup {e}
        BY <1>1, <2>1, WrittenReadable
      <3> QED BY <1>1, <2>1, <3>1 DEF Kept
    <2>2. CASE backend # "sql"
      <3>1. x \in Events
        BY <1>1 DEF EventTypes
      <3>2. x \in returned => Appended(x)
        BY <1>1, <2>2 DEF Kept
      <3> QED BY <1>1, <2>2, <3>1, <3>2, WrittenKeeps
    <2> QED BY <2>1, <2>2
  <1> QED BY <1>1, <1>2, WrittenListsAgree, WrittenReadable

LEMMA EmittingAnEvent ==
    ASSUME EventTypes, NEW s \in Sources, Emitting(s)
    PROVE  source[s].event \in Events
  BY DEF EventTypes, Emitting

\* The lists and what has returned are as they were.
LEMMA UnwrittenPreserves ==
    ASSUME EventInv, UNCHANGED <<backend, limit, mainList, taskList>>
    PROVE  /\ ListsAgree'
           /\ backend' = "sql" => Readable'
           /\ returned' \in SUBSET returned => Kept'
           /\ \A x : Appended(x)' <=> Appended(x)
  BY DEF EventInv, ListsAgree, EndsAlike, PlacesOf, LaterThan, Readable, Kept, Appended

\* A new event has a number that no list and no other thread has.
LEMMA MakeEventPreserves ==
    ASSUME EventInv,
           NEW s \in Sources, NEW t \in EventTasks, NEW now \in made .. made + 1,
           MakeEvent(s, t, now)
    PROVE  EventInv'
  <1> DEFINE e == [id |-> made + 1, task |-> t, timestamp |-> now]
  <1>1. EventTypes
    BY DEF EventInv
  <1>2. e \in Events /\ made + 1 \in Nat /\ e.id = made + 1 /\ made \in Nat
    BY <1>1 DEF Events, EventTypes
  <1>3. /\ source' = [source EXCEPT ![s].event = e] /\ source[s] = Silent
        /\ made' = made + 1 /\ UNCHANGED <<backend, limit, mainList, taskList, returned>>
    BY DEF MakeEvent
  <1> HIDE DEF e
  <1>4. source' = [source EXCEPT ![s] = [event |-> e, attempts |-> 0]]
    <2>1. [Silent EXCEPT !.event = e] = [event |-> e, attempts |-> 0]
      BY DEF Silent
    <2>2. source' = [source EXCEPT ![s] = [source[s] EXCEPT !.event = e]]
      BY <1>3
    <2> QED BY <1>3, <2>1, <2>2
  <1>5. e # NoEvent
    BY <1>2, NoEventIsNone
  <1>6. EventTypes'
    BY <1>1, <1>2, <1>3, <1>4, <1>5 DEF EventTypes
  <1>7. ASSUME backend = "memory" PROVE OnceInMemory'
    <2>1. OnceInMemory
      BY <1>7 DEF EventInv
    <2>2. /\ source'[s].event = e
          /\ \A r \in Sources : r # s => source'[r] = source[r]
      BY <1>1, <1>4 DEF EventTypes
    <2>3. ~Appended(e)
      <3>1. e.task \in EventTasks
        BY <1>2 DEF Events
      <3>2. \A i \in DOMAIN taskList[e.task] : taskList[e.task][i] # e
        BY <1>2, <2>1, <3>1 DEF OnceInMemory
      <3> QED BY <3>2 DEF Appended
    <2>4. \A r \in Sources : r # s /\ source[r].event # NoEvent => source[r].event # e /\ source[r].event.id <= made + 1
      <3> TAKE r \in Sources
      <3> HAVE r # s /\ source[r].event # NoEvent
      <3>1. source[r].event \in Events /\ source[r].event.id <= made
        BY <1>1, <2>1 DEF EventTypes, OnceInMemory
      <3>2. source[r].event.id \in Nat
        BY <3>1 DEF Events
      <3> QED BY <1>2, <3>1, <3>2
    <2>5. \A r \in Sources : source'[r].event # NoEvent =>
            source'[r].event.id <= made' /\ ~Appended(source'[r].event)
      BY <1>2, <1>3, <2>1, <2>2, <2>3, <2>4 DEF OnceInMemory
    <2>6. \A r, q \in Sources :
            source'[r].event # NoEvent /\ source'[r].event = source'[q].event => r = q
      BY <1>5, <2>1, <2>2, <2>4 DEF OnceInMemory
    <2>7. \A u \in EventTasks : \A i \in DOMAIN taskList[u] : taskList[u][i].id <= made'
      <3> TAKE u \in EventTasks
      <3> TAKE i \in DOMAIN taskList[u]
      <3>1. taskList[u][i] \in Events /\ taskList[u][i].id <= made
        BY <1>1, <2>1 DEF EventTypes, OnceInMemory
      <3>2. taskList[u][i].id \in Nat
        BY <3>1 DEF Events
      <3> QED BY <1>2, <1>3, <3>1, <3>2
    <2> QED BY <1>3, <2>1, <2>5, <2>6, <2>7 DEF OnceInMemory, Appended
  <1> QED BY <1>3, <1>6, <1>7, UnwrittenPreserves DEF EventInv

LEMMA AppendReturnsPreserves ==
    ASSUME EventInv, NEW s \in Sources, AppendReturns(s)
    PROVE  EventInv'
  <1> DEFINE e == source[s].event
  <1>1. EventTypes /\ e \in Events
    BY EmittingAnEvent DEF EventInv, AppendReturns
  <1>2. /\ EventWritten(e) /\ returned' = returned \cup {e}
        /\ source' = [source EXCEPT ![s] = Silent]
        /\ backend' = backend /\ limit' = limit /\ made' = made
    BY DEF AppendReturns
  <1> HIDE DEF e
  <1>3. /\ ListsAgree'
        /\ backend = "sql" => Readable'
        /\ mainList' \in Seq(Events) /\ taskList' \in [EventTasks -> Seq(Events)]
        /\ \A x \in returned \cup {e} :
                IF backend = "sql" THEN x \in ToSet(mainList') ELSE Appended(x)'
    BY <1>1, <1>2, WrittenPreserves
  <1>4. Kept'
    BY <1>2, <1>3 DEF Kept
  <1>5. EventTypes'
    BY <1>1, <1>2, <1>3 DEF EventTypes, Silent
  <1>6. ASSUME backend = "memory" PROVE OnceInMemory'
    <2>1. OnceInMemory /\ e # NoEvent /\ ~Appended(e) /\ e.id <= made /\ e.task \in EventTasks
      BY <1>1, <1>6, NoEventIsNone DEF EventInv, OnceInMemory, e, Events
    <2>2. source'[s].event = NoEvent /\ \A r \in Sources : r # s => source'[r] = source[r]
      BY <1>1, <1>2 DEF EventTypes, Silent
    <2>3. \A r \in Sources : source'[r].event # NoEvent =>
            source'[r].event.id <= made' /\ ~Appended(source[r].event)'
      <3> TAKE r \in Sources
      <3> HAVE source'[r].event # NoEvent
      <3>1. r # s /\ source'[r].event = source[r].event /\ source[r].event # NoEvent
        BY <2>2
      <3>2. source[r].event \in Events /\ source[r].event # e
        BY <1>1, <2>1, <3>1 DEF EventTypes, OnceInMemory, e
      <3>3. source[r].event.id <= made /\ ~Appended(source[r].event)
        BY <2>1, <3>1 DEF OnceInMemory
      <3>4. ~Appended(source[r].event)'
        <4> DEFINE x == source'[r].event
        <4>1. x \in Events /\ x # e /\ ~Appended(x)
          BY <3>1, <3>2, <3>3
        <4> HIDE DEF x
        <4> QED BY <1>1, <1>2, <1>6, <4>1, WrittenKeeps DEF x, Appended
      <3> QED BY <1>2, <3>1, <3>3, <3>4 DEF Appended
    <2>4. \A r, q \in Sources :
            source'[r].event # NoEvent /\ source'[r].event = source'[q].event => r = q
      BY <2>1, <2>2 DEF OnceInMemory
    <2>5. ASSUME NEW u \in EventTasks
          PROVE  /\ \A i, j \in DOMAIN taskList'[u] : taskList'[u][i] = taskList'[u][j] => i = j
                 /\ \A i \in DOMAIN taskList'[u] : taskList'[u][i].id <= made'
      <3>1. taskList' = [taskList EXCEPT ![e.task] = Append(@, e)] /\ taskList[u] \in Seq(Events)
        BY <1>1, <1>2, <1>6 DEF EventWritten, TaskAppended, EventTypes
      <3> DEFINE q == taskList[u]
      <3>2. /\ \A i, j \in DOMAIN q : q[i] = q[j] => i = j
            /\ \A i \in DOMAIN q : q[i].id <= made
        BY <2>1 DEF OnceInMemory
      <3>3. CASE u = e.task
        <4>1. taskList'[u] = Append(q, e) /\ q \in Seq(Events)
          BY <1>1, <3>1, <3>3 DEF EventTypes
        <4>2. \A i \in DOMAIN q : q[i] # e
          BY <2>1, <3>3 DEF Appended
        <4> HIDE DEF q
        <4>3. /\ DOMAIN Append(q, e) = 1 .. Len(q) + 1 /\ Len(q) \in Nat /\ DOMAIN q = 1 .. Len(q)
              /\ \A i \in 1 .. Len(q) : Append(q, e)[i] = q[i]
              /\ Append(q, e)[Len(q) + 1] = e
          BY <4>1
        <4>4. /\ \A i, j \in DOMAIN Append(q, e) : Append(q, e)[i] = Append(q, e)[j] => i = j
              /\ \A i \in DOMAIN Append(q, e) : Append(q, e)[i].id <= made
          BY <2>1, <3>2, <4>2, <4>3
        <4> QED BY <1>2, <4>1, <4>4
      <3>4. CASE u # e.task
        <4>1. taskList'[u] = q
          BY <1>1, <3>1, <3>4 DEF EventTypes
        <4> QED BY <1>2, <3>2, <4>1
      <3> QED BY <3>3, <3>4
    <2> QED BY <2>3, <2>4, <2>5 DEF OnceInMemory, Appended
  <1> QED BY <1>2, <1>3, <1>4, <1>5, <1>6 DEF EventInv

LEMMA AppendRaisesPreserves ==
    ASSUME EventInv, NEW s \in Sources, AppendRaises(s)
    PROVE  EventInv'
  <1> DEFINE e == source[s].event
  <1>1. EventTypes /\ e \in Events
    BY EmittingAnEvent DEF EventInv, AppendRaises
  <1>2. /\ EventWritten(e) \/ UNCHANGED <<mainList, taskList>>
        /\ source' = [source EXCEPT ![s].attempts = @ + 1] /\ backend # "memory"
        /\ UNCHANGED <<backend, limit, made, returned>>
    BY DEF AppendRaises
  <1> HIDE DEF e
  <1>3. /\ ListsAgree' /\ Kept'
        /\ backend' = "sql" => Readable'
        /\ mainList' \in Seq(Events) /\ taskList' \in [EventTasks -> Seq(Events)]
    <2>1. CASE EventWritten(e)
      BY <1>1, <1>2, <2>1, WrittenPreserves DEF Kept
    <2>2. CASE UNCHANGED <<mainList, taskList>>
      BY <1>1, <1>2, <2>2, UnwrittenPreserves DEF EventTypes
    <2> QED BY <1>2, <2>1, <2>2
  <1>4. source' \in [Sources -> [event : Events \cup {NoEvent}, attempts : Nat]]
        /\ \A r \in Sources : source'[r].event = NoEvent => source'[r] = Silent
    <2>1. source[s].event # NoEvent
      BY <1>1, NoEventIsNone DEF e
    <2>2. source[s] \in [event : Events \cup {NoEvent}, attempts : Nat]
      BY <1>1 DEF EventTypes
    <2> DEFINE tried == [source[s] EXCEPT !.attempts = source[s].attempts + 1]
    <2>3. tried \in [event : Events \cup {NoEvent}, attempts : Nat] /\ tried.event = source[s].event
      BY <2>2
    <2>4. source' = [source EXCEPT ![s] = tried]
      BY <1>2
    <2> HIDE DEF tried
    <2> QED BY <1>1, <2>1, <2>3, <2>4 DEF EventTypes
  <1> QED BY <1>1, <1>2, <1>3, <1>4 DEF EventInv, EventTypes

LEMMA GiveUpPreserves ==
    ASSUME EventInv, NEW s \in Sources, GiveUp(s)
    PROVE  EventInv'
  <1>1. EventTypes
    BY DEF EventInv
  <1>2. /\ source' = [source EXCEPT ![s] = Silent]
        /\ UNCHANGED <<backend, limit, mainList, taskList, made, returned>>
    BY DEF GiveUp
  <1>3. EventTypes'
    BY <1>1, <1>2 DEF EventTypes, Silent
  <1>4. source'[s].event = NoEvent /\ \A r \in Sources : r # s => source'[r] = source[r]
    BY <1>1, <1>2 DEF EventTypes, Silent
  <1>5. backend = "memory" => OnceInMemory'
    BY <1>2, <1>4 DEF EventInv, OnceInMemory, Appended
  <1> QED BY <1>2, <1>3, <1>5, UnwrittenPreserves DEF EventInv

\* Nothing is on the lists of a process that has kept them in memory.
LEMMA EventRestartPreserves ==
    ASSUME EventInv, Restart
    PROVE  EventInv'
  <1>1. EventTypes
    BY DEF EventInv
  <1>2. source' = [s \in Sources |-> Silent] /\ UNCHANGED <<backend, limit, made>>
    BY DEF Restart
  <1>3. CASE UNCHANGED <<mainList, taskList, returned>> /\ backend # "memory"
    <2>1. EventTypes'
      BY <1>1, <1>2, <1>3 DEF EventTypes, Silent
    <2> QED BY <1>2, <1>3, <2>1, UnwrittenPreserves DEF EventInv
  <1>4. CASE /\ backend = "memory" /\ mainList' = <<>> /\ returned' = {}
             /\ taskList' = [t \in EventTasks |-> <<>>]
    <2>1. EventTypes'
      BY <1>1, <1>2, <1>4 DEF EventTypes, Silent
    <2>2. \A t : PlacesOf(<<>>, t) = {}
      BY DEF PlacesOf
    <2>3. ListsAgree'
      <3>1. \A t \in EventTasks : EndsAlike(<<>>, taskList'[t], t)
        BY <2>2 DEF EndsAlike
      <3>2. \A t \in EventTasks : Len(taskList'[t]) = Cardinality(PlacesOf(<<>>, t))
        BY <1>4, <2>2, FS_EmptySet
      <3>3. limit' = NoLimit
        BY <1>1, <1>2, <1>4 DEF EventTypes
      <3> QED BY <1>4, <3>1, <3>2, <3>3 DEF ListsAgree, EndsAlike, PlacesOf, LaterThan
    <2>4. OnceInMemory' /\ Kept'
      BY <1>2, <1>4 DEF OnceInMemory, Kept, Silent, Appended
    <2> QED BY <1>2, <1>4, <2>1, <2>3, <2>4 DEF EventInv
  <1> QED BY <1>3, <1>4 DEF Restart

LEMMA EventNextPreserves ==
    ASSUME EventInv, [EventNext]_eventVars
    PROVE  EventInv'
  <1>1. CASE EventNext
    BY <1>1, MakeEventPreserves, AppendReturnsPreserves, AppendRaisesPreserves,
       GiveUpPreserves, EventRestartPreserves DEF EventNext
  <1>2. CASE UNCHANGED eventVars
    <2>1. UNCHANGED <<backend, limit, mainList, taskList, source, made, returned>>
      BY <1>2 DEF eventVars
    <2> QED BY <2>1, UnwrittenPreserves DEF EventInv, EventTypes, OnceInMemory, Appended
  <1> QED BY <1>1, <1>2

LEMMA EventInvInvariant == EventSpec => []EventInv
  BY InitEventInv, EventNextPreserves, PTL DEF EventSpec

-----------------------------------------------------------------------------
(* Journal: what is read                                                   *)

\* Every read of the journal returns some list.
ReadsReturn ==
    get_all_events # {} /\ \A t \in EventTasks : get_events_for_task(t) # {}

\* A read of the journal returns a list, however many rows of whatever times
\* have been appended: what the next two theorems say of all lists is not said
\* of none.
THEOREM ListsExist == EventSpec => []ReadsReturn
  <1>1. EventInv => ReadsReturn
    BY DEF EventInv, Readable, ReadsReturn, get_all_events, get_events_for_task
  <1> QED BY <1>1, EventInvInvariant, PTL

LEMMA InvViewsAgree == EventInv => ViewsAgree
  <1> SUFFICES ASSUME EventInv,
                      NEW all \in get_all_events, NEW t \in EventTasks,
                      NEW found \in get_events_for_task(t)
               PROVE  /\ \A i \in PlacesOf(all, t) :
                            /\ LaterThan(all, i) < Len(found)
                            /\ Equivalent(found[Len(found) - LaterThan(all, i)], all[i])
                      /\ limit # NoLimit => Len(all) <= limit
                      /\ \/ limit # NoLimit /\ Len(all) = limit
                         \/ Len(found) = Cardinality(PlacesOf(all, t))
    BY DEF ViewsAgree
  <1>1. EventTypes /\ ListsAgree
    BY DEF EventInv
  <1>2. CASE backend = "sql"
    <2>1. all \in ByTimestamp(ToSet(mainList)) /\ found \in ByTimestamp(OfTask(ToSet(mainList), t))
      BY <1>2 DEF get_all_events, get_events_for_task
    <2>2. ToSet(mainList) \in SUBSET Events /\ IsFiniteSet(ToSet(mainList))
      BY <1>1, RowsAreFinite DEF EventTypes
    <2>3. limit = NoLimit
      BY <1>1, <1>2 DEF EventTypes
    <2> QED BY <1>2, <2>1, <2>2, <2>3, OrderedViewsAgree DEF Equivalent
  <1>3. CASE backend # "sql"
    <2>1. all = mainList /\ found = taskList[t]
      BY <1>3 DEF get_all_events, get_events_for_task
    <2> QED BY <1>1, <1>3, <2>1 DEF ListsAgree, EndsAlike, Equivalent
  <1> QED BY <1>2, <1>3

\* What get_events_for_task returns is what get_all_events ends with, as far as
\* it is of the task, and both are complete unless ltrim has cut the latter: on
\* each backend, for every limit.
THEOREM ViewsCorrect == EventSpec => []ViewsAgree
  BY EventInvInvariant, InvViewsAgree, PTL

LEMMA InvAcknowledgedRead == EventInv => AcknowledgedRead
  <1> SUFFICES ASSUME EventInv, NEW e \in returned, NEW found \in get_events_for_task(e.task)
               PROVE  LET times == Cardinality({i \in DOMAIN found : found[i] = e})
                      IN  times = 1 \/ (times > 1 /\ backend = "redis")
    BY DEF AcknowledgedRead
  <1> DEFINE P == {i \in DOMAIN found : found[i] = e}
  <1>1. EventTypes /\ Kept /\ e \in Events /\ e.task \in EventTasks
    BY DEF EventInv, EventTypes, Events
  <1>2. ASSUME NEW j \in P, \A i \in P : i = j PROVE Cardinality(P) = 1
    <2>1. P = {j}
      BY <1>2
    <2> HIDE DEF P
    <2> QED BY <2>1, FS_Singleton
  <1>3. CASE backend = "sql"
    <2> DEFINE own == OfTask(ToSet(mainList), e.task)
    <2>1. found \in ByTimestamp(own) /\ e \in own
      BY <1>1, <1>3 DEF get_events_for_task, Kept, OfTask
    <2>2. IsFiniteSet(own)
      BY <1>1, RowsAreFinite, FS_Subset DEF EventTypes, OfTask
    <2> HIDE DEF own
    <2>3. /\ DOMAIN found = 1 .. Len(found)
          /\ \A i, j \in 1 .. Len(found) : found[i] = found[j] => i = j
          /\ \E i \in 1 .. Len(found) : found[i] = e
      BY <2>1, <2>2, OrderedIsOnto
    <2>4. \E j \in P : \A i \in P : i = j
      BY <2>3
    <2> HIDE DEF P
    <2>5. Cardinality(P) = 1
      BY <1>2, <2>4
    <2> QED BY <2>5 DEF P
  <1>4. CASE backend # "sql"
    <2>1. found = taskList[e.task] /\ found \in Seq(Events)
      BY <1>1, <1>4 DEF get_events_for_task, EventTypes
    <2>2. PICK j \in DOMAIN found : found[j] = e
      BY <1>1, <1>4, <2>1 DEF Kept, Appended
    <2>3. CASE backend = "memory"
      <3>1. \A i \in P : i = j
        BY <1>1, <2>1, <2>2, <2>3 DEF EventInv, OnceInMemory
      <3>2. j \in P
        BY <2>2
      <3> HIDE DEF P
      <3>3. Cardinality(P) = 1
        BY <1>2, <3>1, <3>2
      <3> QED BY <3>3 DEF P
    <2>4. CASE backend = "redis"
      <3>1. P \subseteq 1 .. Len(found) /\ j \in P /\ IsFiniteSet(1 .. Len(found))
        BY <2>1, <2>2, FS_Interval
      <3> HIDE DEF P
      <3>2. IsFiniteSet(P) /\ P # {}
        BY <3>1, FS_Subset
      <3>3. Cardinality(P) \in Nat /\ Cardinality(P) # 0
        BY <3>2, FS_CardinalityType, FS_EmptySet
      <3>4. Cardinality(P) = 1 \/ Cardinality(P) > 1
        BY <3>3
      <3> QED BY <2>4, <3>4 DEF P
    <2> QED BY <1>1, <1>4, <2>3, <2>4 DEF EventTypes
  <1> QED BY <1>3, <1>4

\* An event is read ever after its append has returned, although appends fail
\* with and without effect, are tried again, and processes restart; once only,
\* unless it is Redis that is asked twice.
THEOREM ReadCorrect == EventSpec => []AcknowledgedRead
  BY EventInvInvariant, InvAcknowledgedRead, PTL

=============================================================================
