------------------------------ MODULE SqlStore ------------------------------
(***************************************************************************)
(* The transactions of SqlTaskRepository (src/agents/persistence.py) and   *)
(* SqlEventStore (src/agents/events.py): one row is written or deleted in  *)
(* `with engine.begin()', rows are read in `with engine.connect()'.  The   *)
(* pool hands out one connection to everybody for sqlite (StaticPool), and *)
(* one to each caller for the other databases (QueuePool).                 *)
(***************************************************************************)

CONSTANTS
    Callers,           \* threads that call the store
    Writers,           \* those of them that write
    Ids,               \* the primary keys of the rows
    Contents,          \* what a row may hold
    NoRow,             \* the row is not there; a delete writes it
    SharedConnection   \* the database is sqlite

ASSUME SqlAssumption == NoRow \notin Contents /\ Writers \subseteq Callers

VARIABLES
    table,         \* the committed rows
    uncommitted,   \* connection -> the rows its transaction has written
    caller,        \* what a caller is doing, on which row
    acknowledged   \* history: what the last call that returned has written

sqlVars == <<table, uncommitted, caller, acknowledged>>

Row == Contents \cup {NoRow}
Resting == [pc |-> "idle", id |-> NoRow, row |-> NoRow]

\* A transaction is a partial function from ids to rows.
NoWrites == [i \in {} |-> NoRow]

\* Faulty variant of Connection: a pool of one connection for every database.
OneConnection(c) == "shared"

\* poolclass
Connection(c) == IF SharedConnection THEN "shared" ELSE c

Connections == {Connection(c) : c \in Callers}

SqlInit ==
    /\ table = [i \in Ids |-> NoRow]
    /\ uncommitted = [n \in Connections |-> NoWrites]
    /\ caller = [c \in Callers |-> Resting]
    /\ acknowledged = table

\* What the statements of connection n find in row i.
Found(n, i) == IF i \in DOMAIN uncommitted[n] THEN uncommitted[n][i] ELSE table[i]

\* The database makes a second transaction wait for a row the first has written.
Unlocked(n, i) == \A m \in Connections \ {n} : i \notin DOMAIN uncommitted[m]

RowWritten(n, i, r) ==
    [j \in DOMAIN uncommitted[n] \cup {i} |-> IF j = i THEN r ELSE Found(n, j)]

\* save_task (an upsert) and delete_task
Upsert(c, i, r) ==
    /\ c \in Writers
    /\ caller[c].pc = "idle"
    /\ Unlocked(Connection(c), i)
    /\ uncommitted' = [uncommitted EXCEPT ![Connection(c)] = RowWritten(Connection(c), i, r)]
    /\ caller' = [caller EXCEPT ![c] = [pc |-> "executed", id |-> i, row |-> r]]
    /\ UNCHANGED <<table, acknowledged>>

\* append: an insert, refused if there is an event of this id already
Insert(c, i, r) ==
    /\ Found(Connection(c), i) = NoRow
    /\ Upsert(c, i, r)

\* The statement is refused or fails, or the statement is a select: in each
\* case the connection is given back without a commit.
WithoutCommit(c) ==
    /\ caller[c].pc = "idle"
    /\ caller' = [caller EXCEPT ![c] = [Resting EXCEPT !.pc = "reading"]]
    /\ UNCHANGED <<table, uncommitted, acknowledged>>

\* The end of begin(): the call returns.
Commit(c) ==
    LET n == Connection(c) IN
    /\ caller[c].pc = "executed"
    /\ table' = [i \in Ids |-> Found(n, i)]
    /\ uncommitted' = [uncommitted EXCEPT ![n] = NoWrites]
    /\ caller' = [caller EXCEPT ![c] = Resting]
    /\ acknowledged' = [acknowledged EXCEPT ![caller[c].id] = caller[c].row]

\* Closing a connection that has not been committed rolls it back.
Close(c) ==
    /\ caller[c].pc = "reading"
    /\ uncommitted' = [uncommitted EXCEPT ![Connection(c)] = NoWrites]
    /\ caller' = [caller EXCEPT ![c] = Resting]
    /\ UNCHANGED <<table, acknowledged>>

SqlNext ==
    \E c \in Callers :
        \/ \E i \in Ids, r \in Row : Upsert(c, i, r)
        \/ \E i \in Ids, r \in Contents : Insert(c, i, r)
        \/ WithoutCommit(c)
        \/ Commit(c)
        \/ Close(c)

SqlSpec == SqlInit /\ [][SqlNext]_sqlVars

-----------------------------------------------------------------------------

\* "Implementations must be thread-safe" (TaskRepository): a row nobody is
\* writing holds what the last call that returned has written to it.
AcknowledgedKept ==
    \A i \in Ids :
        (\A c \in Callers : caller[c].id = i => caller[c].pc # "executed")
            => table[i] = acknowledged[i]

=============================================================================
