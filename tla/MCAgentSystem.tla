--------------------------- MODULE MCAgentSystem ---------------------------
(* The instances of AgentSystem that TLC checks.                           *)
EXTENDS AgentSystem, TLC

CONSTANTS t1, t2, a1, a2, w1, w2

\* t1 goes before t2, whichever was created first.
UrgentFirst == t1 :> 2 @@ t2 :> 1
EqualPriority == [t \in Tasks |-> 1]

EveryAgent == [t \in Tasks |-> Agents]

\* t1 needs a capability only a1 has.
OnlyFirstAgent == t1 :> {a1} @@ t2 :> Agents

WorkerSymmetry == Permutations(Workers)

\* Nothing but properties reads task.error, task.assigned_to, and agent.status as
\* long as nobody is suspended: two states that differ in these only behave alike.
StatusView == <<status, retries, retryDue, cancelRequested, creationVars, queueVars,
                resultVars, registered, active, worker, submitter, canceller>>

=============================================================================
