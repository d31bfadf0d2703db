----------------------------- MODULE AgentProofs -----------------------------
(***************************************************************************)
(* The parts around the agents, for all values of their constants:         *)
(* AgentMemory forgets only when it is full, and then the oldest; the      *)
(* clean-up of remove_agent leaves no reference behind in AgentRegistry    *)
(* but those to the orchestrator, and its counter does not fall below the  *)
(* number of agents; the trail of GhostModal explains its modes; and in    *)
(* StatusRace, where checks and writes of a status interleave, no task is  *)
(* left RUNNING.                                                           *)
(***************************************************************************)
EXTENDS AgentMemory, AgentRegistry, GhostModal, StatusRace,
        FiniteSetTheorems, SequenceTheorems, TLAPS

-----------------------------------------------------------------------------
(* The memory of an agent                                                  *)

\* An entry bears the time at which its key was stored last.
MemoryTypes ==
    /\ maxEpisodes \in Nat
    /\ now \in Nat
    /\ Remembered \in SUBSET EpisodeKeys
    /\ IsFiniteSet(Remembered)
    /\ Cardinality(Remembered) <= maxEpisodes
    /\ storedAt \in [EpisodeKeys -> Int]
    /\ \A k \in EpisodeKeys : storedAt[k] <= now
    /\ \A k \in Remembered : storedAt[k] \in Nat /\ episodes[k] = storedAt[k]

OldestForgotten ==
    \A f \in EpisodeKeys \ Remembered :
        storedAt[f] >= 0 => Full /\ \A k \in Remembered : storedAt[f] <= storedAt[k]

MemoryInv == MemoryTypes /\ OldestForgotten

-----------------------------------------------------------------------------

LEMMA InitMemoryInv == MemoryInit => MemoryInv
  <1> SUFFICES ASSUME MemoryInit PROVE MemoryInv
    OBVIOUS
  <1>1. Remembered = {}
    BY DEF MemoryInit, Remembered
  <1>2. IsFiniteSet(Remembered) /\ Cardinality(Remembered) = 0
    BY <1>1, FS_EmptySet
  <1> QED BY <1>1, <1>2, LimitsAssumption DEF MemoryInit, MemoryInv, MemoryTypes, OldestForgotten

\* A key that is there, or room for one that is not.
LEMMA RoomPreserves ==
    ASSUME MemoryInv, NEW k \in EpisodeKeys, NEW t \in Nat, now <= t,
           now' = t, storedAt' = [storedAt EXCEPT ![k] = t], maxEpisodes' = maxEpisodes,
           k \in Remembered \/ ~Full,
           episodes' = Entered(Remembered, k, t)
    PROVE  MemoryInv'
  <1>1. Remembered' = Remembered \cup {k}
    BY DEF Remembered, Entered
  <1>2. \A j \in Remembered' : episodes'[j] = IF j = k THEN t ELSE episodes[j]
    BY <1>1 DEF Remembered, Entered
  <1>3. /\ IsFiniteSet(Remembered')
        /\ Cardinality(Remembered') <= maxEpisodes
        /\ Cardinality(Remembered) <= Cardinality(Remembered')
    <2>1. /\ IsFiniteSet(Remembered) /\ maxEpisodes \in Nat
          /\ Cardinality(Remembered) \in Nat /\ Cardinality(Remembered) <= maxEpisodes
      BY FS_CardinalityType DEF MemoryInv, MemoryTypes
    <2>2. /\ IsFiniteSet(Remembered \cup {k})
          /\ Cardinality(Remembered \cup {k}) =
                IF k \in Remembered THEN Cardinality(Remembered) ELSE Cardinality(Remembered) + 1
      BY <2>1, FS_AddElement
    <2>3. k \notin Remembered => Cardinality(Remembered) < maxEpisodes
      BY <2>1 DEF Full
    <2> QED BY <1>1, <2>1, <2>2, <2>3
  <1>4. MemoryTypes'
    BY <1>1, <1>2, <1>3 DEF MemoryInv, MemoryTypes
  <1>5. OldestForgotten'
    <2> SUFFICES ASSUME NEW f \in EpisodeKeys \ Remembered', storedAt'[f] >= 0
                 PROVE  Full' /\ \A j \in Remembered' : storedAt'[f] <= storedAt'[j]
      BY DEF OldestForgotten
    <2>1. f \notin Remembered /\ f # k /\ storedAt'[f] = storedAt[f]
      BY <1>1 DEF MemoryInv, MemoryTypes
    <2>2. Full /\ \A j \in Remembered : storedAt[f] <= storedAt[j]
      BY <2>1 DEF MemoryInv, OldestForgotten
    <2>3. k \in Remembered /\ Remembered' = Remembered
      BY <2>2, <1>1
    <2>4. storedAt[f] <= t
      BY DEF MemoryInv, MemoryTypes
    <2> QED BY <2>1, <2>2, <2>3, <2>4 DEF MemoryInv, MemoryTypes, Full
  <1> QED BY <1>4, <1>5 DEF MemoryInv

\* An oldest entry makes room: it is not younger than what stays.
LEMMA EvictionPreserves ==
    ASSUME MemoryInv, NEW k \in EpisodeKeys, NEW t \in Nat, now <= t,
           now' = t, storedAt' = [storedAt EXCEPT ![k] = t], maxEpisodes' = maxEpisodes,
           k \notin Remembered, Full,
           NEW old \in Remembered, Oldest(old),
           episodes' = Entered(Remembered \ {old}, k, t)
    PROVE  MemoryInv'
  <1>1. Remembered' = (Remembered \ {old}) \cup {k}
    BY DEF Remembered, Entered
  <1>2. \A j \in Remembered' : episodes'[j] = IF j = k THEN t ELSE episodes[j]
    BY <1>1 DEF Remembered, Entered
  <1>3. /\ IsFiniteSet(Remembered \ {old})
        /\ Cardinality(Remembered \ {old}) = Cardinality(Remembered) - 1
    BY FS_RemoveElement DEF MemoryInv, MemoryTypes
  <1>4. /\ IsFiniteSet(Remembered')
        /\ Cardinality(Remembered') = Cardinality(Remembered \ {old}) + 1
    BY <1>1, <1>3, FS_AddElement
  <1>5. Cardinality(Remembered') = Cardinality(Remembered)
    BY <1>3, <1>4, FS_CardinalityType DEF MemoryInv, MemoryTypes
  <1>6. MemoryTypes'
    BY <1>1, <1>2, <1>4, <1>5 DEF MemoryInv, MemoryTypes
  <1>7. OldestForgotten'
    <2> SUFFICES ASSUME NEW f \in EpisodeKeys \ Remembered', storedAt'[f] >= 0
                 PROVE  Full' /\ \A j \in Remembered' : storedAt'[f] <= storedAt'[j]
      BY DEF OldestForgotten
    <2>1. f # k /\ storedAt'[f] = storedAt[f] /\ storedAt[f] <= t
      BY <1>1 DEF MemoryInv, MemoryTypes
    <2>2. Full'
      BY <1>5 DEF Full
    <2>3. \A j \in Remembered : storedAt[f] <= storedAt[j]
      <3>1. CASE f = old
        BY <3>1 DEF MemoryInv, MemoryTypes, Oldest
      <3>2. CASE f # old
        BY <1>1, <2>1, <3>2 DEF MemoryInv, OldestForgotten
      <3> QED BY <3>1, <3>2
    <2> QED BY <1>1, <2>1, <2>2, <2>3 DEF MemoryInv, MemoryTypes
  <1> QED BY <1>6, <1>7 DEF MemoryInv

\* The dictionary of what is remembered stays, and the clock goes on.
LEMMA ReadingPreserves ==
    ASSUME MemoryInv, NEW t \in Nat, now <= t, now' = t,
           UNCHANGED <<maxEpisodes, episodes, storedAt>>
    PROVE  MemoryInv'
  BY DEF MemoryInv, MemoryTypes, OldestForgotten, Remembered, Full

LEMMA MemoryInvStep == MemoryInv /\ [MemoryNext]_memoryVars => MemoryInv'
  <1> SUFFICES ASSUME MemoryInv, [MemoryNext]_memoryVars PROVE MemoryInv'
    OBVIOUS
  <1>1. CASE MemoryNext
    <2>1. PICK t \in {now, now + 1} :
            \/ \E k \in EpisodeKeys : store_episode(k, t) \/ retrieve(k, t)
            \/ StoreRaises(t)
      BY <1>1 DEF MemoryNext
    <2>2. t \in Nat /\ now <= t
      BY <2>1 DEF MemoryInv, MemoryTypes
    <2>3. ASSUME NEW k \in EpisodeKeys, store_episode(k, t)
          PROVE  MemoryInv'
      <3>1. CASE (k \in Remembered \/ ~Full) /\ episodes' = Entered(Remembered, k, t)
        BY <2>2, <2>3, <3>1, RoomPreserves DEF store_episode
      <3>2. CASE /\ k \notin Remembered /\ Full
                 /\ \E old \in Remembered :
                        Oldest(old) /\ episodes' = Entered(Remembered \ {old}, k, t)
        BY <2>2, <2>3, <3>2, EvictionPreserves DEF store_episode
      <3> QED BY <2>3, <3>1, <3>2 DEF store_episode
    <2>4. ASSUME NEW k \in EpisodeKeys, retrieve(k, t)
          PROVE  MemoryInv'
      BY <2>2, <2>4, ReadingPreserves DEF retrieve, Accessed
    <2>5. CASE StoreRaises(t)
      BY <2>2, <2>5, ReadingPreserves DEF StoreRaises
    <2> QED BY <2>1, <2>3, <2>4, <2>5
  <1>2. CASE UNCHANGED memoryVars
    BY <1>2 DEF memoryVars, MemoryInv, MemoryTypes, OldestForgotten, Remembered, Full
  <1> QED BY <1>1, <1>2

-----------------------------------------------------------------------------

\* The memory stays within its limit, forgets nothing before it is full, and what
\* it has forgotten was not stored after anything it remembers.
THEOREM ForgettingCorrect == MemorySpec => []ForgetsTheOldest
  <1>1. MemoryInv => ForgetsTheOldest
    BY DEF MemoryInv, MemoryTypes, OldestForgotten, ForgetsTheOldest
  <1> QED BY <1>1, InitMemoryInv, MemoryInvStep, PTL DEF MemorySpec

-----------------------------------------------------------------------------
(* The registry                                                            *)

RegistryTypes ==
    /\ agents \in SUBSET RegAgents
    /\ parent \in [RegAgents -> RegAgents \cup {NoParent}]
    /\ peers \in [RegAgents -> SUBSET RegAgents]
    /\ children \in [RegAgents -> SUBSET RegAgents]

\* Friends know each other and are registered, so that whoever is removed finds
\* everybody who refers to it.
PeersMutual ==
    \A a, b \in RegAgents : b \in peers[a] => {a, b} \subseteq agents /\ a \in peers[b]

\* Whoever is not registered has no parent, and a parent other than the
\* orchestrator is registered and knows its children.
ParentsKnow ==
    \A b \in RegAgents :
        \/ parent[b] = NoParent
        \/ /\ b \in agents
           /\ parent[b] # Orchestrator => parent[b] \in agents /\ b \in children[parent[b]]

Counted ==
    /\ managed \cup {Orchestrator} = agents \cup {Orchestrator}
    /\ managed \subseteq agents
    /\ IsFiniteSet(agents)
    /\ total_agents \in Nat
    /\ total_agents >= Cardinality(agents)

References == RegistryTypes /\ PeersMutual /\ ParentsKnow

-----------------------------------------------------------------------------

LEMMA InitReferences == RegistryInit => References /\ Counted
  <1> SUFFICES ASSUME RegistryInit PROVE References /\ Counted
    OBVIOUS
  <1>1. References
    BY RegistryAssumption
       DEF RegistryInit, References, RegistryTypes, PeersMutual, ParentsKnow
  <1>2. IsFiniteSet({}) /\ Cardinality({}) = 0
    BY FS_EmptySet
  <1>3. IsFiniteSet({} \cup {Orchestrator}) /\ Cardinality({} \cup {Orchestrator}) = 1
    BY <1>2, FS_AddElement
  <1>4. {} \cup {Orchestrator} = {Orchestrator}
    OBVIOUS
  <1>5. Counted
    BY <1>3, <1>4 DEF RegistryInit, Counted
  <1> QED BY <1>1, <1>5

LEMMA AddKeepsReferences ==
    ASSUME References, NEW a \in RegAgents, add_agent(a)
    PROVE  References'
  <1>1. RegistryTypes'
    BY RegistryAssumption DEF References, RegistryTypes, add_agent
  <1>2. PeersMutual'
    BY DEF References, RegistryTypes, PeersMutual, add_agent
  <1>3. ParentsKnow'
    BY DEF References, RegistryTypes, ParentsKnow, add_agent
  <1> QED BY <1>1, <1>2, <1>3 DEF References

LEMMA RemoveKeepsReferences ==
    ASSUME References, NEW a \in RegAgents, remove_agent(a)
    PROVE  References'
  <1>1. RegistryTypes'
    <2>1. parent' \in [RegAgents -> RegAgents \cup {NoParent}]
      BY DEF References, RegistryTypes, remove_agent, ParentsWithout
    <2>2. peers' \in [RegAgents -> SUBSET RegAgents]
      BY DEF References, RegistryTypes, remove_agent, PeersWithout
    <2> QED BY <2>1, <2>2 DEF References, RegistryTypes, remove_agent
  <1>2. PeersMutual'
    <2> SUFFICES ASSUME NEW b \in RegAgents, NEW c \in RegAgents, c \in peers'[b]
                 PROVE  {b, c} \subseteq agents' /\ b \in peers'[c]
      BY DEF PeersMutual
    <2>1. b # a /\ c \in peers[b] /\ {b, c} \subseteq agents /\ b \in peers[c]
      BY DEF References, RegistryTypes, PeersMutual, remove_agent, PeersWithout
    <2>2. c # a
      <3>1. SUFFICES ASSUME c = a PROVE FALSE
        OBVIOUS
      <3>2. b \in peers[a] \cap agents
        BY <2>1, <3>1
      <3>3. peers'[b] = peers[b] \ {a}
        BY <2>1, <3>2 DEF remove_agent, PeersWithout
      <3> QED BY <3>1, <3>3
    <2> QED BY <2>1, <2>2 DEF remove_agent, PeersWithout
  <1>3. ParentsKnow'
    <2> SUFFICES ASSUME NEW b \in RegAgents, parent'[b] # NoParent
                 PROVE  /\ b \in agents'
                        /\ parent'[b] # Orchestrator
                                => parent'[b] \in agents' /\ b \in children'[parent'[b]]
      BY DEF ParentsKnow
    <2>1. /\ b # a
          /\ parent'[b] = parent[b]
          /\ ~(b \in children[a] \cap (agents \ {a}) /\ parent[b] = a)
      BY DEF remove_agent, ParentsWithout
    <2>2. /\ b \in agents
          /\ parent[b] # Orchestrator => parent[b] \in agents /\ b \in children[parent[b]]
      BY <2>1 DEF References, ParentsKnow
    <2>3. parent[b] = a => parent[b] = Orchestrator
      BY <2>1, <2>2
    <2> QED BY <2>1, <2>2, <2>3 DEF References, RegistryTypes, remove_agent
  <1> QED BY <1>1, <1>2, <1>3 DEF References

LEMMA BefriendKeepsReferences ==
    ASSUME References, NEW a \in RegAgents, NEW b \in RegAgents, Befriend(a, b)
    PROVE  References'
  <1>1. RegistryTypes'
    BY DEF References, RegistryTypes, Befriend
  <1>2. PeersMutual'
    BY DEF References, RegistryTypes, PeersMutual, Befriend
  <1>3. ParentsKnow'
    BY DEF References, ParentsKnow, Befriend
  <1> QED BY <1>1, <1>2, <1>3 DEF References

LEMMA AdoptKeepsReferences ==
    ASSUME References, NEW a \in RegAgents, NEW b \in RegAgents, Adopt(a, b)
    PROVE  References'
  <1>1. RegistryTypes'
    BY DEF References, RegistryTypes, Adopt
  <1>2. PeersMutual'
    BY DEF References, PeersMutual, Adopt
  <1>3. ParentsKnow'
    BY DEF References, RegistryTypes, ParentsKnow, Adopt
  <1> QED BY <1>1, <1>2, <1>3 DEF References

LEMMA StepKeepsReferences == References /\ [RegistryNext]_registryVars => References'
  <1> SUFFICES ASSUME References, [RegistryNext]_registryVars PROVE References'
    OBVIOUS
  <1>1. CASE RegistryNext
    BY <1>1, AddKeepsReferences, RemoveKeepsReferences, BefriendKeepsReferences,
       AdoptKeepsReferences DEF RegistryNext
  <1>2. CASE UNCHANGED registryVars
    BY <1>2 DEF registryVars, References, RegistryTypes, PeersMutual, ParentsKnow
  <1> QED BY <1>1, <1>2

-----------------------------------------------------------------------------

LEMMA AddKeepsCount ==
    ASSUME Counted, NEW a \in RegAgents, add_agent(a)
    PROVE  Counted'
  <1>1. /\ IsFiniteSet(agents \cup {a})
        /\ Cardinality(agents \cup {a}) <= Cardinality(agents) + 1
    BY FS_AddElement, FS_CardinalityType DEF Counted
  <1>2. Cardinality(agents) \in Nat /\ Cardinality(agents \cup {a}) \in Nat
    BY <1>1, FS_CardinalityType DEF Counted
  <1> QED BY <1>1, <1>2 DEF Counted, add_agent

\* Only an agent that is there is taken off the count.
LEMMA RemoveKeepsCount ==
    ASSUME Counted, NEW a \in RegAgents, remove_agent(a)
    PROVE  Counted'
  <1>1. a \in agents
    BY DEF remove_agent, Known
  <1>2. /\ IsFiniteSet(agents \ {a})
        /\ Cardinality(agents \ {a}) = Cardinality(agents) - 1
    BY <1>1, FS_RemoveElement DEF Counted
  <1>3. Cardinality(agents) \in Nat /\ Cardinality(agents \ {a}) \in Nat
    BY <1>2, FS_CardinalityType DEF Counted
  <1> QED BY <1>2, <1>3 DEF Counted, remove_agent

LEMMA StepKeepsCount == Counted /\ [RegistryNext]_registryVars => Counted'
  <1> SUFFICES ASSUME Counted, [RegistryNext]_registryVars PROVE Counted'
    OBVIOUS
  <1>1. CASE UNCHANGED <<agents, managed, total_agents>>
    BY <1>1 DEF Counted
  <1> QED BY <1>1, AddKeepsCount, RemoveKeepsCount
          DEF RegistryNext, Befriend, Adopt, registryVars

-----------------------------------------------------------------------------

\* The peers of a registered agent are registered, and its parent is unless it
\* is the orchestrator, which remove_agent accepts as it does any other.
THEOREM ReferencesCorrect == RegistrySpec => []NoDanglingReference
  <1>1. References => NoDanglingReference
    BY DEF References, RegistryTypes, PeersMutual, ParentsKnow, NoDanglingReference
  <1>2. RegistryInit => References
    BY InitReferences
  <1> QED BY <1>1, <1>2, StepKeepsReferences, PTL DEF RegistrySpec

\* The orchestrator manages the registered agents, and total_agents is no less.
THEOREM CountCorrect == RegistrySpec => []CountNotBelow
  <1>1. Counted => CountNotBelow
    BY DEF Counted, CountNotBelow
  <1>2. RegistryInit => Counted
    BY InitReferences
  <1> QED BY <1>1, <1>2, StepKeepsCount, PTL DEF RegistrySpec

-----------------------------------------------------------------------------
(* The modal router                                                        *)

AuditEntries == [event : {"evaluation", "tool_execution"}, mode : GhostModes]

GhostInv ==
    /\ mode \in GhostModes
    /\ audit \in Seq(AuditEntries)
    /\ TrailExplainsModes

\* An entry that bears the mode at work, or is an evaluation, keeps the trail.
LEMMA LoggedKeepsTrail ==
    ASSUME GhostInv, NEW event \in {"evaluation", "tool_execution"}, NEW m \in GhostModes,
           Logged(event, m), mode' = m, event = "evaluation" \/ m = mode
    PROVE  GhostInv'
  <1> DEFINE e == [event |-> event, mode |-> m]
  <1>1. e \in AuditEntries /\ audit \in Seq(AuditEntries)
    BY DEF AuditEntries, GhostInv
  <1>2. /\ audit' = Append(audit, e)
        /\ audit' \in Seq(AuditEntries)
        /\ Len(audit') = Len(audit) + 1
        /\ \A i \in 1 .. Len(audit) : audit'[i] = audit[i]
        /\ audit'[Len(audit) + 1] = e
        /\ Len(audit) \in Nat
    <2> HIDE DEF e
    <2>1. audit' = Append(audit, e)
      BY DEF Logged, e
    <2> QED BY <1>1, <2>1
  <1>3. ASSUME NEW i \in 0 .. Len(audit) PROVE ModeAfter(i)' = ModeAfter(i)
    BY <1>2 DEF ModeAfter
  <1>4. ModeAfter(Len(audit))' = m
    BY <1>2 DEF ModeAfter
  <1>5. ASSUME NEW i \in DOMAIN audit'
        PROVE  audit'[i].event = "evaluation" \/ audit'[i].mode = ModeAfter(i - 1)'
    <2>1. i \in 1 .. Len(audit) + 1
      BY <1>2
    <2>2. CASE i \in 1 .. Len(audit)
      <3>1. i - 1 \in 0 .. Len(audit) /\ i \in DOMAIN audit
        BY <1>1, <1>2, <2>2
      <3> QED BY <1>2, <1>3, <2>2, <3>1 DEF GhostInv, TrailExplainsModes
    <2>3. CASE i = Len(audit) + 1
      <3>1. i - 1 = Len(audit) /\ Len(audit) \in 0 .. Len(audit)
        BY <1>2, <2>3
      <3> QED BY <1>2, <1>3, <2>3, <3>1 DEF GhostInv, TrailExplainsModes
    <2> QED BY <2>1, <2>2, <2>3, <1>2
  <1> QED BY <1>2, <1>4, <1>5 DEF GhostInv, TrailExplainsModes

\* The audit trail explains the mode, however deep the calls of tools are nested.
THEOREM TrailCorrect == GhostSpec => []TrailExplainsModes
  <1>1. GhostInit => GhostInv
    BY DEF GhostInit, GhostInv, TrailExplainsModes, ModeAfter, GhostModes
  <1>2. GhostInv /\ [GhostNext]_ghostVars => GhostInv'
    <2> SUFFICES ASSUME GhostInv, [GhostNext]_ghostVars PROVE GhostInv'
      OBVIOUS
    <2>1. ASSUME NEW m \in GhostModes, evaluate(m) PROVE GhostInv'
      BY <2>1, LoggedKeepsTrail DEF evaluate
    <2>2. CASE ToolReturns
      BY <2>2, LoggedKeepsTrail DEF ToolReturns, AuditedMode, GhostInv
    <2>3. CASE UNCHANGED <<mode, audit>>
      BY <2>3 DEF GhostInv, TrailExplainsModes, ModeAfter
    <2> QED BY <2>1, <2>2, <2>3 DEF GhostNext, ghostVars, execute, ToolRaises, register_tool
  <1>3. GhostInv => TrailExplainsModes
    BY DEF GhostInv
  <1> QED BY <1>1, <1>2, <1>3, PTL DEF GhostSpec

-----------------------------------------------------------------------------
(* The status under two locks                                              *)

\* A worker here is going to end the task.
WillEnd == {"running", "check", "write", "handler", "retrying", "cancelled"}

RaceTypes ==
    /\ pc \in [Threads -> {"idle", "entering", "found", "request", "out"} \cup WillEnd]
    /\ target \in [Threads -> Statuses \cup {"none"}]

\* What the threads ask transition_to for, which the table grants from RUNNING
\* except for RUNNING itself, and where only workers get to.
Targets ==
    /\ \A w \in Workers : pc[w] \in {"check", "write"} =>
            target[w] \in {"RUNNING", "COMPLETED", "FAILED", "RETRYING", "CANCELLED"}
    /\ \A c \in Cancellers :
            /\ pc[c] \in {"idle", "found", "check", "write", "request", "out"}
            /\ pc[c] \in {"check", "write"} => target[c] = "CANCELLED"

RaceInv == RaceTypes /\ Targets /\ RunningNotAbandoned


\* A step of p leaves the other threads where they are.
LEMMA RaceTypesStep ==
    ASSUME RaceTypes, Targets, NEW p \in Threads,
           \/ Check(p) \/ Write(p) \/ Return(p)
           \/ Enter(p) \/ Run(p) \/ Handle(p) \/ HandleRetry(p) \/ HandleCancel(p)
           \/ Cancel(p) \/ CancelFound(p) \/ RequestCancel(p)
    PROVE  RaceTypes' /\ Targets' /\ \A q \in Threads \ {p} : pc'[q] = pc[q]
  <1> USE DEF RaceTypes, Targets, Threads, WillEnd, Goto, CallTransition, Statuses
  <1>1. p \in Workers => p \notin Cancellers
    BY ThreadsAssumption
  <1>2. CASE Check(p)
    <2>1. AfterRefusal(p) \in {"handler", "out"} /\ (target[p] = "CANCELLED" => AfterRefusal(p) = "out")
      BY DEF AfterRefusal
    <2> QED BY <1>1, <1>2, <2>1 DEF Check
  <1>3. CASE Write(p) \/ Return(p)
    BY <1>1, <1>3 DEF Write, Return
  <1>4. CASE Enter(p) \/ Run(p) \/ Handle(p) \/ HandleRetry(p) \/ HandleCancel(p)
    BY <1>1, <1>4 DEF Enter, Run, Handle, HandleRetry, HandleCancel
  <1>5. CASE Cancel(p) \/ CancelFound(p) \/ RequestCancel(p)
    BY <1>1, <1>5 DEF Cancel, CancelFound, RequestCancel
  <1> QED BY <1>2, <1>3, <1>4, <1>5

\* Only Write changes the status, and whoever makes it RUNNING is a worker that
\* goes on to run; and no refusal sends a worker away from a RUNNING task.
LEMMA RunningNotAbandonedStep ==
    ASSUME RaceInv, NEW p \in Threads,
           \/ Check(p) \/ Write(p) \/ Return(p)
           \/ Enter(p) \/ Run(p) \/ Handle(p) \/ HandleRetry(p) \/ HandleCancel(p)
           \/ Cancel(p) \/ CancelFound(p) \/ RequestCancel(p)
    PROVE  RunningNotAbandoned'
  <1> USE DEF WillEnd
  <1>0. /\ pc \in [Threads -> {"idle", "entering", "found", "request", "out"} \cup WillEnd]
        /\ Workers \subseteq Threads /\ p \in Workers \cup Cancellers
        /\ \A w \in Workers \ {p} : pc'[w] = pc[w]
    BY RaceTypesStep DEF RaceInv, RaceTypes, Threads
  <1>1. CASE Write(p)
    <2>1. target[p] = "RUNNING" => p \in Workers /\ pc'[p] = "running"
      BY <1>0, <1>1 DEF Write, Goto, RaceInv, Targets
    <2> QED BY <1>1, <2>1 DEF Write, RunningNotAbandoned
  <1>2. ASSUME ~Write(p) PROVE UNCHANGED status
    BY <1>2 DEF Check, Return, Enter, Run, Handle, HandleRetry, HandleCancel, Cancel,
                CancelFound, RequestCancel
  <1>3. ASSUME ~Write(p), status = "RUNNING", p \in Workers, pc[p] \in WillEnd
        PROVE  pc'[p] \in WillEnd
    <2>1. CASE Check(p)
      <3>1. target[p] \notin Transitions["RUNNING"] => target[p] = "RUNNING"
        BY <1>3, <2>1 DEF Check, RaceInv, Targets, Transitions
      <3> QED BY <1>0, <1>3, <2>1, <3>1 DEF Check, Goto, AfterRefusal
    <2>2. CASE Run(p) \/ Handle(p) \/ HandleRetry(p) \/ HandleCancel(p)
      BY <1>0, <1>3, <2>2 DEF Run, Handle, HandleRetry, HandleCancel, Goto, CallTransition
    <2> QED BY <1>3, <2>1, <2>2 DEF Return, Enter, Cancel, CancelFound, RequestCancel
  <1> QED BY <1>0, <1>1, <1>2, <1>3 DEF RaceInv, RunningNotAbandoned

\* A task is never left RUNNING by its last worker, with any number of workers and
\* cancellers between whose checks and writes the others may change the status.
THEOREM RaceCorrect == Spec => []RunningNotAbandoned
  <1>1. Init => RaceInv
    BY DEF Init, RaceInv, RaceTypes, Targets, RunningNotAbandoned, Threads, WillEnd
  <1>2. RaceInv /\ [Next]_vars => RaceInv'
    <2> SUFFICES ASSUME RaceInv, [Next]_vars PROVE RaceInv'
      OBVIOUS
    <2>1. CASE UNCHANGED vars
      BY <2>1 DEF vars, RaceInv, RaceTypes, Targets, RunningNotAbandoned
    <2>2. CASE Next
      <3>1. PICK p \in Threads :
                \/ Check(p) \/ Write(p) \/ Return(p)
                \/ Enter(p) \/ Run(p) \/ Handle(p) \/ HandleRetry(p) \/ HandleCancel(p)
                \/ Cancel(p) \/ CancelFound(p) \/ RequestCancel(p)
        BY <2>2 DEF Next
      <3>2. RaceTypes' /\ Targets'
        BY <3>1, RaceTypesStep DEF RaceInv
      <3> QED BY <3>1, <3>2, RunningNotAbandonedStep DEF RaceInv
    <2> QED BY <2>1, <2>2
  <1>3. RaceInv => RunningNotAbandoned
    BY DEF RaceInv
  <1> QED BY <1>1, <1>2, <1>3, PTL DEF Spec

=============================================================================
