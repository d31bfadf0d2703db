---------------------------- MODULE AgentMemory ----------------------------
(***************************************************************************)
(* The episodic memory of an agent (AgentMemory in src/agents/models.py):  *)
(* a dictionary of at most max_episodes entries.  BaseAgent.assign_task    *)
(* stores the task it accepts in it, behind the lock of the agent.         *)
(***************************************************************************)
EXTENDS Integers, FiniteSets

CONSTANTS
    EpisodeKeys,   \* the keys, one for each task
    Limits,        \* values of max_episodes
    MaxNow         \* bound: the clock stops there

ASSUME LimitsAssumption == Limits \subseteq Nat /\ MaxNow \in Nat

VARIABLES
    maxEpisodes,   \* max_episodes
    now,           \* the clock of the last call
    episodes,      \* episodic_memory: key -> the timestamp of its entry
    storedAt       \* history: when a key was stored last, -1 if never

memoryVars == <<maxEpisodes, now, episodes, storedAt>>

Remembered == DOMAIN episodes

MemoryInit ==
    /\ maxEpisodes \in Limits
    /\ now = 0
    /\ episodes = [k \in {} |-> 0]
    /\ storedAt = [k \in EpisodeKeys |-> -1]

Full == Cardinality(Remembered) >= maxEpisodes

\* The key that is removed to make room: that of an oldest entry.  Which one of
\* several of the same age is up to the order of the dictionary.
Oldest(k) == \A j \in Remembered : episodes[k] <= episodes[j]

\* The entries of the keys in K, and one for k that is made now.
Entered(K, k, t) == [j \in K \cup {k} |-> IF j = k THEN t ELSE episodes[j]]

store_episode(k, t) ==
    /\ now <= t
    /\ now' = t
    /\ storedAt' = [storedAt EXCEPT ![k] = t]
    /\ \/ /\ k \in Remembered \/ ~Full
          /\ episodes' = Entered(Remembered, k, t)
       \/ /\ k \notin Remembered
          /\ Full
          /\ \E old \in Remembered :
                /\ Oldest(old)
                /\ episodes' = Entered(Remembered \ {old}, k, t)
    /\ UNCHANGED maxEpisodes

\* With a limit of zero there is no oldest entry, and min() raises.
StoreRaises(t) ==
    /\ now <= t
    /\ now' = t
    /\ Full /\ Remembered = {}
    /\ UNCHANGED <<maxEpisodes, episodes, storedAt>>

\* Faulty variant of Accessed: what is retrieved is young again.
AccessedAndRenewed(k, t) == [episodes EXCEPT ![k] = t]

\* Only the last_accessed of the entry changes, which nothing depends on.
Accessed(k, t) == episodes

retrieve(k, t) ==
    /\ now <= t
    /\ now' = t
    /\ episodes' = IF k \in Remembered THEN Accessed(k, t) ELSE episodes
    /\ UNCHANGED <<maxEpisodes, storedAt>>

MemoryNext ==
    \E t \in {now, now + 1} :
        /\ t <= MaxNow
        /\ \/ \E k \in EpisodeKeys : store_episode(k, t) \/ retrieve(k, t)
           \/ StoreRaises(t)

MemorySpec == MemoryInit /\ [][MemoryNext]_memoryVars

-----------------------------------------------------------------------------

\* "Remove oldest entry by explicit timestamp" (store_episode): the memory never
\* holds more than it may, forgets nothing before that, and what it has forgotten
\* was stored before, or at the same time as, everything it remembers, whatever
\* was updated, retrieved or stored at one and the same time in between.
ForgetsTheOldest ==
    /\ Cardinality(Remembered) <= maxEpisodes
    /\ \A f \in EpisodeKeys \ Remembered :
            storedAt[f] >= 0 => /\ Full
                                /\ \A k \in Remembered : storedAt[f] <= storedAt[k]

=============================================================================
