--------------------------- MODULE AgentRegistry ---------------------------
(***************************************************************************)
(* The agents of an AgentSystem (src/agents/system.py): the dictionary of  *)
(* all, the one of those the orchestrator manages, the counter, and the    *)
(* references of the agents to each other, which remove_agent cleans up.   *)
(* Each operation is one region of the system's lock.                      *)
(***************************************************************************)
EXTENDS Integers, FiniteSets

CONSTANTS
    RegAgents,      \* the agents
    Orchestrator,   \* the one that the system makes for itself
    NoParent,         \* None
    MaxTotal        \* bound: the counter of agents

ASSUME RegistryAssumption == Orchestrator \in RegAgents /\ NoParent \notin RegAgents

VARIABLES
    agents,         \* agents
    managed,        \* orchestrator.managed_agents
    total_agents,   \* system_metrics["total_agents"]
    parent,         \* parent_agent
    peers,          \* peer_agents
    children        \* child_agents

registryVars == <<agents, managed, total_agents, parent, peers, children>>

RegistryInit ==
    /\ agents = {Orchestrator}
    /\ managed = {}
    /\ total_agents = 1
    /\ parent = [a \in RegAgents |-> NoParent]
    /\ peers = [a \in RegAgents |-> {}]
    /\ children = [a \in RegAgents |-> {}]

\* add_agent and register_agent of the orchestrator: an agent that is there
\* already is counted again.
add_agent(a) ==
    /\ total_agents < MaxTotal
    /\ agents' = agents \cup {a}
    /\ managed' = managed \cup {a}
    /\ total_agents' = total_agents + 1
    /\ parent' = [parent EXCEPT ![a] = Orchestrator]
    /\ UNCHANGED <<peers, children>>

\* Faulty variant of PeersWithout: only the sets of those that are left
\* are cleaned.
PeersOfOthersOnly(a) ==
    [b \in RegAgents |-> IF b \in peers[a] \cap agents THEN peers[b] \ {a} ELSE peers[b]]

\* The peers of a forget it if they are registered, and a forgets its peers.
PeersWithout(a) ==
    [b \in RegAgents |-> IF b = a THEN {}
                         ELSE IF b \in peers[a] \cap agents THEN peers[b] \ {a}
                         ELSE peers[b]]

\* So do its children, unless they have another parent by now.
ParentsWithout(a) ==
    [b \in RegAgents |->
        IF b = a \/ (b \in children[a] \cap (agents \ {a}) /\ parent[b] = a) THEN NoParent
        ELSE parent[b]]

\* Faulty variant of Known: the early return is left out.
Anyone(a) == a \in RegAgents

\* "if agent_id not in self.agents: return False".
Known(a) == a \in agents

remove_agent(a) ==
    /\ Known(a)
    /\ agents' = agents \ {a}
    /\ managed' = managed \ {a}
    /\ total_agents' = total_agents - 1
    /\ parent' = ParentsWithout(a)
    /\ peers' = PeersWithout(a)
    /\ children' = [children EXCEPT ![a] = {}]

\* No code makes peers or children; the tests do it, on both sides.
Befriend(a, b) ==
    /\ a # b
    /\ {a, b} \subseteq agents
    /\ peers' = [peers EXCEPT ![a] = @ \cup {b}, ![b] = @ \cup {a}]
    /\ UNCHANGED <<agents, managed, total_agents, parent, children>>

Adopt(a, b) ==
    /\ a # b
    /\ {a, b} \subseteq agents
    /\ children' = [children EXCEPT ![a] = @ \cup {b}]
    /\ parent' = [parent EXCEPT ![b] = a]
    /\ UNCHANGED <<agents, managed, total_agents, peers>>

RegistryNext ==
    \/ \E a \in RegAgents : add_agent(a) \/ remove_agent(a)
    \/ \E a, b \in RegAgents : Befriend(a, b) \/ Adopt(a, b)

RegistrySpec == RegistryInit /\ [][RegistryNext]_registryVars

-----------------------------------------------------------------------------

\* The peers of an agent that is registered are registered, in whatever order
\* agents, the orchestrator among them, were added, adopted, befriended and
\* removed; so is its parent, but for one that remove_agent does not find: the
\* orchestrator, which add_agent makes the parent of an agent and not its own child.
NoDanglingReference ==
    \A a \in agents :
        /\ peers[a] \subseteq agents
        /\ parent[a] \in agents \cup {NoParent, Orchestrator}

\* "clean up all references" (remove_agent), those to a parent among them.  The
\* code does not do it for the orchestrator: no run claims this, README section 6.
AllReferencesClean ==
    \A a \in agents : parent[a] \in agents \cup {NoParent}

\* The orchestrator manages the registered agents and no others, itself only if
\* it was added, and total_agents is at least their number: adding an agent again
\* makes it drift, but only upwards (add_agent, remove_agent).
CountNotBelow ==
    /\ managed \cup {Orchestrator} = agents \cup {Orchestrator}
    /\ managed \subseteq agents
    /\ total_agents >= Cardinality(agents)

=============================================================================
