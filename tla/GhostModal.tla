----------------------------- MODULE GhostModal -----------------------------
(***************************************************************************)
(* The modal router (agents/cerribro/ghost_modal.py): an evaluation of a   *)
(* text sets the mode, and the mode selects the toolbox from which execute *)
(* takes a tool.  A tool may itself evaluate a text, as threat_scan does,  *)
(* execute or register a tool, or raise.                                   *)
(***************************************************************************)
EXTENDS Integers, Sequences

CONSTANTS
    Tools,       \* the names of tools
    BuiltIn,     \* mode -> the tools of its toolbox at the beginning
    MaxLog,      \* bound: the entries of the audit log
    MaxDepth     \* bound: the tools that execute inside of each other

GhostModes == {"normal", "security"}

ASSUME GhostAssumption ==
    BuiltIn \in [GhostModes -> SUBSET Tools] /\ MaxLog \in Nat /\ MaxDepth \in Nat

VARIABLES
    mode,        \* state.mode
    toolbox,     \* mode -> the names in normal_tools and security_tools
    executing,   \* the calls of execute, the innermost last: the tool and, as
                 \* history, the mode at the time of the call
    audit        \* _audit_log

ghostVars == <<mode, toolbox, executing, audit>>

GhostInit ==
    /\ mode = "normal"
    /\ toolbox = BuiltIn
    /\ executing = <<>>
    /\ audit = <<>>

Logged(event, m) ==
    /\ Len(audit) < MaxLog
    /\ audit' = Append(audit, [event |-> event, mode |-> m])

\* The rules find a score of the threshold or more in the text, or do not.
evaluate(m) ==
    /\ mode' = m
    /\ Logged("evaluation", m)
    /\ UNCHANGED <<toolbox, executing>>

\* _active_tools; a name that is not there raises, and nothing changes.
execute(tool) ==
    /\ Len(executing) < MaxDepth
    /\ tool \in toolbox[mode]
    /\ executing' = Append(executing, [tool |-> tool, called |-> mode])
    /\ UNCHANGED <<mode, toolbox, audit>>

Innermost == executing[Len(executing)]
Returned == SubSeq(executing, 1, Len(executing) - 1)

\* Faulty variant of AuditedMode: the mode in which the tool was called.
ModeOfCall == Innermost.called

AuditedMode == mode

ToolReturns ==
    /\ executing # <<>>
    /\ Logged("tool_execution", AuditedMode)
    /\ executing' = Returned
    /\ UNCHANGED <<mode, toolbox>>

\* The exception passes through execute, which leaves no entry.
ToolRaises ==
    /\ executing # <<>>
    /\ executing' = Returned
    /\ UNCHANGED <<mode, toolbox, audit>>

register_tool(m, tool) ==
    /\ toolbox' = [toolbox EXCEPT ![m] = @ \cup {tool}]
    /\ UNCHANGED <<mode, executing, audit>>

GhostNext ==
    \/ \E m \in GhostModes : evaluate(m)
    \/ \E tool \in Tools : execute(tool)
    \/ ToolReturns
    \/ ToolRaises
    \/ \E m \in GhostModes, tool \in Tools : register_tool(m, tool)

GhostSpec == GhostInit /\ [][GhostNext]_ghostVars

-----------------------------------------------------------------------------

\* The mode after the first i entries of the log.
ModeAfter(i) == IF i = 0 THEN "normal" ELSE audit[i].mode

\* "Keeps an audit trail of mode evaluations and escalations" (ghost_modal.md):
\* the trail explains every mode.  Only an evaluation changes it: every other
\* entry shows the mode of the one before it, and the mode at work is that of
\* the last, though evaluations, calls and exceptions are nested in each other.
TrailExplainsModes ==
    /\ mode = ModeAfter(Len(audit))
    /\ \A i \in DOMAIN audit :
            audit[i].event = "evaluation" \/ audit[i].mode = ModeAfter(i - 1)

=============================================================================
