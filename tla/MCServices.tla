---------------------------- MODULE MCServices ----------------------------
(***************************************************************************)
(* Models that have no state in common, side by side: a behaviour is one   *)
(* of one of them, while the others rest in one of their initial states.   *)
(* The states add up and do not multiply.                                  *)
(***************************************************************************)
EXTENDS StatusRace, SqlStore, TaskRecords, EventStore, AgentMemory,
        AgentRegistry, GhostModal, ShimStartup, Preprocessing

VARIABLE part   \* the component that this behaviour is of

Parts == {"status", "sql", "records", "events", "memory",
          "registry", "ghost", "shim", "batches"}

BuiltInTools ==
    [m \in GhostModes |-> IF m = "normal" THEN {"plan"} ELSE {"threat_scan"}]

ServicesInit ==
    /\ part \in Parts
    /\ Init
    /\ SqlInit
    /\ RecordsInit
    /\ part # "records" =>
            /\ database = "sql"
            /\ spared.priority = "NORMAL" /\ spared.assigned_to = None
            /\ spared.max_retries = Max(RetryLimits)
    /\ EventInit
    /\ part # "events" => backend = "memory"
    /\ MemoryInit
    /\ part # "memory" => maxEpisodes = Max(Limits)
    /\ RegistryInit
    /\ GhostInit
    /\ ShimInit
    /\ part # "shim" => package.import = "__package__"
    /\ BatchInit
    /\ part # "batches" => num_samples = 0 /\ batch_size = 1 /\ ~shuffle

ServicesNext ==
    \/ /\ part = "status" /\ Next
       /\ UNCHANGED <<part, sqlVars, recordVars, eventVars, memoryVars, registryVars,
                      ghostVars, shimVars, batchVars>>
    \/ /\ part = "sql" /\ SqlNext
       /\ UNCHANGED <<part, vars, recordVars, eventVars, memoryVars, registryVars,
                      ghostVars, shimVars, batchVars>>
    \/ /\ part = "records" /\ RecordsNext
       /\ UNCHANGED <<part, vars, sqlVars, eventVars, memoryVars, registryVars,
                      ghostVars, shimVars, batchVars>>
    \/ /\ part = "events" /\ EventNext
       /\ UNCHANGED <<part, vars, sqlVars, recordVars, memoryVars, registryVars,
                      ghostVars, shimVars, batchVars>>
    \/ /\ part = "memory" /\ MemoryNext
       /\ UNCHANGED <<part, vars, sqlVars, recordVars, eventVars, registryVars,
                      ghostVars, shimVars, batchVars>>
    \/ /\ part = "registry" /\ RegistryNext
       /\ UNCHANGED <<part, vars, sqlVars, recordVars, eventVars, memoryVars,
                      ghostVars, shimVars, batchVars>>
    \/ /\ part = "ghost" /\ GhostNext
       /\ UNCHANGED <<part, vars, sqlVars, recordVars, eventVars, memoryVars,
                      registryVars, shimVars, batchVars>>
    \/ /\ part = "shim" /\ ShimNext
       /\ UNCHANGED <<part, vars, sqlVars, recordVars, eventVars, memoryVars,
                      registryVars, ghostVars, batchVars>>
    \/ /\ part = "batches" /\ BatchNext
       /\ UNCHANGED <<part, vars, sqlVars, recordVars, eventVars, memoryVars,
                      registryVars, ghostVars, shimVars>>

ServicesSpec ==
    ServicesInit /\ [][ServicesNext]_<<part, vars, sqlVars, recordVars, eventVars, memoryVars,
                                      registryVars, ghostVars, shimVars, batchVars>>

=============================================================================
