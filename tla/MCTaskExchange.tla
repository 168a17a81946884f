--------------------------- MODULE MCTaskExchange ---------------------------
(* One id, both kinds, empty arguments, two deadlines; a build              *)
(* that can do both kinds and one that only lacks the upgrade.              *)
EXTENDS TaskExchange

MCBuilds ==
  << [version |-> 0, capabilities |-> AgentUpgradeCapabilities
                                        \cup {TaskCapability(DiagnosticsKind)}],
     [version |-> 1, capabilities |-> {TaskExecution, TaskExpiry,
                                       TaskCapability(DiagnosticsKind)}] >>
MCSupported == [min |-> 1, max |-> 1]
=============================================================================
