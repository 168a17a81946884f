--------------------------- MODULE Compatibility ---------------------------
(***************************************************************************)
(* Which optional behaviour one report admits (protocol/compatibility.go   *)
(* and the capability names of protocol/envelope.go).  A capability is the *)
(* pair of its domain and its name, so that TaskCapability is one-to-one   *)
(* as the prefix "task." is.                                               *)
(***************************************************************************)
EXTENDS Integers

CONSTANTS UpgradeKind,     \* TaskKindAgentUpgradeV1
          DiagnosticsKind  \* TaskKindDiagnosticsCollectV1

TaskKinds == {UpgradeKind, DiagnosticsKind}

TaskCapability(kind) == <<"task", kind>>

TaskExecution == TaskCapability("execution.v1")
TaskExpiry    == TaskCapability("expiry.v1")

ProtocolVersion1 == 1

(* The first peers of generation 1 did not send a number. *)
EffectiveProtocolVersion(reported) ==
  IF reported = 0 THEN ProtocolVersion1 ELSE reported

AgentUpgradeCapabilities == {TaskExecution, TaskExpiry, TaskCapability(UpgradeKind)}

(* Mutant: the kind's own capability is not asked for. *)
AssessWithoutKind(reported, capabilities, supported) ==
  [ protocolSupported   |-> EffectiveProtocolVersion(reported)
                              \in supported.min..supported.max,
    taskExecution       |-> TaskExecution \in capabilities,
    taskExpiry          |-> TaskExpiry \in capabilities,
    missingAgentUpgrade |-> {TaskExecution, TaskExpiry} \ capabilities ]

AssessCompatibilityIn(reported, capabilities, supported) ==
  [ protocolSupported   |-> EffectiveProtocolVersion(reported)
                              \in supported.min..supported.max,
    taskExecution       |-> TaskExecution \in capabilities,
    taskExpiry          |-> TaskExpiry \in capabilities,
    missingAgentUpgrade |-> AgentUpgradeCapabilities \ capabilities ]

AgentUpgrade(assessed) ==
  assessed.protocolSupported /\ assessed.missingAgentUpgrade = {}

(* PSP's admission of one kind under one report: the kind's capability and *)
(* the two it must be negotiated with.                                     *)
Admitted(kind, report, supported) ==
  LET assessed == AssessCompatibilityIn(report.version, report.capabilities, supported)
  IN IF kind = UpgradeKind THEN AgentUpgrade(assessed)
     ELSE /\ assessed.protocolSupported
          /\ assessed.taskExecution /\ assessed.taskExpiry
          /\ TaskCapability(kind) \in report.capabilities
=============================================================================
