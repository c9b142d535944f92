---------------------------- MODULE MCMonitoring ----------------------------
(* Two ports of different adapters, and one COM name, so that Windows uses  *)
(* it again.  The instance with converter and root hub is MCWindow's.       *)
EXTENDS Monitoring

CONSTANTS port, other, ftdi1, ftdi2, com

PortsDef == {port, other}
GroupDef == [id \in PortsDef |-> IF id = port THEN ftdi1 ELSE ftdi2]
NoParentsDef == [id \in PortsDef |-> {}]
ComNamesDef == {com}
=============================================================================
