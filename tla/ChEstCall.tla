------------------------------ MODULE ChEstCall ------------------------------
(***************************************************************************)
(* What one call of the multiport channel estimator MEX promises, seen     *)
(* from MATLAB: once its arguments are accepted it emits one channel       *)
(* estimate per entry of PortIndices, in the order of PortIndices, and     *)
(* then returns them together with one metrics record per port; or it      *)
(* aborts, at any point, leaving the outputs it has not written unset.     *)
(* An estimate is identified by the port index it was computed for.        *)
(***************************************************************************)
EXTENDS Naturals, Sequences

CONSTANT PortIndexVals  \* values a PortIndices entry may take

VARIABLES
  phase,  \* "idle", "running", "done" or "aborted"
  ports,  \* the accepted PortIndices
  out,    \* the estimates emitted so far
  info    \* the per-port metrics records returned

vars == <<phase, ports, out, info>>

Init ==
  /\ phase = "idle"
  /\ ports = <<>>
  /\ out = <<>>
  /\ info = <<>>

(* The arguments are accepted with some list of port indices.           *)
Accept ==
  /\ phase = "idle"
  /\ phase' = "running"
  /\ ports' \in Seq(PortIndexVals)
  /\ UNCHANGED <<out, info>>

(* The estimate of the next port in PortIndices order is emitted.         *)
Emit ==
  /\ phase = "running"
  /\ Len(out) < Len(ports)
  /\ out' = Append(out, ports[Len(out) + 1])
  /\ UNCHANGED <<phase, ports, info>>

(* Every port has its estimate: the call returns both outputs.            *)
Finish ==
  /\ phase = "running"
  /\ Len(out) = Len(ports)
  /\ phase' = "done"
  /\ info' = out
  /\ UNCHANGED <<ports, out>>

(* The call fails before it returns.                                      *)
Abort ==
  /\ phase \in {"idle", "running"}
  /\ phase' = "aborted"
  /\ UNCHANGED <<ports, out, info>>

Next ==
  \/ Accept
  \/ Emit
  \/ Finish
  \/ Abort

Spec == Init /\ [][Next]_vars

=============================================================================
