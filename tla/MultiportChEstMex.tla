------------------------- MODULE MultiportChEstMex -------------------------
(***************************************************************************)
(* MexFunction::method_step of multiport_channel_estimator_mex.cpp: one    *)
(* call of the multiport channel estimator MEX, from the argument checks   *)
(* to the assignment of its two outputs.                                   *)
(*                                                                         *)
(* The handler is sequential; its loops are modelled one iteration per     *)
(* step so that the loop state (the span cursor over the MATLAB grid, the  *)
(* remaining element count, the shared channel_estimate object) is        *)
(* visible between iterations.  Complex samples are abstracted to the      *)
(* position they come from: a grid cell holds the offset, in the flattened *)
(* MATLAB array, of the slice written into it, and a channel estimate is   *)
(* the index of the grid port it was estimated from.                      *)
(***************************************************************************)
EXTENDS Naturals, Sequences, FiniteSets

CONSTANTS
  MaxSubc,      \* largest number of subcarriers of the input grid
  MaxSym,       \* largest number of OFDM symbols of the input grid
  MaxPorts,     \* largest number of receive ports of the input grid
  PortIndexVals,\* values a PortIndices entry may take after the cast
  SymbolsLen,   \* length of the DM-RS "Symbols" mask
  NofPrb,       \* length of the "RBMask" mask
  MaxRE,        \* largest number of set bits of "REPattern"
  MaxPilots,    \* largest number of reference symbols passed in refSym
  NoSlice,      \* a grid cell nothing was written to
  NoEst         \* a channel_estimate slot compute() has not filled

ASSUME ConstAssumption ==
  /\ MaxSubc \in Nat \ {0}
  /\ MaxSym \in Nat \ {0}
  /\ MaxPorts \in Nat \ {0}
  /\ PortIndexVals \subseteq Nat
  /\ SymbolsLen \in Nat
  /\ NofPrb \in Nat
  /\ MaxRE \in Nat
  /\ MaxPilots \in Nat
  /\ NoSlice \notin Nat
  /\ NoEst \notin Nat

VARIABLES
  pc,         \* where method_step is
  nsc,        \* nof_subcarriers = grid_dims[0]
  nsym,       \* nof_symbols = grid_dims[1]
  nRx,        \* nof_rx_ports
  rxPorts,    \* cfg.rx_ports, as a sequence (entry k is rx_ports[k-1])
  dmrs,       \* dmrs_pattern, abstracted to what the pilot check reads
  remaining,  \* remaining_res
  view,       \* grid_view: the span [off, off + len) of the MATLAB grid
  iPort,      \* i_port of the loop being run
  iSym,       \* i_symbol of the grid fill loop
  grid,       \* the srsRAN resource grid: (port, symbol) -> slice offset
  pilotWidth, \* pilot_dims.nof_subc: reference symbols per DM-RS symbol
  est,        \* ch_estimate: rx-port slot -> grid port it was estimated on
  out,        \* ch_est_out: the per-port slices copied so far, in order
  info,       \* info_out: per-port metrics records (outputs[1])
  total       \* info_out[nof_rx_ports]: the averaged metrics record

vars == <<pc, nsc, nsym, nRx, rxPorts, dmrs, remaining, view, iPort, iSym,
          grid, pilotWidth, est, out, info, total>>

Ports == 0..MaxPorts-1
Cells == Ports \X (0..MaxSym-1)

(* Shapes of inputs[1]: 2-D (one port) or 3-D.  MATLAB drops a trailing   *)
(* singleton dimension, so a 3-D grid has 0 or at least 2 ports.          *)
GridShapes ==
  {<<c, s>> : c \in 1..MaxSubc, s \in 1..MaxSym}
  \cup {<<c, s, p>> : c \in 1..MaxSubc, s \in 1..MaxSym,
                      p \in {0} \cup 2..MaxPorts}

PortIndexSeqs == UNION {[1..n -> PortIndexVals] : n \in 0..MaxPorts}

(* The DM-RS pattern of the single layer: the symbol mask, the number of  *)
(* PRBs set in RBMask and the number of REs set in REPattern.  The        *)
(* hopping fields (HoppingIndex, RBMask2) are copied into the pattern but *)
(* no line of method_step reads them back, so they are left out.          *)
DmrsPatterns ==
  [symbols : SUBSET (0..SymbolsLen-1), rbCount : 0..NofPrb, reCount : 0..MaxRE]

-----------------------------------------------------------------------------
Init ==
  /\ pc = "check"
  /\ nsc = 0 /\ nsym = 0 /\ nRx = 0
  /\ rxPorts = <<>>
  /\ dmrs = [symbols |-> {}, rbCount |-> 0, reCount |-> 0]
  /\ remaining = 0
  /\ view = [off |-> 0, len |-> 0]
  /\ iPort = 0 /\ iSym = 0
  /\ grid = [c \in Cells |-> NoSlice]
  /\ pilotWidth = 0
  /\ est = [p \in Ports |-> NoEst]
  /\ out = <<>>
  /\ info = <<>>
  /\ total = "unset"

(* check_step_outputs_inputs: any malformed argument aborts the call.     *)
CheckArgs ==
  /\ pc = "check"
  /\ \E wellFormed \in BOOLEAN :
       pc' = IF wellFormed THEN "config" ELSE "aborted"
  /\ UNCHANGED <<nsc, nsym, nRx, rxPorts, dmrs, remaining, view, iPort, iSym,
                 grid, pilotWidth, est, out, info, total>>

(* Reads the configuration, the grid shape and PortIndices; aborts when   *)
(* create_resource_grid returns no grid, or when the number of port       *)
(* indices differs from the number of grid ports.                         *)
Configure ==
  /\ pc = "config"
  /\ \E shape \in GridShapes, idx \in PortIndexSeqs, pat \in DmrsPatterns,
        created \in BOOLEAN :
       LET ports == IF Len(shape) = 3 THEN shape[3] ELSE 1
       IN /\ nsc' = shape[1]
          /\ nsym' = shape[2]
          /\ nRx' = ports
          /\ dmrs' = pat
          /\ IF ~created \/ Len(idx) # ports
               THEN /\ pc' = "aborted"
                    /\ UNCHANGED <<rxPorts, remaining, view>>
               ELSE /\ pc' = "fill"
                    /\ rxPorts' = idx
                    /\ remaining' = shape[1] * shape[2] * ports
                    /\ view' = [off |-> 0, len |-> remaining']
  /\ UNCHANGED <<iPort, iSym, grid, pilotWidth, est, out, info, total>>

(* Mutant: grid_view is cut with remaining_res before it is decremented. *)
FillSymbolStaleRemaining ==
  /\ pc = "fill"
  /\ iPort < nRx
  /\ grid' = [grid EXCEPT ![<<iPort, iSym>>] = view.off]
  /\ remaining' = remaining - nsc
  /\ view' = [off |-> view.off + view.len - remaining, len |-> remaining]
  /\ IF iSym + 1 = nsym
       THEN iPort' = iPort + 1 /\ iSym' = 0
       ELSE iPort' = iPort /\ iSym' = iSym + 1
  /\ UNCHANGED <<pc, nsc, nsym, nRx, rxPorts, dmrs, pilotWidth, est, out, info, total>>

(* Mutant: the inner loop forgets ++i_symbol.                            *)
FillSymbolNoIncrement ==
  /\ pc = "fill"
  /\ iPort < nRx
  /\ grid' = [grid EXCEPT ![<<iPort, iSym>>] = view.off]
  /\ remaining' = remaining - nsc
  /\ view' = [off |-> view.off + view.len - remaining', len |-> remaining']
  /\ iPort' = iPort /\ iSym' = iSym
  /\ UNCHANGED <<pc, nsc, nsym, nRx, rxPorts, dmrs, pilotWidth, est, out, info, total>>

(* One iteration of the grid fill loop: the first nof_subcarriers samples *)
(* of grid_view go to (i_port, i_symbol), remaining_res drops by          *)
(* nof_subcarriers and grid_view keeps its last remaining_res samples.    *)
FillSymbol ==
  /\ pc = "fill"
  /\ iPort < nRx
  /\ grid' = [grid EXCEPT ![<<iPort, iSym>>] = view.off]
  /\ remaining' = remaining - nsc
  /\ view' = [off |-> view.off + view.len - remaining', len |-> remaining']
  /\ IF iSym + 1 = nsym
       THEN iPort' = iPort + 1 /\ iSym' = 0
       ELSE iPort' = iPort /\ iSym' = iSym + 1
  /\ UNCHANGED <<pc, nsc, nsym, nRx, rxPorts, dmrs, pilotWidth, est, out, info, total>>

(* Mutant: the pilot list is one reference symbol per DM-RS symbol short. *)
CheckPilotsWidthOffByOne ==
  /\ pc = "fill"
  /\ iPort = nRx
  /\ \E nPilots \in 0..MaxPilots :
       LET nofPilotRes == dmrs.rbCount * dmrs.reCount
       IN IF nPilots # nofPilotRes * Cardinality(dmrs.symbols)
            THEN pc' = "aborted" /\ UNCHANGED <<pilotWidth, iPort>>
            ELSE /\ pc' = "compute"
                 /\ pilotWidth' = nofPilotRes - 1
                 /\ iPort' = 0
  /\ UNCHANGED <<nsc, nsym, nRx, rxPorts, dmrs, remaining, view, iSym, grid,
                 est, out, info, total>>

(* The refSym check: the number of reference symbols must be the PRBs of  *)
(* RBMask times the REs of REPattern times the DM-RS symbols; then every  *)
(* port slice of the pilot list gets the same refSym column.              *)
CheckPilots ==
  /\ pc = "fill"
  /\ iPort = nRx
  /\ \E nPilots \in 0..MaxPilots :
       LET nofPilotRes == dmrs.rbCount * dmrs.reCount
       IN IF nPilots # nofPilotRes * Cardinality(dmrs.symbols)
            THEN pc' = "aborted" /\ UNCHANGED <<pilotWidth, iPort>>
            ELSE /\ pc' = "compute"
                 /\ pilotWidth' = nofPilotRes
                 /\ iPort' = 0
  /\ UNCHANGED <<nsc, nsym, nRx, rxPorts, dmrs, remaining, view, iSym, grid,
                 est, out, info, total>>

(* Mutant: the slot is copied out before compute() refreshes it.        *)
ComputePortCopyFirst ==
  /\ pc = "compute"
  /\ iPort < nRx
  /\ est' = [est EXCEPT ![iPort] = rxPorts[iPort + 1]]
  /\ out' = Append(out, est[iPort])
  /\ iPort' = iPort + 1
  /\ UNCHANGED <<pc, nsc, nsym, nRx, rxPorts, dmrs, remaining, view, iSym,
                 grid, pilotWidth, info, total>>

(* One iteration of the estimation loop: compute() fills the slot of      *)
(* i_port from grid port rx_ports[i_port], then that slot is copied to    *)
(* the output iterator.                                                   *)
ComputePort ==
  /\ pc = "compute"
  /\ iPort < nRx
  /\ est' = [est EXCEPT ![iPort] = rxPorts[iPort + 1]]
  /\ out' = Append(out, est'[iPort])
  /\ iPort' = iPort + 1
  /\ UNCHANGED <<pc, nsc, nsym, nRx, rxPorts, dmrs, remaining, view, iSym,
                 grid, pilotWidth, info, total>>

(* The metrics loop and the output assignment: record i_port of info_out  *)
(* reads the metrics of slot i_port; the last record is their sum over    *)
(* the ports divided by nof_rx_ports, which for no port is 0.0f / 0.0f.   *)
WriteOutputs ==
  /\ pc = "compute"
  /\ iPort = nRx
  /\ info' = [k \in 1..nRx |-> est[k - 1]]
  /\ total' = IF nRx = 0 THEN "NaN" ELSE "mean"
  /\ pc' = "done"
  /\ UNCHANGED <<nsc, nsym, nRx, rxPorts, dmrs, remaining, view, iPort, iSym,
                 grid, pilotWidth, est, out>>

(* The call has returned, normally or through mex_abort.                  *)
Returned ==
  /\ pc \in {"done", "aborted"}
  /\ UNCHANGED vars

Next ==
  \/ CheckArgs
  \/ Configure
  \/ FillSymbol
  \/ CheckPilots
  \/ ComputePort
  \/ WriteOutputs
  \/ Returned

Spec == Init /\ [][Next]_vars

-----------------------------------------------------------------------------
TypeOK ==
  /\ pc \in {"check", "config", "fill", "compute", "done", "aborted"}
  /\ nsc \in 0..MaxSubc /\ nsym \in 0..MaxSym /\ nRx \in 0..MaxPorts
  /\ rxPorts \in PortIndexSeqs
  /\ dmrs \in DmrsPatterns
  /\ remaining \in Nat
  /\ view \in [off : Nat, len : Nat]
  /\ iPort \in 0..MaxPorts /\ iSym \in 0..MaxSym
  /\ grid \in [Cells -> Nat \cup {NoSlice}]
  /\ pilotWidth \in Nat
  /\ est \in [Ports -> PortIndexVals \cup {NoEst}]
  /\ out \in Seq(PortIndexVals \cup {NoEst})
  /\ info \in Seq(PortIndexVals \cup {NoEst})
  /\ total \in {"unset", "mean", "NaN"}

(* Position of sample (0, s) of port p in the MATLAB grid array, which is *)
(* stored column-major: subcarrier first, then symbol, then port.         *)
MatlabOffset(p, s) == (p * nsym + s) * nsc

(* The grid fill loop copies into every (port, symbol) of the srsRAN grid *)
(* the column of the MATLAB array that MATLAB stores there, never reads   *)
(* past the end of grid_view, and has filled every (port, symbol) when    *)
(* the pilots are checked (remaining_res never wraps around).             *)
GridFillColumnMajor ==
  /\ \A c \in Cells : grid[c] \in {NoSlice, MatlabOffset(c[1], c[2])}
  /\ pc = "fill" /\ iPort < nRx => nsc <= view.len
  /\ pc \in {"compute", "done"} =>
       \A p \in 0..nRx-1, s \in 0..nsym-1 : grid[<<p, s>>] = MatlabOffset(p, s)

(* The k-th slice of ch_est_out and the k-th record of info_out are the   *)
(* estimate of grid port PortIndices(k): the shared channel_estimate is   *)
(* copied only after compute() has refreshed the slot being copied.       *)
OutputFollowsPortIndices ==
  /\ pc = "compute" => out = SubSeq(rxPorts, 1, iPort)
  /\ pc = "done" => out = rxPorts /\ info = rxPorts

(* A returned call reports averaged metrics that are numbers: the last    *)
(* record of info_out is never a division by zero ports.                  *)
AggregateMetricsDefined ==
  pc = "done" => total # "NaN"

(* An upper bound on the steps method_step still has to take: the grid    *)
(* columns left to copy, the pilot check, one compute per port and the    *)
(* output assignment.  Before the grid shape is read it is bounded by the *)
(* largest grid.                                                          *)
StepsLeft ==
  CASE pc = "check"   -> MaxPorts * MaxSym + MaxPorts + 4
    [] pc = "config"  -> MaxPorts * MaxSym + MaxPorts + 3
    [] pc = "fill"    -> nRx * nsym - (iPort * nsym + iSym) + nRx + 2
    [] pc = "compute" -> nRx - iPort + 1
    [] pc \in {"done", "aborted"} -> 0

(* Every step of method_step brings the call closer to its return: the    *)
(* bound on the steps left is a natural number and each step lowers it,   *)
(* so each loop advances its counter and the call ends after at most      *)
(* MaxPorts * MaxSym + MaxPorts + 4 steps.                                *)
ProgressTowardReturn ==
  [][(StepsLeft \in Nat) /\ StepsLeft' < StepsLeft]_vars

-----------------------------------------------------------------------------
(* The call seen from MATLAB: before the configuration is read it is idle *)
(* and has no port list; the fill, pilot and compute phases run it.       *)
AbsPhase ==
  CASE pc \in {"check", "config"} -> "idle"
    [] pc \in {"fill", "compute"} -> "running"
    [] pc = "done" -> "done"
    [] pc = "aborted" -> "aborted"

Abs == INSTANCE ChEstCall
         WITH phase <- AbsPhase,
              ports <- IF pc \in {"check", "config"} THEN <<>> ELSE rxPorts

(* method_step implements the call's contract: whatever the grid shape,   *)
(* pattern and pilots, the output is emitted port after port in           *)
(* PortIndices order, and both outputs are assigned only once every port  *)
(* has its estimate, or the call aborts.                                  *)
ChEstCallSpec == Abs!Spec

=============================================================================
