---------------------- MODULE MultiportChEstMexProofs ----------------------
(***************************************************************************)
(* Proofs about one call of the multiport channel estimator MEX: the type  *)
(* invariant and GridFillColumnMajor, for every grid shape and every       *)
(* value of the constants.                                                 *)
(*                                                                         *)
(* GridFillColumnMajor is not inductive: it says nothing of where the      *)
(* fill loop stands.  IInv adds the loop invariant of the fill loop: with  *)
(* P = i_port * nof_symbols + i_symbol cells already copied, grid_view     *)
(* starts at P * nof_subcarriers, remaining_res is what is left of the     *)
(* array, and exactly the cells before (i_port, i_symbol) hold their       *)
(* column.                                                                 *)
(***************************************************************************)
EXTENDS MultiportChEstMex, TLAPS

(* Number of (port, symbol) columns the fill loop has copied.             *)
Copied == iPort * nsym + iSym

(* Cell c is copied before (i_port, i_symbol) in the loop order.          *)
CopiedBefore(c) ==
  /\ c[2] < nsym
  /\ \/ c[1] < iPort
     \/ c[1] = iPort /\ c[2] < iSym

(* Cell c belongs to the grid.                                            *)
InGrid(c) == c[1] < nRx /\ c[2] < nsym

FillLoopInv ==
  /\ iPort <= nRx
  /\ iSym < nsym
  /\ iPort = nRx => iSym = 0
  /\ view.off = Copied * nsc
  /\ view.len = remaining
  /\ remaining = (nRx * nsym - Copied) * nsc
  /\ \A c \in Cells :
       grid[c] = IF CopiedBefore(c) THEN MatlabOffset(c[1], c[2]) ELSE NoSlice

IInv ==
  /\ TypeOK
  /\ pc \in {"check", "config"} =>
       /\ iPort = 0 /\ iSym = 0
       /\ \A c \in Cells : grid[c] = NoSlice
  /\ pc \in {"fill", "compute", "done"} =>
       /\ nsc \in 1..MaxSubc
       /\ nsym \in 1..MaxSym
       /\ Len(rxPorts) = nRx
  /\ pc = "fill" => FillLoopInv
  /\ pc \in {"compute", "done"} =>
       /\ iPort <= nRx
       /\ \A c \in Cells :
            grid[c] = IF InGrid(c) THEN MatlabOffset(c[1], c[2]) ELSE NoSlice
  /\ pc = "aborted" =>
       \A c \in Cells : grid[c] \in {NoSlice, MatlabOffset(c[1], c[2])}

USE ConstAssumption

LEMMA PortIndexSeqsType ==
  ASSUME NEW idx \in PortIndexSeqs
  PROVE  idx \in Seq(PortIndexVals) /\ Len(idx) \in 0..MaxPorts
<1>1. PICK n \in 0..MaxPorts : idx \in [1..n -> PortIndexVals]
  BY DEF PortIndexSeqs
<1>2. idx \in Seq(PortIndexVals)
  BY <1>1
<1>3. Len(idx) = n
  BY <1>1, <1>2
<1>. QED  BY <1>1, <1>2, <1>3

LEMMA InitIInv == Init => IInv
<1>. SUFFICES ASSUME Init PROVE IInv
  OBVIOUS
<1>1. rxPorts \in PortIndexSeqs /\ dmrs \in DmrsPatterns
  <2>1. rxPorts \in [1..0 -> PortIndexVals] /\ 0 \in 0..MaxPorts
    BY DEF Init
  <2>2. rxPorts \in PortIndexSeqs
    BY <2>1, Zenon DEF PortIndexSeqs
  <2>3. dmrs \in DmrsPatterns
    BY DEF Init, DmrsPatterns
  <2>. QED  BY <2>2, <2>3
<1>2. grid \in [Cells -> Nat \cup {NoSlice}] /\ est \in [Ports -> PortIndexVals \cup {NoEst}]
  BY DEF Init
<1>3. TypeOK
  BY <1>1, <1>2 DEF Init, TypeOK
<1>. QED  BY <1>3 DEF Init, IInv

LEMMA GridShapeType ==
  ASSUME NEW sh \in GridShapes
  PROVE  /\ sh[1] \in 1..MaxSubc
         /\ sh[2] \in 1..MaxSym
         /\ (IF Len(sh) = 3 THEN sh[3] ELSE 1) \in 0..MaxPorts
<1>1. CASE sh \in {<<c, s>> : c \in 1..MaxSubc, s \in 1..MaxSym}
  <2>1. PICK c \in 1..MaxSubc, s \in 1..MaxSym : sh = <<c, s>>
    BY <1>1
  <2>. QED  BY <2>1
<1>2. CASE sh \in {<<c, s, p>> : c \in 1..MaxSubc, s \in 1..MaxSym,
                                 p \in {0} \cup 2..MaxPorts}
  <2>1. PICK c \in 1..MaxSubc, s \in 1..MaxSym, p \in {0} \cup 2..MaxPorts :
          sh = <<c, s, p>>
    BY <1>2
  <2>. QED  BY <2>1
<1>. QED  BY <1>1, <1>2 DEF GridShapes

(* Where the fill loop stands: the count of copied columns never passes  *)
(* the size of the grid, and it is that size once i_port has reached     *)
(* nof_rx_ports.                                                          *)
LEMMA FillLoopBound ==
  ASSUME IInv, pc = "fill"
  PROVE  /\ Copied \in Nat /\ nRx * nsym \in Nat
         /\ iPort < nRx => Copied + 1 <= nRx * nsym
         /\ iPort = nRx => Copied = nRx * nsym
<1>1. /\ iPort \in 0..MaxPorts /\ iSym \in Nat /\ nRx \in Nat
      /\ nsym \in 1..MaxSym /\ iSym < nsym /\ iPort <= nRx
      /\ iPort = nRx => iSym = 0
  BY DEF IInv, FillLoopInv, TypeOK
<1>2. Copied \in Nat /\ nRx * nsym \in Nat
  BY <1>1 DEF Copied
<1>3. ASSUME iPort < nRx PROVE Copied + 1 <= nRx * nsym
  <2>1. Copied + 1 <= (iPort + 1) * nsym
    BY <1>1 DEF Copied
  <2>2. (iPort + 1) * nsym <= nRx * nsym
    BY <1>1, <1>3
  <2>3. (iPort + 1) * nsym \in Nat
    BY <1>1
  <2>. QED  BY <1>2, <2>1, <2>2, <2>3
<1>4. ASSUME iPort = nRx PROVE Copied = nRx * nsym
  BY <1>1, <1>4 DEF Copied
<1>. QED  BY <1>2, <1>3, <1>4

LEMMA NextIInv == IInv /\ [Next]_vars => IInv'
<1>. SUFFICES ASSUME IInv, [Next]_vars PROVE IInv'
  OBVIOUS
<1>. USE DEF IInv
<1>1. CASE CheckArgs
  BY <1>1 DEF CheckArgs, TypeOK
<1>2. CASE Configure
  <2>1. PICK shape \in GridShapes, idx \in PortIndexSeqs, pat \in DmrsPatterns,
             created \in BOOLEAN :
          LET ports == IF Len(shape) = 3 THEN shape[3] ELSE 1
          IN /\ nsc' = shape[1]
             /\ nsym' = shape[2]
             /\ nRx' = ports
             /\ dmrs' = pat
             /\ IF ~created \/ Len(idx) # ports
                  THEN /\ pc' = "aborted"
                       /\ UNCHANGED <<rxPorts, remaining, view>>
                  ELSE /\ pc' = "fill"
                       /\ rxPorts' = idx
                       /\ remaining' = shape[1] * shape[2] * ports
                       /\ view' = [off |-> 0, len |-> remaining']
    BY <1>2 DEF Configure
  <2>. DEFINE ports == IF Len(shape) = 3 THEN shape[3] ELSE 1
  <2>2. /\ shape[1] \in 1..MaxSubc /\ shape[2] \in 1..MaxSym
        /\ ports \in 0..MaxPorts
    BY GridShapeType
  <2>3. idx \in Seq(PortIndexVals) /\ Len(idx) \in 0..MaxPorts
    BY PortIndexSeqsType
  <2>4. /\ pc = "config"
        /\ UNCHANGED <<iPort, iSym, grid, pilotWidth, est, out, info, total>>
    BY <1>2 DEF Configure
  <2>5. iPort' = 0 /\ iSym' = 0 /\ \A c \in Cells : grid'[c] = NoSlice
    BY <2>4
  <2>6. CASE ~created \/ Len(idx) # ports
    <3>1. pc' = "aborted" /\ UNCHANGED <<rxPorts, remaining, view>>
          /\ nsc' = shape[1] /\ nsym' = shape[2] /\ nRx' = ports
      BY <2>1, <2>6
    <3>2. TypeOK'
      BY <2>1, <2>2, <2>4, <3>1 DEF TypeOK
    <3>. QED  BY <2>5, <3>1, <3>2
  <2>7. CASE created /\ Len(idx) = ports
    <3>1. /\ pc' = "fill" /\ rxPorts' = idx
          /\ remaining' = shape[1] * shape[2] * ports
          /\ view' = [off |-> 0, len |-> remaining'] /\ nRx' = ports
          /\ nsc' = shape[1] /\ nsym' = shape[2]
      BY <2>1, <2>7
    <3>2. TypeOK'
      <4>1. rxPorts' \in PortIndexSeqs
        BY <3>1
      <4>2. remaining' \in Nat /\ view' \in [off : Nat, len : Nat]
        BY <2>2, <3>1
      <4>3. pc' \in {"check", "config", "fill", "compute", "done", "aborted"}
            /\ nsc' \in 0..MaxSubc /\ nsym' \in 0..MaxSym /\ nRx' \in 0..MaxPorts
        BY <2>2, <3>1
      <4>. QED  BY <2>1, <2>4, <4>1, <4>2, <4>3 DEF TypeOK
    <3>3. FillLoopInv'
      <4>1. \A c \in Cells : ~CopiedBefore(c)'
        BY <2>5 DEF Cells, Ports, CopiedBefore
      <4>2. Copied' = 0
        BY <2>2, <2>5, <3>1 DEF Copied
      <4>3. remaining' = (nRx' * nsym' - Copied') * nsc'
        BY <2>2, <3>1, <4>2
      <4>. QED  BY <2>2, <2>5, <3>1, <4>1, <4>2, <4>3 DEF FillLoopInv
    <3>. QED  BY <2>2, <2>3, <2>7, <3>1, <3>2, <3>3
  <2>. QED  BY <2>6, <2>7
<1>3. CASE FillSymbol
  <2>1. /\ pc = "fill" /\ iPort < nRx /\ FillLoopInv /\ TypeOK
        /\ nsc \in 1..MaxSubc /\ nsym \in 1..MaxSym /\ Len(rxPorts) = nRx
    BY <1>3 DEF FillSymbol
  <2>2. /\ grid' = [grid EXCEPT ![<<iPort, iSym>>] = view.off]
        /\ remaining' = remaining - nsc
        /\ view' = [off |-> view.off + view.len - remaining', len |-> remaining']
        /\ IF iSym + 1 = nsym
             THEN iPort' = iPort + 1 /\ iSym' = 0
             ELSE iPort' = iPort /\ iSym' = iSym + 1
        /\ UNCHANGED <<pc, nsc, nsym, nRx, rxPorts, dmrs, pilotWidth, est, out,
                       info, total>>
    BY <1>3 DEF FillSymbol
  <2>3. /\ iPort \in Nat /\ iSym \in Nat /\ nRx \in Nat
        /\ iSym < nsym /\ remaining = (nRx * nsym - Copied) * nsc
        /\ view.off = Copied * nsc /\ view.len = remaining
    BY <2>1 DEF FillLoopInv, TypeOK
  <2>4. Copied + 1 <= nRx * nsym
    BY <2>1, FillLoopBound
  <2>5. /\ Copied' = Copied + 1 /\ iPort' <= nRx /\ iSym' < nsym
        /\ (iPort' = nRx => iSym' = 0) /\ iPort' \in 0..MaxPorts
        /\ iSym' \in 0..MaxSym
    <3>1. CASE iSym + 1 = nsym
      <4>1. iPort' = iPort + 1 /\ iSym' = 0 /\ nsym' = nsym
        BY <2>2, <3>1
      <4>2. (iPort + 1) * nsym = iPort * nsym + iSym + 1
        BY <2>3, <3>1
      <4>. QED  BY <2>1, <2>3, <4>1, <4>2 DEF Copied, TypeOK
    <3>2. CASE iSym + 1 # nsym
      <4>1. iPort' = iPort /\ iSym' = iSym + 1 /\ nsym' = nsym
        BY <2>2, <3>2
      <4>. QED  BY <2>1, <2>3, <3>2, <4>1 DEF Copied, TypeOK
    <3>. QED  BY <3>1, <3>2
  <2>6. /\ remaining' = (nRx * nsym - Copied') * nsc
        /\ remaining' \in Nat
        /\ view' = [off |-> Copied' * nsc, len |-> remaining']
    <3>. DEFINE k == nRx * nsym - Copied
    <3>1. k \in Nat \ {0} /\ Copied \in Nat
      BY <2>1, <2>3, <2>4 DEF Copied
    <3>2. remaining' = (k - 1) * nsc
      <4>1. remaining' = k * nsc - nsc
        BY <2>2, <2>3
      <4>. QED  BY <4>1, <3>1, <2>1
    <3>3. (k - 1) * nsc \in Nat
      BY <3>1, <2>1
    <3>4. view.off + view.len - remaining' = (Copied + 1) * nsc
      <4>1. view.off + view.len - remaining' = Copied * nsc + (k * nsc - (k - 1) * nsc)
        BY <2>3, <3>2
      <4>2. k * nsc - (k - 1) * nsc = nsc
        BY <2>1, <3>1
      <4>3. Copied * nsc + nsc = (Copied + 1) * nsc
        BY <2>1, <3>1
      <4>. QED  BY <4>1, <4>2, <4>3
    <3>5. nRx * nsym - Copied' = k - 1
      BY <2>1, <2>3, <2>5, <3>1
    <3>. QED  BY <2>2, <2>5, <3>2, <3>3, <3>4, <3>5
  <2>7. <<iPort, iSym>> \in Cells /\ view.off = MatlabOffset(iPort, iSym)
    BY <2>1, <2>3 DEF Cells, Ports, MatlabOffset, Copied, TypeOK
  <2>8. \A c \in Cells : CopiedBefore(c)' <=> CopiedBefore(c) \/ c = <<iPort, iSym>>
    BY <2>1, <2>2, <2>3 DEF CopiedBefore, Cells, Ports
  <2>9. \A c \in Cells :
          grid'[c] = IF CopiedBefore(c)' THEN MatlabOffset(c[1], c[2])' ELSE NoSlice
    <3>1. SUFFICES ASSUME NEW c \in Cells
                   PROVE  grid'[c] = IF CopiedBefore(c)'
                                       THEN MatlabOffset(c[1], c[2])' ELSE NoSlice
      OBVIOUS
    <3>2. grid \in [Cells -> Nat \cup {NoSlice}]
      BY <2>1 DEF TypeOK
    <3>3. MatlabOffset(c[1], c[2])' = MatlabOffset(c[1], c[2])
      BY <2>2 DEF MatlabOffset
    <3>4. CASE c = <<iPort, iSym>>
      BY <2>2, <2>7, <2>8, <3>2, <3>3, <3>4
    <3>5. CASE c # <<iPort, iSym>>
      <4>1. grid'[c] = grid[c]
        BY <2>2, <3>2, <3>5
      <4>. QED  BY <2>1, <2>8, <3>3, <3>5, <4>1 DEF FillLoopInv
    <3>. QED  BY <3>4, <3>5
  <2>10. TypeOK'
    <3>1. grid' \in [Cells -> Nat \cup {NoSlice}]
      BY <2>1, <2>2, <2>3, <2>7 DEF TypeOK, MatlabOffset, Copied
    <3>2. remaining' \in Nat /\ view' \in [off : Nat, len : Nat]
      <4>1. Copied' * nsc \in Nat
        <5>1. Copied \in Nat /\ nsc \in Nat
          BY <2>1, <2>3 DEF Copied
        <5>. QED  BY <2>5, <5>1
      <4>. QED  BY <2>6, <4>1
    <3>. QED  BY <2>1, <2>2, <2>5, <3>1, <3>2 DEF TypeOK
  <2>11. FillLoopInv'
    BY <2>1, <2>2, <2>5, <2>6, <2>9 DEF FillLoopInv
  <2>. QED  BY <2>1, <2>2, <2>10, <2>11
<1>4. CASE CheckPilots
  <2>1. /\ pc = "fill" /\ iPort = nRx /\ FillLoopInv /\ TypeOK
        /\ nsc \in 1..MaxSubc /\ nsym \in 1..MaxSym /\ Len(rxPorts) = nRx
    BY <1>4 DEF CheckPilots
  <2>2. \A c \in Cells : CopiedBefore(c) <=> InGrid(c)
    BY <2>1 DEF FillLoopInv, CopiedBefore, InGrid, Cells, Ports, TypeOK
  <2>3. \A c \in Cells :
          grid[c] = IF InGrid(c) THEN MatlabOffset(c[1], c[2]) ELSE NoSlice
    BY <2>1, <2>2 DEF FillLoopInv
  <2>4. PICK nPilots \in 0..MaxPilots :
          LET nofPilotRes == dmrs.rbCount * dmrs.reCount
          IN IF nPilots # nofPilotRes * Cardinality(dmrs.symbols)
               THEN pc' = "aborted" /\ UNCHANGED <<pilotWidth, iPort>>
               ELSE /\ pc' = "compute"
                    /\ pilotWidth' = nofPilotRes
                    /\ iPort' = 0
    BY <1>4 DEF CheckPilots
  <2>5. UNCHANGED <<nsc, nsym, nRx, rxPorts, dmrs, remaining, view, iSym, grid,
                    est, out, info, total>>
    BY <1>4 DEF CheckPilots
  <2>6. dmrs.rbCount * dmrs.reCount \in Nat
    BY <2>1 DEF TypeOK, DmrsPatterns
  <2>7. /\ pc' \in {"aborted", "compute"}
        /\ pilotWidth' \in Nat
        /\ pc' = "compute" => iPort' = 0
        /\ iPort' \in 0..MaxPorts
    BY <2>1, <2>4, <2>6 DEF TypeOK
  <2>8. TypeOK'
    BY <2>1, <2>5, <2>7 DEF TypeOK
  <2>. QED  BY <2>1, <2>3, <2>5, <2>7, <2>8 DEF MatlabOffset, InGrid
<1>5. CASE ComputePort
  <2>1. /\ pc = "compute" /\ iPort < nRx /\ TypeOK
        /\ nsc \in 1..MaxSubc /\ nsym \in 1..MaxSym /\ Len(rxPorts) = nRx
        /\ \A c \in Cells :
             grid[c] = IF InGrid(c) THEN MatlabOffset(c[1], c[2]) ELSE NoSlice
    BY <1>5 DEF ComputePort
  <2>2. /\ est' = [est EXCEPT ![iPort] = rxPorts[iPort + 1]]
        /\ out' = Append(out, est'[iPort])
        /\ iPort' = iPort + 1
        /\ UNCHANGED <<pc, nsc, nsym, nRx, rxPorts, dmrs, remaining, view, iSym,
                       grid, pilotWidth, info, total>>
    BY <1>5 DEF ComputePort
  <2>3. rxPorts \in Seq(PortIndexVals) /\ iPort \in Ports
    BY <2>1, PortIndexSeqsType DEF TypeOK, Ports
  <2>4. rxPorts[iPort + 1] \in PortIndexVals
    BY <2>1, <2>3 DEF Ports
  <2>5. est' \in [Ports -> PortIndexVals \cup {NoEst}]
    BY <2>1, <2>2, <2>3, <2>4 DEF TypeOK
  <2>6. out' \in Seq(PortIndexVals \cup {NoEst})
    BY <2>1, <2>2, <2>3, <2>5 DEF TypeOK
  <2>7. TypeOK'
    BY <2>1, <2>2, <2>5, <2>6 DEF TypeOK
  <2>8. /\ pc' = "compute" /\ iPort' <= nRx' /\ Len(rxPorts') = nRx'
        /\ nsc' \in 1..MaxSubc /\ nsym' \in 1..MaxSym
    BY <2>1, <2>2 DEF TypeOK
  <2>9. \A c \in Cells :
          grid'[c] = IF InGrid(c)' THEN MatlabOffset(c[1], c[2])' ELSE NoSlice
    BY <2>1, <2>2 DEF InGrid, MatlabOffset
  <2>. QED  BY <2>7, <2>8, <2>9
<1>6. CASE WriteOutputs
  <2>1. /\ pc = "compute" /\ iPort = nRx /\ TypeOK
        /\ nsc \in 1..MaxSubc /\ nsym \in 1..MaxSym /\ Len(rxPorts) = nRx
        /\ \A c \in Cells :
             grid[c] = IF InGrid(c) THEN MatlabOffset(c[1], c[2]) ELSE NoSlice
    BY <1>6 DEF WriteOutputs
  <2>2. /\ info' = [k \in 1..nRx |-> est[k - 1]]
        /\ total' \in {"mean", "NaN"}
        /\ pc' = "done"
        /\ UNCHANGED <<nsc, nsym, nRx, rxPorts, dmrs, remaining, view, iPort,
                       iSym, grid, pilotWidth, est, out>>
    BY <1>6 DEF WriteOutputs
  <2>3. info' \in Seq(PortIndexVals \cup {NoEst})
    <3>1. info' \in [1..nRx -> PortIndexVals \cup {NoEst}]
      BY <2>1, <2>2 DEF TypeOK, Ports
    <3>. QED  BY <2>1, <3>1 DEF TypeOK
  <2>4. TypeOK'
    BY <2>1, <2>2, <2>3 DEF TypeOK
  <2>. QED  BY <2>1, <2>2, <2>4 DEF InGrid, MatlabOffset
<1>7. CASE Returned \/ UNCHANGED vars
  <2>1. UNCHANGED vars
    BY <1>7 DEF Returned
  <2>. QED  BY <2>1, ZenonT(60) DEF vars, TypeOK, FillLoopInv, InGrid, Copied,
                                   CopiedBefore, MatlabOffset
<1>. QED  BY <1>1, <1>2, <1>3, <1>4, <1>5, <1>6, <1>7 DEF Next

LEMMA IInvInvariant == Spec => []IInv
BY InitIInv, NextIInv, PTL DEF Spec

(* The type invariant holds in every reachable state, whatever the grid   *)
(* shape, the PortIndices and the DM-RS pattern the call is given.        *)
THEOREM TypeCorrect == Spec => []TypeOK
<1>1. IInv => TypeOK
  BY DEF IInv
<1>. QED  BY <1>1, IInvInvariant, PTL

(* For every grid shape, the grid fill loop of method_step copies into    *)
(* each (port, symbol) of the srsRAN grid the MATLAB column stored there, *)
(* never cuts grid_view past its end, and has filled the whole grid when  *)
(* the pilots are checked.                                                *)
THEOREM GridFillCorrect == Spec => []GridFillColumnMajor
<1>1. IInv => GridFillColumnMajor
  <2>. SUFFICES ASSUME IInv PROVE GridFillColumnMajor
    OBVIOUS
  <2>. USE DEF IInv
  <2>1. \A c \in Cells : grid[c] \in {NoSlice, MatlabOffset(c[1], c[2])}
    <3>1. CASE pc \in {"check", "config"}
      BY <3>1
    <3>2. CASE pc = "fill"
      BY <3>2 DEF FillLoopInv
    <3>3. CASE pc \in {"compute", "done"}
      BY <3>3
    <3>4. CASE pc = "aborted"
      BY <3>4
    <3>. QED  BY <3>1, <3>2, <3>3, <3>4 DEF TypeOK
  <2>2. pc = "fill" /\ iPort < nRx => nsc <= view.len
    <3>. SUFFICES ASSUME pc = "fill", iPort < nRx PROVE nsc <= view.len
      OBVIOUS
    <3>1. /\ iSym < nsym /\ view.len = (nRx * nsym - Copied) * nsc
          /\ nsc \in 1..MaxSubc /\ nsym \in 1..MaxSym
          /\ iPort \in Nat /\ iSym \in Nat /\ nRx \in Nat
      BY DEF FillLoopInv, TypeOK
    <3>2. Copied + 1 <= (iPort + 1) * nsym
      BY <3>1 DEF Copied
    <3>3. (iPort + 1) * nsym <= nRx * nsym
      BY <3>1
    <3>4. nRx * nsym - Copied \in Nat \ {0}
      BY <3>1, <3>2, <3>3 DEF Copied
    <3>. QED  BY <3>1, <3>4
  <2>3. pc \in {"compute", "done"} =>
          \A p \in 0..nRx-1, s \in 0..nsym-1 : grid[<<p, s>>] = MatlabOffset(p, s)
    <3>. SUFFICES ASSUME pc \in {"compute", "done"},
                        NEW p \in 0..nRx-1, NEW s \in 0..nsym-1
                 PROVE  grid[<<p, s>>] = MatlabOffset(p, s)
      OBVIOUS
    <3>1. <<p, s>> \in Cells /\ InGrid(<<p, s>>)
      BY DEF InGrid, Cells, Ports, TypeOK
    <3>. QED  BY <3>1
  <2>. QED  BY <2>1, <2>2, <2>3 DEF GridFillColumnMajor
<1>. QED  BY <1>1, IInvInvariant, PTL

-----------------------------------------------------------------------------
(* The estimation loop.  OutputFollowsPortIndices is not inductive either: *)
(* it says nothing of the shared channel_estimate.  OutInv adds that the   *)
(* slots of the ports already computed hold their port index, and that no  *)
(* port list is accepted and no output written before the loop.           *)
OutInv ==
  /\ pc \in {"check", "config"} => rxPorts = <<>>
  /\ pc \in {"check", "config", "fill"} => out = <<>> /\ info = <<>>
  /\ pc = "compute" =>
       /\ out = SubSeq(rxPorts, 1, iPort)
       /\ info = <<>>
       /\ \A p \in 0..iPort-1 : est[p] = rxPorts[p + 1]
  /\ pc = "done" => out = rxPorts /\ info = rxPorts

(* Appending the next element to a prefix gives the next prefix.         *)
LEMMA SubSeqAppend ==
  ASSUME NEW S, NEW s \in Seq(S), NEW i \in 0..Len(s)-1
  PROVE  SubSeq(s, 1, i + 1) = Append(SubSeq(s, 1, i), s[i + 1])
OBVIOUS

LEMMA InitOutInv == Init => OutInv
BY DEF Init, OutInv

LEMMA NextOutInv == IInv /\ OutInv /\ [Next]_vars => OutInv'
<1>. SUFFICES ASSUME IInv, OutInv, [Next]_vars PROVE OutInv'
  OBVIOUS
<1>1. CASE CheckArgs
  BY <1>1 DEF CheckArgs, OutInv
<1>2. CASE Configure
  <2>1. pc = "config" /\ pc' \in {"aborted", "fill"}
        /\ UNCHANGED <<out, info>>
    BY <1>2 DEF Configure
  <2>. QED  BY <2>1 DEF OutInv
<1>3. CASE FillSymbol
  BY <1>3 DEF FillSymbol, OutInv
<1>4. CASE CheckPilots
  <2>1. /\ pc = "fill" /\ pc' \in {"aborted", "compute"}
        /\ pc' = "compute" => iPort' = 0
        /\ UNCHANGED <<rxPorts, out, info>>
    BY <1>4 DEF CheckPilots
  <2>2. out = <<>> /\ info = <<>>
    BY <2>1 DEF OutInv
  <2>3. SubSeq(rxPorts, 1, 0) = <<>>
    OBVIOUS
  <2>. QED  BY <2>1, <2>2, <2>3 DEF OutInv
<1>5. CASE ComputePort
  <2>1. /\ pc = "compute" /\ iPort < nRx /\ Len(rxPorts) = nRx
        /\ rxPorts \in Seq(PortIndexVals) /\ iPort \in Nat
        /\ est \in [Ports -> PortIndexVals \cup {NoEst}]
    BY <1>5, PortIndexSeqsType DEF ComputePort, IInv, TypeOK
  <2>2. /\ est' = [est EXCEPT ![iPort] = rxPorts[iPort + 1]]
        /\ out' = Append(out, est'[iPort])
        /\ iPort' = iPort + 1
        /\ UNCHANGED <<pc, rxPorts, info>>
    BY <1>5 DEF ComputePort
  <2>3. iPort \in Ports
    BY <2>1 DEF IInv, TypeOK, Ports
  <2>4. est'[iPort] = rxPorts[iPort + 1]
    BY <2>1, <2>2, <2>3
  <2>5. out' = SubSeq(rxPorts, 1, iPort')
    <3>1. out = SubSeq(rxPorts, 1, iPort)
      BY <2>1 DEF OutInv
    <3>2. iPort \in 0..Len(rxPorts)-1
      BY <2>1
    <3>. QED  BY <2>1, <2>2, <2>4, <3>1, <3>2, SubSeqAppend
  <2>6. \A p \in 0..iPort'-1 : est'[p] = rxPorts'[p + 1]
    <3>1. SUFFICES ASSUME NEW p \in 0..iPort PROVE est'[p] = rxPorts[p + 1]
      BY <2>1, <2>2
    <3>2. CASE p = iPort
      BY <2>4, <3>2
    <3>3. CASE p # iPort
      <4>1. p \in 0..iPort-1 /\ p \in Ports
        BY <2>1, <2>3, <3>3 DEF Ports
      <4>2. est'[p] = est[p]
        BY <2>1, <2>2, <3>3, <4>1
      <4>. QED  BY <2>1, <4>1, <4>2 DEF OutInv
    <3>. QED  BY <3>2, <3>3
  <2>7. info' = <<>>
    BY <2>1, <2>2 DEF OutInv
  <2>. QED  BY <2>1, <2>2, <2>5, <2>6, <2>7 DEF OutInv
<1>6. CASE WriteOutputs
  <2>1. /\ pc = "compute" /\ iPort = nRx /\ Len(rxPorts) = nRx
        /\ rxPorts \in Seq(PortIndexVals)
    BY <1>6, PortIndexSeqsType DEF WriteOutputs, IInv, TypeOK
  <2>2. /\ info' = [k \in 1..nRx |-> est[k - 1]]
        /\ pc' = "done"
        /\ UNCHANGED <<rxPorts, iPort, out>>
    BY <1>6 DEF WriteOutputs
  <2>3. out = rxPorts
    <3>1. out = SubSeq(rxPorts, 1, Len(rxPorts))
      BY <2>1 DEF OutInv
    <3>. QED  BY <2>1, <3>1
  <2>4. info' = rxPorts
    <3>1. \A k \in 1..nRx : est[k - 1] = rxPorts[k]
      BY <2>1 DEF OutInv
    <3>2. rxPorts = [k \in 1..nRx |-> rxPorts[k]]
      BY <2>1
    <3>. QED  BY <2>2, <3>1, <3>2
  <2>. QED  BY <2>2, <2>3, <2>4 DEF OutInv
<1>7. CASE Returned
  BY <1>7 DEF Returned, vars, OutInv
<1>8. CASE UNCHANGED vars
  BY <1>8 DEF vars, OutInv
<1>. QED  BY <1>1, <1>2, <1>3, <1>4, <1>5, <1>6, <1>7, <1>8 DEF Next

LEMMA OutInvInvariant == Spec => [](IInv /\ OutInv)
<1>1. Init => IInv /\ OutInv
  BY InitIInv, InitOutInv
<1>2. IInv /\ OutInv /\ [Next]_vars => IInv' /\ OutInv'
  BY NextIInv, NextOutInv
<1>. QED  BY <1>1, <1>2, PTL DEF Spec

(* ch_est_out holds the estimates port after port in PortIndices order    *)
(* while the estimation loop runs, and both outputs hold them for every    *)
(* port when the call returns: the shared channel_estimate is copied only  *)
(* after compute() has refreshed the slot of the port being copied.        *)
THEOREM OutputOrderCorrect == Spec => []OutputFollowsPortIndices
<1>1. IInv /\ OutInv => OutputFollowsPortIndices
  BY DEF OutInv, OutputFollowsPortIndices
<1>. QED  BY <1>1, OutInvInvariant, PTL

-----------------------------------------------------------------------------
(* The refinement.                                                          *)
AbsPorts == IF pc \in {"check", "config"} THEN <<>> ELSE rxPorts

LEMMA InitRefines == Init => Abs!Init
BY DEF Init, Abs!Init, AbsPhase

LEMMA NextRefines ==
  IInv /\ OutInv /\ [Next]_vars => [Abs!Next]_Abs!vars
<1>. SUFFICES ASSUME IInv, OutInv, [Next]_vars PROVE [Abs!Next]_Abs!vars
  OBVIOUS
<1>1. CASE CheckArgs
  <2>1. pc = "check" /\ pc' \in {"config", "aborted"} /\ UNCHANGED <<rxPorts, out, info>>
    BY <1>1 DEF CheckArgs
  <2>2. rxPorts = <<>>
    BY <2>1 DEF OutInv
  <2>3. CASE pc' = "config"
    BY <2>1, <2>3 DEF Abs!vars, AbsPhase
  <2>4. CASE pc' = "aborted"
    BY <2>1, <2>2, <2>4 DEF Abs!Next, Abs!Abort, AbsPhase
  <2>. QED  BY <2>1, <2>3, <2>4
<1>2. CASE Configure
  <2>1. /\ pc = "config" /\ pc' \in {"aborted", "fill"} /\ UNCHANGED <<out, info>>
        /\ pc' = "aborted" => rxPorts' = rxPorts
        /\ rxPorts' \in Seq(PortIndexVals)
    <3>1. rxPorts \in Seq(PortIndexVals)
      BY PortIndexSeqsType DEF IInv, TypeOK
    <3>2. PICK shape \in GridShapes, idx \in PortIndexSeqs, pat \in DmrsPatterns,
               created \in BOOLEAN :
            IF ~created \/ Len(idx) # (IF Len(shape) = 3 THEN shape[3] ELSE 1)
              THEN pc' = "aborted" /\ UNCHANGED <<rxPorts, remaining, view>>
              ELSE pc' = "fill" /\ rxPorts' = idx
      BY <1>2 DEF Configure
    <3>3. idx \in Seq(PortIndexVals)
      BY PortIndexSeqsType
    <3>4. /\ pc = "config" /\ UNCHANGED <<out, info>>
      BY <1>2 DEF Configure
    <3>. QED  BY <3>1, <3>2, <3>3, <3>4
  <2>2. rxPorts = <<>>
    BY <2>1 DEF OutInv
  <2>3. CASE pc' = "aborted"
    BY <2>1, <2>2, <2>3 DEF Abs!Next, Abs!Abort, AbsPhase
  <2>4. CASE pc' = "fill"
    BY <2>1, <2>4 DEF Abs!Next, Abs!Accept, AbsPhase
  <2>. QED  BY <2>1, <2>3, <2>4
<1>3. CASE FillSymbol
  BY <1>3 DEF FillSymbol, Abs!vars, AbsPhase
<1>4. CASE CheckPilots
  <2>1. /\ pc = "fill" /\ pc' \in {"aborted", "compute"}
        /\ UNCHANGED <<rxPorts, out, info>>
    BY <1>4 DEF CheckPilots
  <2>2. CASE pc' = "aborted"
    BY <2>1, <2>2 DEF Abs!Next, Abs!Abort, AbsPhase
  <2>3. CASE pc' = "compute"
    BY <2>1, <2>3 DEF Abs!vars, AbsPhase
  <2>. QED  BY <2>1, <2>2, <2>3
<1>5. CASE ComputePort
  <2>1. /\ pc = "compute" /\ iPort < nRx /\ Len(rxPorts) = nRx
        /\ rxPorts \in Seq(PortIndexVals) /\ iPort \in Nat
        /\ est \in [Ports -> PortIndexVals \cup {NoEst}]
    BY <1>5, PortIndexSeqsType DEF ComputePort, IInv, TypeOK
  <2>2. /\ est' = [est EXCEPT ![iPort] = rxPorts[iPort + 1]]
        /\ out' = Append(out, est'[iPort])
        /\ UNCHANGED <<pc, rxPorts, info>>
    BY <1>5 DEF ComputePort
  <2>3. out = SubSeq(rxPorts, 1, iPort) /\ Len(out) = iPort
    BY <2>1 DEF OutInv
  <2>4. est'[iPort] = rxPorts[Len(out) + 1]
    BY <2>1, <2>2, <2>3 DEF IInv, TypeOK, Ports
  <2>. QED  BY <2>1, <2>2, <2>3, <2>4 DEF Abs!Next, Abs!Emit, AbsPhase
<1>6. CASE WriteOutputs
  <2>1. /\ pc = "compute" /\ pc' = "done" /\ UNCHANGED <<rxPorts, out>>
    BY <1>6 DEF WriteOutputs
  <2>2. out' = rxPorts' /\ info' = rxPorts'
    <3>1. OutInv'
      BY NextOutInv
    <3>. QED  BY <2>1, <3>1 DEF OutInv
  <2>3. out = rxPorts /\ Len(out) = Len(rxPorts)
    <3>1. iPort = nRx /\ Len(rxPorts) = nRx /\ rxPorts \in Seq(PortIndexVals)
      BY <1>6, PortIndexSeqsType DEF WriteOutputs, IInv, TypeOK
    <3>. QED  BY <3>1, <2>1 DEF OutInv
  <2>. QED  BY <2>1, <2>2, <2>3 DEF Abs!Next, Abs!Finish, AbsPhase
<1>7. CASE Returned \/ UNCHANGED vars
  BY <1>7 DEF Returned, vars, Abs!vars, AbsPhase
<1>. QED  BY <1>1, <1>2, <1>3, <1>4, <1>5, <1>6, <1>7 DEF Next

(* method_step implements the contract of the call (ChEstCall): under the  *)
(* mapping of its phases, every step of the handler either accepts the     *)
(* port list, emits the estimate of the next port in PortIndices order,    *)
(* returns both outputs once every port is done, aborts, or leaves the     *)
(* call's visible state unchanged.                                         *)
THEOREM ImplementsChEstCall == Spec => ChEstCallSpec
<1>1. [](IInv /\ OutInv) /\ [][Next]_vars => [][Abs!Next]_Abs!vars
  BY NextRefines, PTL
<1>. QED  BY <1>1, InitRefines, OutInvInvariant, PTL DEF Spec, ChEstCallSpec, Abs!Spec

-----------------------------------------------------------------------------
(* One iteration of the fill loop copies exactly one more column.         *)
LEMMA FillSymbolCopied ==
  ASSUME IInv, FillSymbol
  PROVE  Copied' = Copied + 1
<1>1. /\ pc = "fill" /\ iPort \in Nat /\ iSym \in Nat /\ nsym \in 1..MaxSym
      /\ iSym < nsym /\ nsym' = nsym
      /\ IF iSym + 1 = nsym
           THEN iPort' = iPort + 1 /\ iSym' = 0
           ELSE iPort' = iPort /\ iSym' = iSym + 1
  BY DEF FillSymbol, IInv, FillLoopInv, TypeOK
<1>2. CASE iSym + 1 = nsym
  <2>1. iPort' = iPort + 1 /\ iSym' = 0
    BY <1>1, <1>2
  <2>2. (iPort + 1) * nsym + 0 = iPort * nsym + iSym + 1
    BY <1>1, <1>2
  <2>. QED  BY <1>1, <2>1, <2>2 DEF Copied
<1>3. CASE iSym + 1 # nsym
  <2>1. iPort' = iPort /\ iSym' = iSym + 1
    BY <1>1, <1>3
  <2>. QED  BY <1>1, <2>1 DEF Copied
<1>. QED  BY <1>2, <1>3

(* From a state of IInv every step that is not a stutter lowers          *)
(* StepsLeft, which is a natural number.                                  *)
LEMMA NextProgress ==
  IInv /\ [Next]_vars => [(StepsLeft \in Nat) /\ StepsLeft' < StepsLeft]_vars
<1>. SUFFICES ASSUME IInv, [Next]_vars
              PROVE  [(StepsLeft \in Nat) /\ StepsLeft' < StepsLeft]_vars
  OBVIOUS
<1>. DEFINE B == MaxPorts * MaxSym + MaxPorts
<1>0. B \in Nat
  OBVIOUS
<1>1. CASE CheckArgs
  <2>1. StepsLeft = B + 4 /\ StepsLeft' \in {B + 3, 0}
    BY <1>1 DEF CheckArgs, StepsLeft
  <2>. QED  BY <1>0, <2>1
<1>2. CASE Configure
  <2>1. StepsLeft = B + 3
    BY <1>2 DEF Configure, StepsLeft
  <2>2. PICK shape \in GridShapes, idx \in PortIndexSeqs, pat \in DmrsPatterns,
             created \in BOOLEAN :
          LET ports == IF Len(shape) = 3 THEN shape[3] ELSE 1
          IN /\ nsym' = shape[2]
             /\ nRx' = ports
             /\ IF ~created \/ Len(idx) # ports
                  THEN pc' = "aborted"
                  ELSE pc' = "fill"
    BY <1>2, Zenon DEF Configure
  <2>. DEFINE ports == IF Len(shape) = 3 THEN shape[3] ELSE 1
  <2>3. shape[2] \in 1..MaxSym /\ ports \in 0..MaxPorts
    BY GridShapeType
  <2>4. iPort' = 0 /\ iSym' = 0
    BY <1>2 DEF Configure, IInv
  <2>5. CASE ~created \/ Len(idx) # ports
    <3>1. StepsLeft' = 0
      BY <2>2, <2>5 DEF StepsLeft
    <3>. QED  BY <1>0, <2>1, <3>1
  <2>6. CASE created /\ Len(idx) = ports
    <3>1. pc' = "fill" /\ nRx' = ports /\ nsym' = shape[2]
      BY <2>2, <2>6
    <3>2. StepsLeft' = ports * shape[2] - (0 * shape[2] + 0) + ports + 2
      BY <2>4, <3>1 DEF StepsLeft
    <3>3. ports * shape[2] <= MaxPorts * shape[2]
      BY <2>3
    <3>4. MaxPorts * shape[2] <= MaxPorts * MaxSym
      BY <2>3
    <3>5. ports * shape[2] - (0 * shape[2] + 0) + ports + 2 \in 0..B + 2
      BY <2>3, <3>3, <3>4
    <3>. QED  BY <2>1, <3>2, <3>5
  <2>. QED  BY <2>5, <2>6
<1>3. CASE FillSymbol
  <2>1. pc = "fill" /\ iPort < nRx /\ UNCHANGED <<pc, nRx, nsym>>
    BY <1>3 DEF FillSymbol
  <2>2. Copied' = Copied + 1
    BY <1>3, FillSymbolCopied
  <2>3. Copied \in Nat /\ nRx * nsym \in Nat /\ Copied + 1 <= nRx * nsym
    BY <2>1, FillLoopBound
  <2>4. StepsLeft = nRx * nsym - Copied + nRx + 2
    BY <2>1 DEF StepsLeft, Copied
  <2>5. StepsLeft' = nRx * nsym - Copied' + nRx + 2
    BY <2>1 DEF StepsLeft, Copied
  <2>6. nRx \in Nat
    BY DEF IInv, TypeOK
  <2>. QED  BY <2>2, <2>3, <2>4, <2>5, <2>6
<1>4. CASE CheckPilots
  <2>1. /\ pc = "fill" /\ iPort = nRx /\ pc' \in {"aborted", "compute"}
        /\ (pc' = "compute" => iPort' = 0) /\ UNCHANGED <<nRx, nsym, iSym>>
    BY <1>4, Zenon DEF CheckPilots
  <2>2. Copied = nRx * nsym /\ nRx \in Nat /\ nsym \in Nat
    BY <2>1, FillLoopBound DEF IInv, TypeOK
  <2>3. StepsLeft = nRx + 2
    BY <2>1, <2>2 DEF StepsLeft, Copied
  <2>4. StepsLeft' \in {nRx - 0 + 1, 0}
    BY <2>1 DEF StepsLeft
  <2>. QED  BY <2>2, <2>3, <2>4
<1>5. CASE ComputePort
  <2>1. /\ pc = "compute" /\ pc' = "compute" /\ iPort < nRx
        /\ iPort' = iPort + 1 /\ nRx' = nRx
    BY <1>5 DEF ComputePort
  <2>2. iPort \in Nat /\ nRx \in Nat
    BY DEF IInv, TypeOK
  <2>3. StepsLeft = nRx - iPort + 1 /\ StepsLeft' = nRx - (iPort + 1) + 1
    BY <2>1 DEF StepsLeft
  <2>. QED  BY <2>1, <2>2, <2>3
<1>6. CASE WriteOutputs
  <2>1. pc = "compute" /\ iPort = nRx /\ pc' = "done"
    BY <1>6 DEF WriteOutputs
  <2>2. StepsLeft = nRx - iPort + 1 /\ StepsLeft' = 0
    BY <2>1 DEF StepsLeft
  <2>3. nRx \in Nat
    BY DEF IInv, TypeOK
  <2>. QED  BY <2>1, <2>2, <2>3
<1>7. CASE Returned \/ UNCHANGED vars
  <2>1. UNCHANGED vars
    BY <1>7 DEF Returned
  <2>. QED  BY <2>1
<1>. QED  BY <1>1, <1>2, <1>3, <1>4, <1>5, <1>6, <1>7 DEF Next

(* Every step of the channel estimator MEX call lowers the bound on the   *)
(* steps it still has to take (ProgressTowardReturn), for every grid      *)
(* shape: both loops advance their counters, and a call ends within       *)
(* MaxPorts * MaxSym + MaxPorts + 4 steps.                                *)
THEOREM ProgressCorrect == Spec => ProgressTowardReturn
<1>1. IInv /\ [Next]_vars => [(StepsLeft \in Nat) /\ StepsLeft' < StepsLeft]_vars
  BY NextProgress
<1>. QED  BY <1>1, IInvInvariant, PTL DEF Spec, ProgressTowardReturn

=============================================================================
