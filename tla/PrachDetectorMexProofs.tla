----------------------- MODULE PrachDetectorMexProofs -----------------------
(***************************************************************************)
(* Proofs about one call of the PRACH detector MEX: the type invariant and *)
(* ReportedDetection, for every value of the constants.                    *)
(*                                                                         *)
(* ReportedDetection speaks only of the returned call; IInv adds the loop  *)
(* invariant of the fill loop (the symbols before i_symbol are written and *)
(* i_symbol has not passed nof_symbols) and that outputs[0] is assigned    *)
(* by the report of a non-empty detection only.                            *)
(***************************************************************************)
EXTENDS PrachDetectorMex, TLAPS

IInv ==
  /\ TypeOK
  /\ pc \in {"check", "restricted_set", "config"} =>
       iSym = 0 /\ filled = {} /\ output = NoOutput
  /\ pc = "fill" =>
       iSym <= nSym /\ filled = 0..iSym-1 /\ output = NoOutput
  /\ pc = "done" =>
       /\ filled = 0..nSym-1
       /\ Len(result) > 0
       /\ output = [count |-> Len(result), preamble |-> result[Len(result)]]

USE ConstAssumption

LEMMA DetectionListsType ==
  ASSUME NEW res \in DetectionLists
  PROVE  res \in Seq(Preambles) /\ Len(res) \in 0..MaxDetections
<1>1. PICK n \in 0..MaxDetections : res \in [1..n -> Preambles]
  BY DEF DetectionLists
<1>2. res \in Seq(Preambles)
  BY <1>1
<1>. QED  BY <1>1, <1>2

LEMMA FormatType ==
  ASSUME NEW tag
  PROVE  ToPreambleFormat(tag) \in {"FORMAT0", "FORMAT1", "FORMAT2", "FORMAT3", "OTHER"}
BY DEF ToPreambleFormat

LEMMA RestrictedType ==
  ASSUME NEW tag
  PROVE  \/ ToRestrictedSet(tag) = Terminate
         \/ ToRestrictedSet(tag) \in {"UNRESTRICTED", "TYPE_A", "TYPE_B"}
BY DEF ToRestrictedSet

LEMMA InitIInv == Init => IInv
<1>1. <<>> \in DetectionLists
  <2>1. <<>> \in [1..0 -> Preambles]
    OBVIOUS
  <2>. QED  BY <2>1 DEF DetectionLists
<1>2. Init => formatIn \in FormatTags \cup {NoTag}
  BY DEF Init
<1>. QED  BY <1>1, <1>2 DEF Init, IInv, TypeOK

LEMMA NextIInv == IInv /\ [Next]_vars => IInv'
<1>. SUFFICES ASSUME IInv, [Next]_vars PROVE IInv'
  OBVIOUS
<1>1. CASE CheckArgs
  BY <1>1 DEF CheckArgs, IInv, TypeOK
<1>2. CASE ReadRestrictedSet
  <2>1. PICK tag \in RestrictedTags :
          IF ToRestrictedSet(tag) = Terminate
            THEN pc' = "terminated" /\ restricted' = restricted
            ELSE pc' = "config" /\ restricted' = ToRestrictedSet(tag)
    BY <1>2 DEF ReadRestrictedSet
  <2>2. pc = "restricted_set"
        /\ UNCHANGED <<formatIn, format, nSamples, nSym, iSym, filled, result, output>>
    BY <1>2 DEF ReadRestrictedSet
  <2>3. restricted' \in {"UNRESTRICTED", "TYPE_A", "TYPE_B"}
        /\ pc' \in {"terminated", "config"}
    BY <2>1, RestrictedType DEF IInv, TypeOK
  <2>. QED  BY <2>2, <2>3 DEF IInv, TypeOK
<1>3. CASE SkipRestrictedSet
  BY <1>3 DEF SkipRestrictedSet, IInv, TypeOK
<1>4. CASE CreateBuffer
  <2>1. PICK fmt \in FormatTags, nDims \in {2, 3}, ns \in SampleCounts,
             sym \in 0..MaxSym, created \in BOOLEAN :
          /\ formatIn' = fmt
          /\ format' = ToPreambleFormat(fmt)
          /\ nSamples' = ns
          /\ nSym' = sym
          /\ pc' = IF nDims = 2 /\ ns \in {LongSequenceLength, ShortSequenceLength}
                                   /\ created
                      THEN "fill" ELSE "aborted"
    BY <1>4 DEF CreateBuffer
  <2>2. pc = "config" /\ UNCHANGED <<restricted, iSym, filled, result, output>>
    BY <1>4 DEF CreateBuffer
  <2>3. iSym = 0 /\ filled = {} /\ output = NoOutput
    BY <2>2 DEF IInv
  <2>4. format' \in {"FORMAT0", "FORMAT1", "FORMAT2", "FORMAT3", "OTHER"}
    BY <2>1, FormatType
  <2>5. /\ pc' \in {"fill", "aborted"} /\ nSamples' \in Nat
        /\ nSym' \in 0..MaxSym /\ formatIn' \in FormatTags
    BY <2>1 DEF IInv, TypeOK
  <2>6. TypeOK'
    BY <2>2, <2>4, <2>5 DEF IInv, TypeOK
  <2>7. /\ iSym' = 0 /\ filled' = {} /\ output' = NoOutput
        /\ iSym' <= nSym' /\ filled' = 0..iSym'-1
    BY <2>2, <2>3, <2>5
  <2>. QED  BY <2>5, <2>6, <2>7 DEF IInv
<1>5. CASE FillSymbol
  <2>1. /\ pc = "fill" /\ iSym < nSym
        /\ filled' = filled \cup {iSym} /\ iSym' = iSym + 1
        /\ UNCHANGED <<pc, restricted, formatIn, format, nSamples, nSym, result, output>>
    BY <1>5 DEF FillSymbol
  <2>2. /\ iSym \in 0..MaxSym /\ nSym \in 0..MaxSym
        /\ filled = 0..iSym-1 /\ filled \subseteq 0..MaxSym-1
    BY <2>1 DEF IInv, TypeOK
  <2>3. filled' = 0..iSym'-1 /\ iSym' <= nSym' /\ iSym' \in 0..MaxSym
        /\ filled' \subseteq 0..MaxSym-1
    BY <2>1, <2>2
  <2>. QED  BY <2>1, <2>3 DEF IInv, TypeOK
<1>6. CASE Detect
  <2>1. PICK res \in DetectionLists :
          /\ result' = res
          /\ IF res = <<>>
               THEN pc' = "aborted" /\ output' = output
               ELSE /\ pc' = "done"
                    /\ output' = [count |-> Len(res), preamble |-> res[Len(res)]]
    BY <1>6 DEF Detect
  <2>2. /\ pc = "fill" /\ iSym = nSym
        /\ UNCHANGED <<restricted, formatIn, format, nSamples, nSym, iSym, filled>>
    BY <1>6 DEF Detect
  <2>3. res \in Seq(Preambles) /\ Len(res) \in 0..MaxDetections
    BY DetectionListsType
  <2>4. CASE res = <<>>
    BY <2>1, <2>2, <2>4 DEF IInv, TypeOK
  <2>5. CASE res # <<>>
    <3>1. Len(res) \in 1..MaxDetections /\ res[Len(res)] \in Preambles
      BY <2>3, <2>5
    <3>2. filled = 0..nSym-1
      BY <2>2 DEF IInv
    <3>3. formatIn' \in FormatTags \cup {NoTag}
      BY <2>2 DEF IInv, TypeOK
    <3>. QED  BY <2>1, <2>2, <2>5, <3>1, <3>2, <3>3 DEF IInv, TypeOK
  <2>. QED  BY <2>4, <2>5
<1>7. CASE Returned \/ UNCHANGED vars
  <2>1. UNCHANGED vars
    BY <1>7 DEF Returned
  <2>. QED  BY <2>1 DEF vars, IInv, TypeOK
<1>. QED  BY <1>1, <1>2, <1>3, <1>4, <1>5, <1>6, <1>7 DEF Next

LEMMA IInvInvariant == Spec => []IInv
BY InitIInv, NextIInv, PTL DEF Spec

(* Every reachable state of the PRACH detector MEX call is well typed:    *)
(* in particular outputs[0], when assigned, reports between one and       *)
(* MaxDetections preambles and a preamble the detector can return.         *)
THEOREM TypeCorrect == Spec => []TypeOK
<1>1. IInv => TypeOK
  BY DEF IInv
<1>. QED  BY <1>1, IInvInvariant, PTL

(* A returned detection ran on a buffer whose every symbol the fill loop  *)
(* wrote, and outputs[0] holds the number of detected preambles and the   *)
(* last of them, result.preambles.back(), which is never read from an     *)
(* empty list.                                                            *)
THEOREM ReportedDetectionCorrect == Spec => []ReportedDetection
<1>1. IInv => ReportedDetection
  BY DEF IInv, ReportedDetection
<1>. QED  BY <1>1, IInvInvariant, PTL

-----------------------------------------------------------------------------
(* The variant of method_step: from a state of IInv, every step that is   *)
(* not a stutter lowers StepsLeft, which is a natural number.             *)
LEMMA NextProgress ==
  IInv /\ [Next]_vars => [(StepsLeft \in Nat) /\ StepsLeft' < StepsLeft]_vars
<1>. SUFFICES ASSUME IInv, [Next]_vars
              PROVE  [(StepsLeft \in Nat) /\ StepsLeft' < StepsLeft]_vars
  OBVIOUS
<1>0. /\ pc \in {"check", "restricted_set", "config", "fill", "done", "aborted",
                  "skipped", "terminated"}
      /\ nSym \in 0..MaxSym /\ iSym \in 0..MaxSym
      /\ pc = "fill" => iSym <= nSym
  BY DEF IInv, TypeOK
<1>1. CASE CheckArgs
  <2>1. StepsLeft = MaxSym + 4
    BY <1>1 DEF CheckArgs, StepsLeft
  <2>2. StepsLeft' \in {MaxSym + 3, 0}
    BY <1>1 DEF CheckArgs, StepsLeft
  <2>. QED  BY <2>1, <2>2
<1>2. CASE ReadRestrictedSet
  <2>1. StepsLeft = MaxSym + 3
    BY <1>2 DEF ReadRestrictedSet, StepsLeft
  <2>2. pc' \in {"terminated", "config"}
    BY <1>2 DEF ReadRestrictedSet
  <2>3. StepsLeft' \in {MaxSym + 2, 0}
    BY <2>2 DEF StepsLeft
  <2>. QED  BY <2>1, <2>3
<1>3. CASE SkipRestrictedSet
  <2>1. StepsLeft = MaxSym + 2 /\ StepsLeft' = 0
    BY <1>3 DEF SkipRestrictedSet, StepsLeft
  <2>. QED  BY <2>1
<1>4. CASE CreateBuffer
  <2>1. StepsLeft = MaxSym + 2
    BY <1>4 DEF CreateBuffer, StepsLeft
  <2>2. PICK sym \in 0..MaxSym : nSym' = sym /\ pc' \in {"fill", "aborted"}
    BY <1>4, Zenon DEF CreateBuffer
  <2>3. iSym' = 0
    BY <1>4 DEF CreateBuffer, IInv
  <2>4. StepsLeft' \in {sym - 0 + 1, 0}
    BY <2>2, <2>3 DEF StepsLeft
  <2>. QED  BY <2>1, <2>4
<1>5. CASE FillSymbol
  <2>1. pc = "fill" /\ pc' = "fill" /\ iSym < nSym /\ iSym' = iSym + 1 /\ nSym' = nSym
    BY <1>5 DEF FillSymbol
  <2>2. StepsLeft = nSym - iSym + 1 /\ StepsLeft' = nSym - (iSym + 1) + 1
    BY <2>1 DEF StepsLeft
  <2>. QED  BY <1>0, <2>1, <2>2
<1>6. CASE Detect
  <2>1. pc = "fill" /\ iSym = nSym /\ pc' \in {"done", "aborted"}
    BY <1>6 DEF Detect
  <2>2. StepsLeft = nSym - iSym + 1 /\ StepsLeft' = 0
    BY <2>1 DEF StepsLeft
  <2>. QED  BY <1>0, <2>1, <2>2
<1>7. CASE Returned \/ UNCHANGED vars
  <2>1. UNCHANGED vars
    BY <1>7 DEF Returned
  <2>. QED  BY <2>1
<1>. QED  BY <1>1, <1>2, <1>3, <1>4, <1>5, <1>6, <1>7 DEF Next

(* Every step of the PRACH detector MEX call lowers the bound on the steps *)
(* it still has to take (ProgressTowardReturn): the fill loop advances     *)
(* i_symbol on each iteration, and a call ends within MaxSym + 4 steps.    *)
THEOREM ProgressCorrect == Spec => ProgressTowardReturn
<1>1. IInv /\ [Next]_vars => [(StepsLeft \in Nat) /\ StepsLeft' < StepsLeft]_vars
  BY NextProgress
<1>. QED  BY <1>1, IInvInvariant, PTL DEF Spec, ProgressTowardReturn

=============================================================================
