-------------------------- MODULE PrachDetectorMex --------------------------
(***************************************************************************)
(* MexFunction::method_step of prach_detector_mex.cpp: one call of the     *)
(* PRACH detector MEX.  The configuration tags go through the conversions  *)
(* of matlab_to_srs.h; the buffer is created from the sample count of the  *)
(* input, filled one OFDM symbol per step, and handed to the srsRAN        *)
(* detector, whose result (a list of preamble indications) is a            *)
(* nondeterministic list of distinct preamble indices.  Samples are        *)
(* abstracted away: a buffer symbol is either written or not.              *)
(***************************************************************************)
EXTENDS Naturals, Sequences, MatlabToSrs

CONSTANTS
  RestrictedTags,    \* values of config.restricted_set
  FormatTags,        \* values of config.format
  SampleCounts,      \* values of the first dimension of prach_symbols
  MaxSym,            \* largest second dimension of prach_symbols
  Preambles,         \* preamble indices the detector may report
  MaxDetections,     \* longest detection list
  NoTag,             \* config.format not read yet
  NoOutput           \* outputs[0] not assigned

(* prach_constants::LONG_SEQUENCE_LENGTH and SHORT_SEQUENCE_LENGTH *)
LongSequenceLength == 839
ShortSequenceLength == 139

ASSUME ConstAssumption ==
  /\ SampleCounts \subseteq Nat
  /\ MaxSym \in Nat
  /\ Preambles \subseteq 0..63
  /\ MaxDetections \in Nat
  /\ NoOutput \notin [count : Nat, preamble : Preambles]

VARIABLES
  pc,        \* where method_step is
  restricted,\* detector_config.restricted_set
  formatIn,  \* format_in.toAscii(), the config.format tag as given
  format,    \* detector_config.format
  nSamples,  \* nof_samples = buffer_dimensions[0]
  nSym,      \* nof_symbols = buffer_dimensions[1]
  iSym,      \* i_symbol of the fill loop
  filled,    \* buffer symbols written by the fill loop
  result,    \* result.preambles, as the sequence of their preamble indices
  output     \* outputs[0]

vars == <<pc, restricted, formatIn, format, nSamples, nSym, iSym, filled, result, output>>

(* Detection lists: distinct preamble indices, at most MaxDetections.     *)
DetectionLists ==
  UNION {{s \in [1..n -> Preambles] :
            \A i, j \in 1..n : i # j => s[i] # s[j]} : n \in 0..MaxDetections}

-----------------------------------------------------------------------------
Init ==
  /\ pc = "check"
  /\ restricted = "UNRESTRICTED"
  /\ formatIn = NoTag
  /\ format = "OTHER"
  /\ nSamples = 0 /\ nSym = 0 /\ iSym = 0
  /\ filled = {}
  /\ result = <<>>
  /\ output = NoOutput

(* check_step_outputs_inputs: any malformed argument aborts the call.     *)
CheckArgs ==
  /\ pc = "check"
  /\ \E wellFormed \in BOOLEAN :
       pc' = IF wellFormed THEN "restricted_set" ELSE "aborted"
  /\ UNCHANGED <<restricted, formatIn, format, nSamples, nSym, iSym, filled, result, output>>

(* The restricted_set tag is converted first; an unknown tag ends the   *)
(* process in srsran_terminate.                                           *)
ReadRestrictedSet ==
  /\ pc = "restricted_set"
  /\ \E tag \in RestrictedTags :
       IF ToRestrictedSet(tag) = Terminate
         THEN pc' = "terminated" /\ restricted' = restricted
         ELSE pc' = "config" /\ restricted' = ToRestrictedSet(tag)
  /\ UNCHANGED <<formatIn, format, nSamples, nSym, iSym, filled, result, output>>

(* A restricted set is not implemented: the call prints a notice and      *)
(* returns without assigning outputs[0].                                  *)
SkipRestrictedSet ==
  /\ pc = "config"
  /\ restricted # "UNRESTRICTED"
  /\ pc' = "skipped"
  /\ UNCHANGED <<restricted, formatIn, format, nSamples, nSym, iSym, filled,
                 result, output>>

(* Reads the format and the buffer dimensions and creates the buffer: a   *)
(* long one for 839 samples, a short one for 139; any other shape or      *)
(* sample count aborts, and so does a factory that returns no buffer.     *)
CreateBuffer ==
  /\ pc = "config"
  /\ restricted = "UNRESTRICTED"
  /\ \E fmt \in FormatTags, nDims \in {2, 3}, ns \in SampleCounts,
        sym \in 0..MaxSym, created \in BOOLEAN :
       /\ formatIn' = fmt
       /\ format' = ToPreambleFormat(fmt)
       /\ nSamples' = ns
       /\ nSym' = sym
       /\ pc' = IF nDims = 2 /\ ns \in {LongSequenceLength, ShortSequenceLength}
                                /\ created
                   THEN "fill" ELSE "aborted"
  /\ UNCHANGED <<restricted, iSym, filled, result, output>>

(* Mutant: the loop forgets ++i_symbol.                                   *)
FillSymbolNoIncrement ==
  /\ pc = "fill"
  /\ iSym < nSym
  /\ filled' = filled \cup {iSym}
  /\ iSym' = iSym
  /\ UNCHANGED <<pc, restricted, formatIn, format, nSamples, nSym, result, output>>

(* One iteration of the fill loop: the samples of column i_symbol are    *)
(* copied into get_symbol(0, 0, 0, i_symbol).                             *)
FillSymbol ==
  /\ pc = "fill"
  /\ iSym < nSym
  /\ filled' = filled \cup {iSym}
  /\ iSym' = iSym + 1
  /\ UNCHANGED <<pc, restricted, formatIn, format, nSamples, nSym, result, output>>

(* Mutant: the check for an empty detection list is dropped; back() of  *)
(* an empty list reads an arbitrary preamble.                             *)
DetectNoEmptyCheck ==
  /\ pc = "fill"
  /\ iSym = nSym
  /\ \E res \in DetectionLists, p \in Preambles :
       /\ result' = res
       /\ pc' = "done"
       /\ output' = [count |-> Len(res),
                     preamble |-> IF res = <<>> THEN p ELSE res[Len(res)]]
  /\ UNCHANGED <<restricted, formatIn, format, nSamples, nSym, iSym, filled>>

(* Mutant: the first preamble of the list is reported instead of the last. *)
DetectFront ==
  /\ pc = "fill"
  /\ iSym = nSym
  /\ \E res \in DetectionLists :
       /\ result' = res
       /\ IF res = <<>>
            THEN pc' = "aborted" /\ output' = output
            ELSE /\ pc' = "done"
                 /\ output' = [count |-> Len(res), preamble |-> res[1]]
  /\ UNCHANGED <<restricted, formatIn, format, nSamples, nSym, iSym, filled>>

(* detect() and the report: no preamble aborts the call; otherwise the    *)
(* output holds the number of preambles and the last one of the list.     *)
Detect ==
  /\ pc = "fill"
  /\ iSym = nSym
  /\ \E res \in DetectionLists :
       /\ result' = res
       /\ IF res = <<>>
            THEN pc' = "aborted" /\ output' = output
            ELSE /\ pc' = "done"
                 /\ output' = [count |-> Len(res), preamble |-> res[Len(res)]]
  /\ UNCHANGED <<restricted, formatIn, format, nSamples, nSym, iSym, filled>>

(* The call has returned, or the process has ended.                       *)
Returned ==
  /\ pc \in {"done", "aborted", "skipped", "terminated"}
  /\ UNCHANGED vars

Next ==
  \/ CheckArgs
  \/ ReadRestrictedSet
  \/ SkipRestrictedSet
  \/ CreateBuffer
  \/ FillSymbol
  \/ Detect
  \/ Returned

Spec == Init /\ [][Next]_vars

(* method_step runs to its end on MATLAB's thread without waiting on      *)
(* anything: a step that can be taken is eventually taken.                *)
FairSpec == Spec /\ WF_vars(Next)

(* The preamble format identifiers of the MATLAB convention: the long    *)
(* formats 0..3 and the short formats.                                    *)
MatlabPreambleFormats ==
  {"0", "1", "2", "3", "A1", "A2", "A3", "B1", "B2", "B3", "B4", "C0", "C2"}

-----------------------------------------------------------------------------
TypeOK ==
  /\ pc \in {"check", "restricted_set", "config", "fill", "done", "aborted",
             "skipped", "terminated"}
  /\ restricted \in {"UNRESTRICTED", "TYPE_A", "TYPE_B"}
  /\ formatIn \in FormatTags \cup {NoTag}
  /\ format \in {"FORMAT0", "FORMAT1", "FORMAT2", "FORMAT3", "OTHER"}
  /\ nSamples \in Nat /\ nSym \in 0..MaxSym
  /\ iSym \in 0..MaxSym
  /\ filled \subseteq 0..MaxSym-1
  /\ result \in DetectionLists
  /\ output \in [count : 1..MaxDetections, preamble : Preambles] \cup {NoOutput}

(* A returned detection was run on a buffer whose every symbol had been   *)
(* filled, and reports how many preambles were found and the last of them *)
(* (the MEX surfaces result.preambles.back() only).                        *)
ReportedDetection ==
  pc = "done" =>
    /\ filled = 0..nSym-1
    /\ Len(result) > 0
    /\ output = [count |-> Len(result), preamble |-> result[Len(result)]]

(* Every call returns, aborts or ends the process: each loop of           *)
(* method_step advances its counter towards its bound.                    *)
CallReturns ==
  <>(pc \in {"done", "aborted", "skipped", "terminated"})

(* An upper bound on the steps method_step still has to take: the symbols *)
(* left to fill and the detection; before the buffer dimensions are read  *)
(* it is bounded by the largest input.                                    *)
StepsLeft ==
  CASE pc = "check"          -> MaxSym + 4
    [] pc = "restricted_set" -> MaxSym + 3
    [] pc = "config"         -> MaxSym + 2
    [] pc = "fill"           -> nSym - iSym + 1
    [] pc \in {"done", "aborted", "skipped", "terminated"} -> 0

(* Every step of method_step brings the call closer to its end: the bound *)
(* on the steps left is a natural number and each step lowers it, so the  *)
(* fill loop advances i_symbol and the call ends within MaxSym + 4 steps.  *)
ProgressTowardReturn ==
  [][(StepsLeft \in Nat) /\ StepsLeft' < StepsLeft]_vars

(* An unknown preamble format tag fails the call before detection, as     *)
(* every invalid tag should: a tag that names none of the NR PRACH        *)
(* preamble formats of the MATLAB convention (nrPRACHConfig.Format) the   *)
(* conversion matlab_to_srs_preamble_format documents as its input never  *)
(* reaches the fill loop or the detector.                                 *)
InvalidFormatRejected ==
  formatIn \notin MatlabPreambleFormats => pc \notin {"fill", "done"}

(* An invalid tag fails the current call only; it never ends the process. *)
InvalidTagNotFatal ==
  pc # "terminated"

(* A call on a restricted set returns a distinguishable "skipped" result  *)
(* in its one output rather than leaving the caller without it.           *)
SkippedCallReported ==
  pc = "skipped" => output # NoOutput

=============================================================================
