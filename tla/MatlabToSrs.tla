---------------------------- MODULE MatlabToSrs ----------------------------
(***************************************************************************)
(* The conversions of matlab_to_srs.h that the modelled handlers call.    *)
(* A tag is a string; an srsRAN enumerator is the string of its name.      *)
(* srsran_terminate, which ends the whole process, is the value Terminate. *)
(***************************************************************************)

Terminate == "srsran_terminate"

(* matlab_to_srs_restricted_set *)
ToRestrictedSet(tag) ==
  CASE tag = "UnrestrictedSet"    -> "UNRESTRICTED"
    [] tag = "RestrictedSetTypeA" -> "TYPE_A"
    [] tag = "RestrictedSetTypeB" -> "TYPE_B"
    [] OTHER                      -> Terminate

(* matlab_to_srs_preamble_format: any other tag becomes OTHER.            *)
ToPreambleFormat(tag) ==
  CASE tag = "0" -> "FORMAT0"
    [] tag = "1" -> "FORMAT1"
    [] tag = "2" -> "FORMAT2"
    [] tag = "3" -> "FORMAT3"
    [] OTHER     -> "OTHER"

=============================================================================
