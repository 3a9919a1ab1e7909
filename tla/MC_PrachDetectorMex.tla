------------------------ MODULE MC_PrachDetectorMex ------------------------
(* Small instance of the PRACH detector MEX call: one tag of each kind    *)
(* per conversion outcome, a long, a short and an unsupported sample      *)
(* count, and detection lists of up to two of three preambles.            *)
EXTENDS PrachDetectorMex

MCRestrictedTags == {"UnrestrictedSet", "RestrictedSetTypeA", "UnrestrictedSetX"}
MCFormatTags == {"0", "3", "A1", "4"}
MCSampleCounts == {839, 139, 140}
MCPreambles == {0, 1, 63}
====
