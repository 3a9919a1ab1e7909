----------------------- MODULE MC_MultiportChEstMex -----------------------
(* Small instance of the multiport channel estimator MEX call.            *)
EXTENDS MultiportChEstMex

MCPortIndexVals == 0..1
====
