--------------------------- MODULE MCWlabSampler ----------------------------
(* Small instances of WlabSampler: integers of 6 bits, an hour of 4 minutes.*)
EXTENDS WlabSampler

MCThreshold == [s \in Series |-> IF s = "Temperature" THEN 2 ELSE 3]
(* Temperatures on both sides of 0 and of the threshold, one far away.      *)
MCValues == [s \in Series |->
               IF s = "Temperature" THEN {-3, 3, 4, 9} ELSE {4, 8}]
=============================================================================
