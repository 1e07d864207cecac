----------------------------- MODULE MCConvCall -----------------------------
(* Every scratch size of a 5-bit integer, with the two errors a size query  *)
(* may answer, against weight sums of one to three int32 channels, of none,  *)
(* and of sizes near the largest integer.                                    *)
EXTENDS ConvCall

AllSizes == {-MaxInt - 1} \cup (-1)..MaxInt
AllWeightSums == {-1, 0, 4, 8, 12, MaxInt - 2, MaxInt}
=============================================================================
