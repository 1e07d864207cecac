--------------------------- MODULE ScratchLayout ---------------------------
(***************************************************************************)
(* The arithmetic of src/includes-private/nsx_cmsis_nn_compat.h: one       *)
(* buffer, asked for with one int32 size, is cut into the scratch area of  *)
(* a convolution and the weight-sum area ns-cmsis-nn wants beside it.      *)
(* Sizes are int32_t and signed overflow is undefined, so the sums below   *)
(* are the mathematical ones and what has to hold of them is that none     *)
(* ever leaves Int32.  MaxInt stands for INT32_MAX.                        *)
(***************************************************************************)
EXTENDS Integers

CONSTANT MaxInt

ASSUME MaxIntAssumption == MaxInt \in Nat /\ MaxInt >= 7 /\ (MaxInt + 1) % 4 = 0

Int32 == (-MaxInt - 1)..MaxInt

\* x & -4
RoundDown(x) == x - (x % 4)

UncheckedAlign(size) == RoundDown(size + 3)                 \* mutant
AlignedSize(size) ==
  IF size < 0 \/ size > MaxInt - 3 THEN -1 ELSE RoundDown(size + 3)

\* combined_size(), with the weight-sum size as an argument.
Unaligned(scratch, wsum) ==                                      \* mutant
  IF scratch < 0 \/ wsum < 0 \/ scratch > MaxInt - wsum THEN -1
  ELSE scratch + wsum
CombinedSize(scratch, wsum) ==
  IF scratch < 0 \/ wsum < 0 THEN -1
  ELSE IF wsum = 0 THEN scratch
  ELSE IF AlignedSize(scratch) < 0 \/ AlignedSize(scratch) > MaxInt - wsum THEN -1
  ELSE AlignedSize(scratch) + wsum

\* A cmsis_nn_context: where its bytes start (relative to the buffer; -1 is a
\* null pointer) and how many it has.
NullContext == [at |-> -1, size |-> 0]

\* split_context(): may the buffer be cut, and the two areas it is cut into.
MoreThanTotal(buf, scratch, wsum) ==                             \* mutant
  LET total == CombinedSize(scratch, wsum)
  IN  total = 0 \/ (buf.at >= 0 /\ buf.size > total)
SplitOk(buf, scratch, wsum) ==
  LET total == CombinedSize(scratch, wsum)
  IN  /\ total >= 0
      /\ total = 0 \/ (buf.at >= 0 /\ buf.size >= total)

ScratchArea(buf, scratch, wsum) ==
  IF CombinedSize(scratch, wsum) = 0 THEN NullContext
  ELSE [at |-> buf.at, size |-> scratch]

WeightsAtScratch(buf, scratch, wsum) ==                          \* mutant
  IF wsum = 0 THEN NullContext
  ELSE [at |-> buf.at + RoundDown(scratch), size |-> wsum]
WeightsAfterScratch(buf, scratch, wsum) ==                       \* mutant
  IF wsum = 0 THEN NullContext
  ELSE [at |-> buf.at + scratch, size |-> wsum]
WeightArea(buf, scratch, wsum) ==
  IF wsum = 0 THEN NullContext
  ELSE [at |-> buf.at + AlignedSize(scratch), size |-> wsum]

\* The bytes of an area.
Bytes(area) == area.at..(area.at + area.size - 1)
=============================================================================
