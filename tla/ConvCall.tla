------------------------------ MODULE ConvCall ------------------------------
(***************************************************************************)
(* One convolution, depthwise or transposed convolution kernel of stock    *)
(* ExecuTorch running against ns-cmsis-nn through the compatibility header *)
(* (src/includes-private/nsx_cmsis_nn_compat.h).  The stock kernel asks    *)
(* for a buffer size, gets that many bytes from the temporary allocator    *)
(* and calls the convolution; the header redirects both calls, so that the *)
(* size it answers at the first has to hold the two areas it cuts at the   *)
(* second, where the sizes are computed again.  `mem' says what each byte  *)
(* of the allocation holds, which is how one area is seen to spill.        *)
(***************************************************************************)
EXTENDS ScratchLayout

CONSTANTS Sizes,       \* what arm_*_get_buffer_size may answer
          WeightSums   \* what arm_convolve_s8_get_weights_sum_size may answer

ASSUME SizesAssumption == Sizes \subseteq Int32 /\ WeightSums \subseteq Int32

VARIABLES pc, kind, scratch, wsum,
          asked,    \* the buffer size the header answered
          buf,      \* the cmsis_nn_context the kernel passes
          mem,      \* what the bytes of the allocation hold
          status    \* what the kernel's call returned

cvars == <<pc, kind, scratch, wsum, asked, buf, mem, status>>

sArea == ScratchArea(buf, scratch, wsum)
wArea == WeightArea(buf, scratch, wsum)

Kinds == {"convolve", "depthwise", "transpose"}

Init ==
  /\ pc = "query" /\ kind \in Kinds
  /\ scratch \in Sizes /\ wsum \in WeightSums
  /\ asked = 0 /\ buf = NullContext /\ mem = [b \in 0..MaxInt |-> "junk"]
  /\ status = "none"

\* *_buffer_size(): the sizes depend on the layer's dimensions only.
Query ==
  /\ pc = "query"
  /\ asked' = CombinedSize(scratch, wsum)
  /\ pc' = "allocate"
  /\ UNCHANGED <<kind, scratch, wsum, buf, mem, status>>

\* The stock kernel: no buffer unless a positive size was asked for, and the
\* temporary allocator may have no room.
Allocate ==
  /\ pc = "allocate"
  /\ \/ /\ asked > 0
        /\ buf' = [at |-> 0, size |-> asked]
        /\ pc' = "split" /\ UNCHANGED status
     \/ /\ asked > 0
        /\ pc' = "done" /\ status' = "no_memory" /\ UNCHANGED buf
     \/ /\ asked <= 0
        /\ pc' = "split" /\ UNCHANGED <<buf, status>>
  /\ UNCHANGED <<kind, scratch, wsum, asked, mem>>

\* convolve(), depthwise() and transpose() up to the weight sum.
Split ==
  /\ pc = "split"
  /\ \/ /\ ~SplitOk(buf, scratch, wsum)
        /\ pc' = "done" /\ status' = "arg_error"
     \/ /\ SplitOk(buf, scratch, wsum)
        /\ pc' = IF wArea.size > 0 THEN "weights" ELSE "kernel"
        /\ UNCHANGED status
  /\ UNCHANGED <<kind, scratch, wsum, asked, buf, mem>>

Fill(area, what) == [b \in DOMAIN mem |-> IF b \in Bytes(area) THEN what ELSE mem[b]]

\* arm_depthwise_convolve_weight_sum() is given the scratch area to work in.
WeightScratch ==
  /\ pc = "weights" /\ kind = "depthwise"
  /\ pc' = "weight_sum"
  /\ mem' = Fill(sArea, "scratch")
  /\ UNCHANGED <<kind, scratch, wsum, asked, buf, status>>

WeightSum ==
  /\ \/ pc = "weights" /\ kind # "depthwise"
     \/ pc = "weight_sum"
  /\ \/ /\ mem' = Fill(wArea, "weights")
        /\ pc' = "kernel" /\ UNCHANGED status
     \/ /\ pc' = "done" /\ status' = "weight_error" /\ UNCHANGED mem
  /\ UNCHANGED <<kind, scratch, wsum, asked, buf>>

\* arm_*_wrapper_s8(): works in its scratch area and reads the weight sums
\* throughout.
Kernel ==
  /\ pc = "kernel"
  /\ mem' = Fill(sArea, "scratch")
  /\ pc' = "finish"
  /\ UNCHANGED <<kind, scratch, wsum, asked, buf, status>>

Finish ==
  /\ pc = "finish"
  /\ pc' = "done" /\ status' \in {"success", "kernel_error"}
  /\ UNCHANGED <<kind, scratch, wsum, asked, buf, mem>>

\* The next layer: other sizes, a fresh allocation.
NextCall ==
  /\ pc = "done"
  /\ pc' = "query" /\ kind' \in Kinds
  /\ scratch' \in Sizes /\ wsum' \in WeightSums
  /\ asked' = 0 /\ buf' = NullContext
  /\ mem' = [b \in 0..MaxInt |-> "junk"] /\ status' = "none"

Next == \/ Query \/ Allocate \/ Split \/ WeightScratch \/ WeightSum \/ Kernel
        \/ Finish \/ NextCall

Spec == Init /\ [][Next]_cvars
----------------------------------------------------------------------------
Context == [at : Int, size : Int]

\* Every variable holds a value of its type.
TypeOK ==
  /\ pc \in {"query", "allocate", "split", "weights", "weight_sum", "kernel",
             "finish", "done"}
  /\ kind \in Kinds /\ scratch \in Sizes /\ wsum \in WeightSums
  /\ asked \in Int32 /\ buf \in Context
  /\ mem \in [0..MaxInt -> {"junk", "scratch", "weights"}]
  /\ status \in {"none", "success", "kernel_error", "no_memory", "arg_error",
                 "weight_error"}

Cut == pc \in {"weights", "weight_sum", "kernel", "finish"}

\* Whatever the header is about to write to or hand out lies inside the bytes
\* that were allocated for it (combined_size answers enough for split_context).
AreasInsideBuffer ==
  Cut => \A b \in Bytes(sArea) \cup Bytes(wArea) : b \in Bytes(buf)

\* The weight sums are int32 values and start at an int32 boundary of the
\* allocation (aligned_size).
WeightSumsAligned == Cut /\ wArea.size > 0 => wArea.at % 4 = 0

\* While the convolution reads the weight sums, every one of them is what
\* the weight-sum kernel wrote there: neither the scratch of the depthwise
\* weight-sum kernel nor the convolution's own reaches into them.
WeightSumsSurvive ==
  pc \in {"kernel", "finish"} /\ wsum > 0 => \A b \in Bytes(wArea) : mem[b] = "weights"

\* A layer is refused by the header only if it answered -1 for it: a buffer of
\* the size it asked for is never too small, when the same sizes are computed
\* again, and a size it answered -1 for never reaches a kernel.
RefusedOnlyIfUnrepresentable ==
  /\ status = "arg_error" => asked = -1
  /\ Cut => asked >= 0

\* No addition of the header overflows, whatever the two size queries answer:
\* the sizes it computes and the end of the last area are int32 values.
NoOverflow == /\ AlignedSize(scratch) <= MaxInt
              /\ CombinedSize(scratch, wsum) <= MaxInt
              /\ Cut => wArea.at + wArea.size <= MaxInt
=============================================================================
