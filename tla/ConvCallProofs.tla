--------------------------- MODULE ConvCallProofs ---------------------------
(***************************************************************************)
(* Proofs about the layout of the convolution scratch buffer, for every    *)
(* integer width and every pair of sizes the two size queries may answer.  *)
(***************************************************************************)
EXTENDS ConvCall, TLAPS

USE MaxIntAssumption, SizesAssumption

LEMMA RoundDownFacts ==
  ASSUME NEW x \in Nat
  PROVE  /\ RoundDown(x) \in Nat
         /\ RoundDown(x) <= x /\ x - 3 <= RoundDown(x)
         /\ RoundDown(x) % 4 = 0
BY DEF RoundDown

LEMMA AlignedFacts ==
  ASSUME NEW s \in Int32
  PROVE  /\ AlignedSize(s) \in Int32
         /\ AlignedSize(s) >= 0 => /\ s >= 0 /\ s <= AlignedSize(s)
                                   /\ AlignedSize(s) % 4 = 0
         /\ AlignedSize(s) < 0 => AlignedSize(s) = -1
<1>1. CASE s < 0 \/ s > MaxInt - 3
  BY <1>1 DEF AlignedSize, Int32
<1>2. CASE ~(s < 0 \/ s > MaxInt - 3)
  <2>1. s \in Nat /\ s + 3 \in Nat /\ s + 3 <= MaxInt
    BY <1>2 DEF Int32
  <2>2. AlignedSize(s) = RoundDown(s + 3)
    BY <1>2 DEF AlignedSize
  <2>3. /\ RoundDown(s + 3) \in Nat /\ RoundDown(s + 3) <= s + 3
        /\ s <= RoundDown(s + 3) /\ RoundDown(s + 3) % 4 = 0
    BY <2>1, RoundDownFacts
  <2> QED BY <2>1, <2>2, <2>3 DEF Int32
<1> QED BY <1>1, <1>2

\* The size the header answers: an int32, -1 or the end of the last area.
LEMMA CombinedFacts ==
  ASSUME NEW s \in Int32, NEW w \in Int32
  PROVE  /\ CombinedSize(s, w) \in Int32
         /\ CombinedSize(s, w) = -1 \/ CombinedSize(s, w) >= 0
         /\ CombinedSize(s, w) >= 0 => s >= 0 /\ w >= 0
         /\ CombinedSize(s, w) >= 0 /\ w = 0 => CombinedSize(s, w) = s
         /\ CombinedSize(s, w) >= 0 /\ w > 0 =>
              /\ AlignedSize(s) >= 0
              /\ CombinedSize(s, w) = AlignedSize(s) + w
BY AlignedFacts DEF CombinedSize, Int32

LEMMA SizesTyped == TypeOK => scratch \in Int32 /\ wsum \in Int32
BY DEF TypeOK

Allocated == pc \in {"split", "weights", "weight_sum", "kernel", "finish"}

Initial == pc \in {"query", "allocate"} => buf = NullContext

\* The buffer has the size that was asked for, that size is the one the header
\* computes again, and past the split the sizes could be represented.
IInv ==
  /\ TypeOK
  /\ pc # "query" => asked = CombinedSize(scratch, wsum)
  /\ Allocated => buf = IF asked > 0 THEN [at |-> 0, size |-> asked]
                        ELSE NullContext
  /\ pc # "done" => status = "none"
  /\ Initial
  /\ Cut => asked >= 0
  /\ pc \in {"weights", "weight_sum"} => wsum > 0
  /\ WeightSumsSurvive
  /\ status = "arg_error" => asked = -1

\* The two areas of a buffer that was cut: inside it, aligned, disjoint.
LEMMA AreasLaidOut ==
  ASSUME IInv, Cut
  PROVE  /\ wsum > 0 => /\ wArea = [at |-> AlignedSize(scratch), size |-> wsum]
                        /\ sArea = [at |-> 0, size |-> scratch]
                        /\ scratch >= 0 /\ scratch <= AlignedSize(scratch)
                        /\ AlignedSize(scratch) % 4 = 0
                        /\ AlignedSize(scratch) + wsum = buf.size
                        /\ buf.at = 0
         /\ wsum = 0 => wArea = NullContext
         /\ wsum = 0 /\ scratch > 0 =>
              sArea = [at |-> 0, size |-> scratch] /\ buf = sArea
         /\ wsum = 0 /\ scratch = 0 => sArea = NullContext
         /\ scratch \in Nat /\ wsum \in Nat
<1>1. scratch \in Int32 /\ wsum \in Int32
  BY SizesTyped DEF IInv
<1>2. /\ asked = CombinedSize(scratch, wsum) /\ asked >= 0
      /\ buf = IF asked > 0 THEN [at |-> 0, size |-> asked] ELSE NullContext
  BY DEF IInv, Cut, Allocated
<1>3. scratch \in Nat /\ wsum \in Nat
  BY <1>1, <1>2, CombinedFacts DEF Int32
<1>4. CASE wsum > 0
  <2>1. /\ AlignedSize(scratch) >= 0 /\ AlignedSize(scratch) \in Int32
        /\ asked = AlignedSize(scratch) + wsum
        /\ scratch <= AlignedSize(scratch) /\ AlignedSize(scratch) % 4 = 0
    BY <1>1, <1>2, <1>4, CombinedFacts, AlignedFacts
  <2>2. buf = [at |-> 0, size |-> asked] /\ CombinedSize(scratch, wsum) # 0
    BY <1>2, <1>3, <1>4, <2>1 DEF Int32
  <2>3. wArea = [at |-> AlignedSize(scratch), size |-> wsum]
    BY <1>4, <2>1, <2>2 DEF wArea, WeightArea, Int32
  <2>4. sArea = [at |-> 0, size |-> scratch]
    BY <2>2 DEF sArea, ScratchArea
  <2> QED BY <1>3, <1>4, <2>1, <2>2, <2>3, <2>4
<1>5. CASE wsum = 0
  <2>1. asked = scratch
    BY <1>1, <1>2, <1>5, CombinedFacts
  <2> QED BY <1>2, <1>3, <1>5, <2>1 DEF wArea, WeightArea, sArea, ScratchArea
<1> QED BY <1>3, <1>4, <1>5

LEMMA FillTyped ==
  ASSUME TypeOK, NEW area, NEW what \in {"junk", "scratch", "weights"}
  PROVE  Fill(area, what) \in [0..MaxInt -> {"junk", "scratch", "weights"}]
BY DEF Fill, TypeOK
----------------------------------------------------------------------------
(* What each step leaves of the invariant.                                 *)

LEMMA AreasSame ==
  ASSUME buf' = buf, scratch' = scratch, wsum' = wsum
  PROVE  sArea' = sArea /\ wArea' = wArea
BY DEF sArea, wArea, ScratchArea, WeightArea, CombinedSize, AlignedSize, RoundDown

LEMMA InitIInv == Init => IInv
<1> SUFFICES ASSUME Init PROVE IInv
  OBVIOUS
<1>1. TypeOK
  BY DEF Init, TypeOK, NullContext, Context, Int32
<1> QED BY <1>1 DEF Init, IInv, Allocated, Cut, WeightSumsSurvive, Initial

\* The bytes of the two areas of a cut buffer are different ones.
LEMMA AreasDisjoint ==
  ASSUME IInv, Cut, wsum > 0
  PROVE  \A b \in Bytes(wArea) : b \in 0..MaxInt /\ b \notin Bytes(sArea)
<1>1. /\ wArea = [at |-> AlignedSize(scratch), size |-> wsum]
      /\ sArea = [at |-> 0, size |-> scratch]
      /\ scratch <= AlignedSize(scratch)
      /\ AlignedSize(scratch) + wsum = buf.size
      /\ scratch \in Nat /\ wsum \in Nat
  BY AreasLaidOut
<1>2. AlignedSize(scratch) \in Int32
  BY AlignedFacts, SizesTyped DEF IInv
<1>3. buf.size \in Int32
  <2>1. buf = [at |-> 0, size |-> asked] \/ buf = NullContext
    BY DEF IInv, Cut, Allocated
  <2> QED BY <2>1 DEF IInv, TypeOK, NullContext, Int32
<1> QED BY <1>1, <1>2, <1>3 DEF Bytes, Int32

LEMMA StepIInv == IInv /\ [Next]_cvars => IInv'
<1> SUFFICES ASSUME IInv, [Next]_cvars PROVE IInv'
  OBVIOUS
<1>1. CASE Query
  <2>1. asked' \in Int32
    BY <1>1, SizesTyped, CombinedFacts DEF Query, IInv
  <2>2. TypeOK'
    BY <1>1, <2>1 DEF Query, IInv, TypeOK
  <2>3. asked' = CombinedSize(scratch', wsum')
    BY <1>1 DEF Query
  <2> QED
    BY <1>1, <2>2, <2>3
       DEF Query, IInv, Allocated, Cut, WeightSumsSurvive, Initial
<1>2. CASE Allocate
  <2>1. asked' = asked /\ scratch' = scratch /\ wsum' = wsum /\ asked \in Int32
    BY <1>2 DEF Allocate, IInv, TypeOK
  <2>2. asked = CombinedSize(scratch, wsum) /\ pc = "allocate" /\ status = "none"
    BY <1>2 DEF Allocate, IInv
  <2>3. buf' \in Context
    BY <1>2, <2>1 DEF Allocate, IInv, TypeOK, Context, Int32
  <2>4. TypeOK'
    BY <1>2, <2>3 DEF Allocate, IInv, TypeOK
  <2>5. pc' \in {"split", "done"} /\ status' \in {"none", "no_memory"}
        /\ (pc' = "split" => status' = "none")
    BY <1>2, <2>2 DEF Allocate
  <2>6. pc' = "split" => buf' = IF asked > 0 THEN [at |-> 0, size |-> asked]
                                 ELSE NullContext
    <3>1. buf = NullContext
      BY <1>2 DEF Allocate, IInv, Initial
    <3> QED BY <1>2, <2>1, <3>1 DEF Allocate, Int32
  <2>7. asked' = CombinedSize(scratch', wsum')
    BY <2>1, <2>2
  <2> QED BY <2>1, <2>4, <2>5, <2>6, <2>7 DEF IInv, Allocated, Cut, WeightSumsSurvive, Initial
<1>3. CASE Split
  <2>1. UNCHANGED <<kind, scratch, wsum, asked, buf, mem>>
    BY <1>3 DEF Split
  <2>2. /\ asked = CombinedSize(scratch, wsum) /\ status = "none" /\ pc = "split"
        /\ buf = IF asked > 0 THEN [at |-> 0, size |-> asked] ELSE NullContext
    BY <1>3 DEF Split, IInv, Allocated
  <2>3. /\ scratch \in Int32 /\ wsum \in Int32
        /\ asked \in Int32 /\ (asked = -1 \/ asked >= 0)
    BY <2>2, SizesTyped, CombinedFacts DEF IInv
  <2>4. SplitOk(buf, scratch, wsum) <=> asked >= 0
    <3>1. SplitOk(buf, scratch, wsum) <=>
            asked >= 0 /\ (asked = 0 \/ (buf.at >= 0 /\ buf.size >= asked))
      BY <2>2 DEF SplitOk
    <3>2. asked > 0 => buf.at = 0 /\ buf.size = asked
      BY <2>2
    <3> QED BY <2>3, <3>1, <3>2 DEF Int32
  <2>5. CASE asked < 0
    <3>1. pc' = "done" /\ status' = "arg_error" /\ asked = -1
      BY <1>3, <2>2, <2>3, <2>4, <2>5 DEF Split, Int32
    <3>2. TypeOK'
      BY <2>1, <3>1 DEF IInv, TypeOK
    <3> QED BY <2>1, <2>2, <3>1, <3>2 DEF IInv, Allocated, Cut, WeightSumsSurvive, Initial
  <2>6. CASE asked >= 0
    <3>1. /\ pc' = IF wArea.size > 0 THEN "weights" ELSE "kernel"
          /\ status' = "none"
      BY <1>3, <2>2, <2>3, <2>4, <2>6 DEF Split
    <3>2. wsum >= 0 /\ (wArea.size > 0 <=> wsum > 0)
      BY <2>2, <2>3, <2>6, CombinedFacts DEF wArea, WeightArea, NullContext, Int32
    <3>3. TypeOK'
      BY <2>1, <3>1 DEF IInv, TypeOK
    <3>4. asked' = CombinedSize(scratch', wsum')
      BY <2>1, <2>2
    <3>5. (wsum > 0 => pc' = "weights") /\ pc' \in {"weights", "kernel"}
          /\ (pc' = "weights" => wsum > 0)
      BY <3>1, <3>2
    <3> QED
      BY <2>1, <2>2, <2>3, <2>6, <3>1, <3>3, <3>4, <3>5
         DEF IInv, Allocated, Cut, WeightSumsSurvive, Initial
  <2> QED BY <2>3, <2>5, <2>6 DEF Int32
<1>4. CASE WeightScratch
  <2>1. /\ UNCHANGED <<kind, scratch, wsum, asked, buf, status>>
        /\ pc = "weights" /\ pc' = "weight_sum"
    BY <1>4 DEF WeightScratch
  <2>2. mem' \in [0..MaxInt -> {"junk", "scratch", "weights"}]
    BY <1>4, FillTyped DEF WeightScratch, IInv
  <2>3. TypeOK'
    BY <2>1, <2>2 DEF IInv, TypeOK
  <2>4. asked' = CombinedSize(scratch', wsum')
    BY <2>1 DEF IInv
  <2> QED BY <2>1, <2>3, <2>4 DEF IInv, Allocated, Cut, WeightSumsSurvive, Initial
<1>5. CASE WeightSum
  <2>1. /\ UNCHANGED <<kind, scratch, wsum, asked, buf>>
        /\ pc \in {"weights", "weight_sum"} /\ status = "none"
        /\ asked = CombinedSize(scratch, wsum)
    BY <1>5 DEF WeightSum, IInv
  <2>2. asked' = CombinedSize(scratch', wsum')
    BY <2>1
  <2>3. CASE mem' = Fill(wArea, "weights") /\ pc' = "kernel" /\ UNCHANGED status
    <3>1. mem' \in [0..MaxInt -> {"junk", "scratch", "weights"}]
      BY <2>3, FillTyped DEF IInv
    <3>2. TypeOK'
      BY <2>1, <2>3, <3>1 DEF IInv, TypeOK
    <3>3. wsum > 0 => \A b \in Bytes(wArea) : mem'[b] = "weights"
      <4>1. wsum > 0 => \A b \in Bytes(wArea) : b \in 0..MaxInt
        BY <2>1, AreasDisjoint DEF Cut
      <4>2. DOMAIN mem = 0..MaxInt
        BY DEF IInv, TypeOK
      <4> QED BY <2>3, <4>1, <4>2 DEF Fill
    <3>4. WeightSumsSurvive'
      BY <2>1, <3>3, AreasSame DEF WeightSumsSurvive
    <3> QED BY <2>1, <2>2, <2>3, <3>2, <3>4 DEF IInv, Allocated, Cut, Initial
  <2>4. CASE pc' = "done" /\ status' = "weight_error" /\ UNCHANGED mem
    <3>1. TypeOK'
      BY <2>1, <2>4 DEF IInv, TypeOK
    <3> QED BY <2>1, <2>2, <2>4, <3>1 DEF IInv, Allocated, Cut, WeightSumsSurvive, Initial
  <2> QED BY <1>5, <2>3, <2>4 DEF WeightSum
<1>6. CASE Kernel
  <2>1. /\ UNCHANGED <<kind, scratch, wsum, asked, buf, status>>
        /\ pc = "kernel" /\ pc' = "finish" /\ mem' = Fill(sArea, "scratch")
    BY <1>6 DEF Kernel
  <2>2. mem' \in [0..MaxInt -> {"junk", "scratch", "weights"}]
    BY <2>1, FillTyped DEF IInv
  <2>3. TypeOK'
    BY <2>1, <2>2 DEF IInv, TypeOK
  <2>4. asked' = CombinedSize(scratch', wsum')
    BY <2>1 DEF IInv
  <2>5. wsum > 0 => \A b \in Bytes(wArea) : mem'[b] = "weights"
    <3>1. wsum > 0 => \A b \in Bytes(wArea) :
                         b \in 0..MaxInt /\ b \notin Bytes(sArea)
      BY <2>1, AreasDisjoint DEF Cut
    <3>2. wsum > 0 => \A b \in Bytes(wArea) : mem[b] = "weights"
      BY <2>1 DEF IInv, WeightSumsSurvive
    <3>3. DOMAIN mem = 0..MaxInt
      BY DEF IInv, TypeOK
    <3> QED BY <2>1, <3>1, <3>2, <3>3 DEF Fill
  <2>6. WeightSumsSurvive'
    BY <2>1, <2>5, AreasSame DEF WeightSumsSurvive
  <2> QED BY <2>1, <2>3, <2>4, <2>6 DEF IInv, Allocated, Cut, Initial
<1>7. CASE Finish
  <2>1. /\ UNCHANGED <<kind, scratch, wsum, asked, buf, mem>>
        /\ pc = "finish" /\ pc' = "done"
        /\ status' \in {"success", "kernel_error"}
    BY <1>7 DEF Finish
  <2>2. TypeOK'
    BY <2>1 DEF IInv, TypeOK
  <2>3. asked' = CombinedSize(scratch', wsum')
    BY <2>1 DEF IInv
  <2> QED BY <2>1, <2>2, <2>3 DEF IInv, Allocated, Cut, WeightSumsSurvive, Initial
<1>8. CASE NextCall
  <2>1. TypeOK'
    BY <1>8 DEF NextCall, TypeOK, NullContext, Context, Int32
  <2> QED BY <1>8, <2>1 DEF NextCall, IInv, Allocated, Cut, WeightSumsSurvive, Initial
<1>9. CASE UNCHANGED cvars
  <2>1. UNCHANGED <<pc, kind, scratch, wsum, asked, buf, mem, status>>
    BY <1>9 DEF cvars
  <2>2. TypeOK'
    BY <2>1 DEF IInv, TypeOK
  <2>3. WeightSumsSurvive'
    BY <2>1, AreasSame DEF IInv, WeightSumsSurvive
  <2>4. pc' # "query" => asked' = CombinedSize(scratch', wsum')
    BY <2>1 DEF IInv
  <2> QED BY <2>1, <2>2, <2>3, <2>4 DEF IInv, Allocated, Cut, Initial
<1> QED BY <1>1, <1>2, <1>3, <1>4, <1>5, <1>6, <1>7, <1>8, <1>9 DEF Next
----------------------------------------------------------------------------
(* The theorems.                                                           *)

\* IInv is an invariant of a kernel's calls into the header.
THEOREM LayoutInvariant == Spec => []IInv
BY InitIInv, StepIInv, PTL DEF Spec

\* Every variable keeps its type, whatever the size queries answer.
THEOREM TypeCorrect == Spec => []TypeOK
<1>1. IInv => TypeOK
  BY DEF IInv
<1> QED BY <1>1, LayoutInvariant, PTL

\* Both areas cut out of an allocation of the size combined_size() answered lie
\* inside it, for every pair of int32 sizes.
THEOREM AreasCorrect == Spec => []AreasInsideBuffer
<1>1. IInv => AreasInsideBuffer
  <2> SUFFICES ASSUME IInv, Cut,
                      NEW b \in Bytes(sArea) \cup Bytes(wArea)
               PROVE  b \in Bytes(buf)
    BY DEF AreasInsideBuffer
  <2>1. scratch \in Nat /\ wsum \in Nat
    BY AreasLaidOut
  <2>2. CASE wsum > 0
    <3>1. /\ wArea = [at |-> AlignedSize(scratch), size |-> wsum]
          /\ sArea = [at |-> 0, size |-> scratch]
          /\ scratch <= AlignedSize(scratch)
          /\ AlignedSize(scratch) + wsum = buf.size
          /\ buf.at = 0
      BY <2>2, AreasLaidOut
    <3>2. AlignedSize(scratch) \in Int
      BY AlignedFacts, SizesTyped DEF IInv, Int32
    <3> QED BY <2>1, <2>2, <3>1, <3>2 DEF Bytes
  <2>3. CASE wsum = 0 /\ scratch > 0
    <3>1. sArea = buf /\ wArea = NullContext
      BY <2>3, AreasLaidOut
    <3>2. Bytes(wArea) = {}
      BY <3>1 DEF Bytes, NullContext
    <3> QED BY <3>1, <3>2
  <2>4. CASE wsum = 0 /\ scratch = 0
    <3>1. sArea = NullContext /\ wArea = NullContext
      BY <2>4, AreasLaidOut
    <3> QED BY <3>1 DEF Bytes, NullContext
  <2> QED BY <2>1, <2>2, <2>3, <2>4
<1> QED BY <1>1, LayoutInvariant, PTL

\* The weight sums start at a multiple of four bytes.
THEOREM AlignmentCorrect == Spec => []WeightSumsAligned
<1>1. IInv => WeightSumsAligned
  <2> SUFFICES ASSUME IInv, Cut, wArea.size > 0 PROVE wArea.at % 4 = 0
    BY DEF WeightSumsAligned
  <2>1. wsum > 0
    BY AreasLaidOut DEF NullContext
  <2> QED BY <2>1, AreasLaidOut
<1> QED BY <1>1, LayoutInvariant, PTL

\* Nothing writes into the weight sums between their kernel and the end of the
\* convolution that reads them.
THEOREM WeightSumsCorrect == Spec => []WeightSumsSurvive
<1>1. IInv => WeightSumsSurvive
  BY DEF IInv
<1> QED BY <1>1, LayoutInvariant, PTL

\* A layer the header answered a size for is never refused when the buffer of
\* that size comes back.
THEOREM RefusalCorrect == Spec => []RefusedOnlyIfUnrepresentable
<1>1. IInv => RefusedOnlyIfUnrepresentable
  BY DEF IInv, RefusedOnlyIfUnrepresentable
<1> QED BY <1>1, LayoutInvariant, PTL

\* No int32 addition of the header overflows.
THEOREM OverflowFree == Spec => []NoOverflow
<1>1. IInv => NoOverflow
  <2> SUFFICES ASSUME IInv PROVE NoOverflow
    OBVIOUS
  <2>1. scratch \in Int32 /\ wsum \in Int32
    BY SizesTyped DEF IInv
  <2>2. AlignedSize(scratch) \in Int32 /\ CombinedSize(scratch, wsum) \in Int32
    BY <2>1, AlignedFacts, CombinedFacts
  <2>3. ASSUME Cut PROVE wArea.at + wArea.size <= MaxInt
    <3>1. wsum \in Nat
      BY <2>3, AreasLaidOut
    <3>2. CASE wsum > 0
      <4>1. asked = CombinedSize(scratch, wsum) /\ asked >= 0
        BY <2>3 DEF IInv, Cut
      <4>2. CombinedSize(scratch, wsum) = AlignedSize(scratch) + wsum
        BY <2>1, <3>2, <4>1, CombinedFacts
      <4>3. wArea = [at |-> AlignedSize(scratch), size |-> wsum]
        BY <2>3, <3>2, AreasLaidOut
      <4> QED BY <2>2, <4>2, <4>3 DEF Int32
    <3>3. CASE wsum = 0
      BY <2>3, <3>3, AreasLaidOut DEF NullContext
    <3> QED BY <3>1, <3>2, <3>3
  <2> QED BY <2>2, <2>3 DEF NoOverflow, Int32
<1> QED BY <1>1, LayoutInvariant, PTL
=============================================================================
