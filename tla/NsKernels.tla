------------------------------ MODULE NsKernels ------------------------------
(***************************************************************************)
(* One quantized operator from its float form to its int8 result.  The     *)
(* passes of src/aot/nsx_cortex_m/passes_ns.py turn scales into integer    *)
(* multipliers and shifts, or decline; the kernels of src/ops-ns validate  *)
(* the instruction again, cut the tensors into calls of ns-cmsis-nn and    *)
(* check each call's status.  The integer arithmetic of ns-cmsis-nn and of *)
(* the stock helpers is external; operators_ns.py says in Python what the  *)
(* kernels compute, and is the reference here.                             *)
(*                                                                         *)
(* A scale is a rational <<n, d>>, a tensor a function from offsets in     *)
(* memory to int8 values, a shape the sizes in the logical order.  The     *)
(* widths of the code are constants: int8 is QMin..QMax, a multiplier has  *)
(* Frac fractional bits (31), Left is SHIFT_INT8 (20), a shift fits within *)
(* -MaxShift..MaxShift (31), an int32 within -IntMax..IntMax.              *)
(***************************************************************************)
EXTENDS Integers, Sequences, FiniteSets

CONSTANTS Problems,   \* sets of float operators to lower
          QMin, QMax, Frac, Left, MaxShift, MaxQ6, IntMax

VARIABLES
  pc,      \* lower, check, run; then portable, aborted, failed or done
  prob,    \* the float operator: op, shapes x and y, data xs and ys, quantization
           \* qx, qy and qo, and what else the operator takes
  inst,    \* the instruction it was lowered to
  offset,  \* broadcast_offset of the sub loop
  out,     \* the output tensor; Unwritten where nothing was written yet
  touched  \* history: the offsets accessed, by operand

vars == <<pc, prob, inst, offset, out, touched>>

Unwritten == QMax + 1
Kept == [target |-> "aten"]
Clip(v, lo, hi) == IF v < lo THEN lo ELSE IF v > hi THEN hi ELSE v
Least(a, b) == IF a < b THEN a ELSE b
Most(a, b) == IF a > b THEN a ELSE b
Abs(v) == Most(v, -v)
Numel(shape) == LET f[i \in 0..Len(shape)] == IF i = 0 THEN 1 ELSE shape[i] * f[i - 1]
                IN  f[Len(shape)]
Offsets(shape) == 0..(Numel(shape) - 1)

ChannelsOnly(shape) == Numel(shape) = shape[2]
IsChannelBroadcast(p) ==
  /\ Len(p.x) = 4 /\ Len(p.y) = 4 /\ p.x[2] = p.y[2]
  /\ ChannelsOnly(p.x) \/ ChannelsOnly(p.y)

Pow2(n) == LET f[i \in 0..n] == IF i = 0 THEN 1 ELSE 2 * f[i - 1] IN f[n]

\* int32 holds a value less a zero point times _HARDSWISH_MAX_RELU_Q6, and the
\* same shifted by SHIFT_INT8: 255 * 2^22 and 255 * 2^20 are below 2^31.
ASSUME WidthAssumption == /\ QMin \in Int /\ QMax \in Nat /\ QMin < 0
                          /\ Frac > 0 /\ MaxShift > 0
                          /\ {Frac, Left, MaxShift, MaxQ6, IntMax} \subseteq Nat
                          /\ (QMax - QMin) * MaxQ6 <= IntMax
                          /\ (QMax - QMin) * Pow2(Left) <= IntMax

Positive == Nat \ {0}
Rational == Int \X Positive
Quantization == [s : Positive \X Positive, z : QMin..QMax]

\* Tensors are as large as their shapes say, scales are positive and zero points
\* int8.  The shapes of sub are those quantized_sub_meta asserts, both with elements
\* or both without, and CortexMAddMulCheck annotates a channel broadcast of channels_last
\* tensors only (README.md:168); a mean of rank 0 never gets here (d % rank raises).
ASSUME ProblemAssumption ==
  \A p \in UNION Problems :
    /\ p.op \in {"sub", "hardswish", "mean", "leaky_relu", "relu"}
    /\ p.x \in Seq(Nat) /\ p.y \in Seq(Nat)
    /\ {p.qx, p.qy, p.qo} \subseteq Quantization
    /\ p.slope \in Rational /\ {p.lo, p.hi} \subseteq {<<>>} \cup Rational
    /\ p.xs \in [Offsets(p.x) -> QMin..QMax]
    /\ p.op = "mean" => Len(p.x) > 0 /\ p.dims \subseteq Int
    /\ p.op = "sub" => /\ p.ys \in [Offsets(p.y) -> QMin..QMax]
                       /\ p.x = p.y \/ IsChannelBroadcast(p)
                       /\ IsChannelBroadcast(p) => p.channelsLast
                       /\ Numel(p.x) = 0 <=> Numel(p.y) = 0

\* Rationals.
Times(a, b) == <<a[1] * b[1], a[2] * b[2]>>
Over(a, b) == <<a[1] * b[2], a[2] * b[1]>>
Below(a, b) == a[1] * b[2] < b[1] * a[2]
Whole(n) == <<n, 1>>

\* round(n / d) of Python: halves go to the even neighbour.
Round(r) == LET q == r[1] \div r[2]
                rest == 2 * (r[1] % r[2])
            IN  IF rest > r[2] \/ (rest = r[2] /\ q % 2 = 1) THEN q + 1 ELSE q

\* quantize_multiplier_aot: r = multiplier * 2^(shift - Frac), the exponent of frexp.
\* Past either end of Exponents it saturates: no shift out there fits.
Exponents == -(MaxShift + 1)..MaxShift
PowOf2(e) == IF e >= 0 THEN <<Pow2(e), 1>> ELSE <<1, Pow2(-e)>>
Exponent(r) == Cardinality({e \in Exponents : ~Below(r, PowOf2(e))}) - (MaxShift + 1)
QuantizeMultiplier(r) ==
  LET e == Exponent(r)
      m == Round(Over(Times(r, PowOf2(Frac)), PowOf2(e)))
  IN  IF m = Pow2(Frac) THEN [m |-> m \div 2, s |-> e + 1] ELSE [m |-> m, s |-> e]

\* requantize_cmsis: arm_nn_requantize, a rounding multiplication and a rounding
\* right shift (halves away from zero).
Requantize(v, p) ==
  LET high == (v * Pow2(Most(p.s, 0)) * p.m + Pow2(Frac - 1)) \div Pow2(Frac)
      right == Pow2(Most(-p.s, 0))
      threshold == (right - 1) \div 2 + (IF high < 0 THEN 1 ELSE 0)
  IN  high \div right + (IF high % right > threshold THEN 1 ELSE 0)

Identity == [m |-> Pow2(Frac - 1), s |-> 1]
ShiftFits(p) == p.s \in -MaxShift..MaxShift
AnyShift(p) == TRUE                                              \* mutant
ShiftQualifies(p) == ShiftFits(p)
AnyPositive(q6) == q6 >= 1                                       \* mutant
ReluQ6Qualifies(q6) == q6 \in 1..MaxQ6
QuantizeVal(r, q) == Clip(Round(Over(r, q.s)) + q.z, QMin, QMax)
-----------------------------------------------------------------------------
(* Ahead of time.                                                          *)

RequantPair(qi, qo) == IF qi = qo THEN Identity ELSE QuantizeMultiplier(Over(qi.s, qo.s))

SubReplacement(p) ==
  LET top == IF Below(p.qx.s, p.qy.s) THEN p.qy.s ELSE p.qx.s
      top2 == Times(Whole(2), top)
  IN  IF p.alpha # 1 THEN Kept
      ELSE [target |-> "sub", zx |-> p.qx.z, zy |-> p.qy.z, zo |-> p.qo.z,
            px |-> QuantizeMultiplier(Over(p.qx.s, top2)),
            py |-> QuantizeMultiplier(Over(p.qy.s, top2)),
            po |-> QuantizeMultiplier(Over(top2, Times(p.qo.s, PowOf2(Left)))),
            min |-> QMin, max |-> QMax]

HardswishReplacement(p) ==
  LET q3 == Round(Over(Whole(3), p.qx.s))
      q6 == Round(Over(Whole(6), p.qx.s))
      pair == QuantizeMultiplier(Over(Times(p.qx.s, p.qx.s),
                                      Times(Whole(6), p.qo.s)))
  IN  IF ~ReluQ6Qualifies(q6) \/ ~ShiftQualifies(pair) THEN Kept
      ELSE [target |-> "hardswish", zx |-> p.qx.z, zo |-> p.qo.z, po |-> pair,
            q3 |-> q3, q6 |-> q6]

\* The dimensions reduced, counted from the first one.
ReduceDims(p) == {d % Len(p.x) : d \in p.dims}

DimsReduced(p) == Cardinality(ReduceDims(p)) + 1                 \* mutant
ReduceCount(p) == Numel([k \in DOMAIN p.x |-> IF k - 1 \in ReduceDims(p) THEN p.x[k] ELSE 1])

\* The logical shape is right-aligned in four dimensions.
Padding(p) == 4 - Len(p.x)
MeanReplacement(p) ==
  LET dims == ReduceDims(p)
      count == ReduceCount(p)
      pair == QuantizeMultiplier(Over(p.qx.s, Times(p.qo.s, Whole(count))))
  IN  IF Len(p.x) > 4 \/ p.channelsLast \/ dims = {} THEN Kept
      ELSE IF count < 1 THEN Kept
      ELSE IF ~ShiftQualifies(pair) THEN Kept
      ELSE [target |-> "mean", zx |-> p.qx.z, zo |-> p.qo.z, po |-> pair,
            mask |-> [i \in 1..4 |-> i - Padding(p) - 1 \in dims]]

LeakyReluReplacement(p) ==
  LET pa == QuantizeMultiplier(Over(Times(p.qx.s, p.slope), p.qo.s))
      pi == RequantPair(p.qx, p.qo)
  IN  IF p.slope[1] <= 0 THEN Kept
      ELSE IF ~ShiftQualifies(pa) \/ ~ShiftQualifies(pi) THEN Kept
      ELSE [target |-> "leaky_relu", zx |-> p.qx.z, zo |-> p.qo.z, pa |-> pa,
            po |-> pi]

\* NsActivationRewritePass: a bound that is absent is the end of the range.
ActivationReplacement(p) ==
  LET pair == RequantPair(p.qx, p.qo)
      Bound(b, limit) == IF b = <<>> THEN limit ELSE QuantizeVal(b, p.qo)
  IN  IF ~ShiftQualifies(pair) THEN Kept
      ELSE [target |-> "relu", zx |-> p.qx.z, zo |-> p.qo.z, po |-> pair,
            min |-> Bound(p.lo, QMin), max |-> Bound(p.hi, QMax)]

Replacement(p) == CASE p.op = "sub" -> SubReplacement(p)
                    [] p.op = "hardswish" -> HardswishReplacement(p)
                    [] p.op = "mean" -> MeanReplacement(p)
                    [] p.op = "leaky_relu" -> LeakyReluReplacement(p)
                    [] p.op = "relu" -> ActivationReplacement(p)

Reduced(shape, dims) == [k \in DOMAIN shape |-> IF k - 1 \in dims THEN 1 ELSE shape[k]]

\* The shape of the result: the larger operand of sub, what mean leaves.
OutShape(p) ==
  CASE p.op = "sub" -> IF Numel(p.x) > Numel(p.y) THEN p.x ELSE p.y
    [] p.op = "mean" -> Reduced(p.x, ReduceDims(p))
    [] OTHER -> p.x

Init ==
  /\ pc = "lower" /\ prob \in UNION Problems /\ inst = Kept /\ offset = 0
  /\ out = [i \in Offsets(OutShape(prob)) |-> Unwritten]
  /\ touched = [x |-> {}, y |-> {}]

Lower ==
  /\ pc = "lower"
  /\ inst' = Replacement(prob)
  /\ pc' = IF inst' = Kept THEN "portable" ELSE "check"
  /\ UNCHANGED <<prob, offset, out, touched>>
-----------------------------------------------------------------------------
(* On the target.                                                          *)

\* cmsis_nn_dims of the input and of the result.
Dims(p) == [i \in 1..4 |-> IF i <= Padding(p) THEN 1 ELSE p.x[i - Padding(p)]]
OutDims(p) == [i \in 1..4 |-> IF inst.mask[i] THEN 1 ELSE Dims(p)[i]]

\* The checks of each kernel, on tensors of one dimension order.  A failed ET_CHECK
\* aborts.  frexp makes no multiplier that is not an int32.
IsInt8(z) == z \in QMin..QMax
Accepted(p) ==
  /\ IsInt8(inst.zx) /\ IsInt8(inst.zo)
  /\ inst.target = "sub" =>
       /\ p.x = p.y \/ IsChannelBroadcast(p)
       /\ IsChannelBroadcast(p) => p.channelsLast
       /\ IsInt8(inst.zy) /\ ShiftFits(inst.px) /\ ShiftFits(inst.py)
  /\ inst.target = "leaky_relu" => ShiftFits(inst.pa)
  /\ inst.target = "mean" =>
       /\ Len(p.x) <= 4 /\ ~p.channelsLast
       /\ Numel(OutShape(p)) = Numel(OutDims(p))
  /\ ShiftFits(inst.po)

Check ==
  /\ pc = "check"
  /\ pc' = IF Accepted(prob) THEN "run" ELSE "aborted"
  /\ UNCHANGED <<prob, inst, offset, out, touched>>

\* What the arithmetic of the kernels yields for one element.
SubElement(a, b, add) ==
  LET fx == Requantize((a + add.x) * Pow2(Left), inst.px)
      fy == Requantize((b + add.y) * Pow2(Left), inst.py)
  IN  Clip(Requantize(fx - fy, inst.po) + inst.zo, inst.min, inst.max)
ReluElement(a) == Clip(Requantize(a - inst.zx, inst.po) + inst.zo, inst.min, inst.max)
ClampElement(a) == Clip(a, inst.min, inst.max)
LeakyReluElement(a) ==
  LET x == a - inst.zx
  IN  Clip(Requantize(x, IF x >= 0 THEN inst.po ELSE inst.pa) + inst.zo, QMin, QMax)
HardswishProduct(a) == LET x == a - inst.zx IN x * Clip(x + inst.q3, 0, inst.q6)
HardswishElement(a) ==
  Clip(Requantize(HardswishProduct(a), inst.po) + inst.zo, QMin, QMax)
MeanElement(sum) == Clip(Requantize(sum, inst.po) + inst.zo, QMin, QMax)

\* Memory outside of an operand holds something.
At(data, i) == IF i \in DOMAIN data THEN data[i] ELSE QMax

SubsPerLoop(p) == IF IsChannelBroadcast(p) THEN p.x[2] ELSE Numel(OutShape(p))
BothAdvance(p) == [x |-> TRUE, y |-> TRUE]                       \* mutant
Advances(p) == [x |-> ~(IsChannelBroadcast(p) /\ ChannelsOnly(p.x)),
                y |-> ~(IsChannelBroadcast(p) /\ ChannelsOnly(p.y))]
NegatedOffsets == [x |-> -inst.zx, y |-> -inst.zy]

\* One call of arm_elementwise_sub_s8, on the block at broadcast_offset.
SubBlock ==
  /\ pc = "run" /\ inst.target = "sub" /\ offset < Numel(OutShape(prob))
  /\ LET n == SubsPerLoop(prob)
         ax == IF Advances(prob).x THEN offset ELSE 0
         ay == IF Advances(prob).y THEN offset ELSE 0
     IN  /\ out' = [i \in DOMAIN out |->
                      IF i \in offset..(offset + n - 1)
                      THEN SubElement(At(prob.xs, ax + i - offset),
                                      At(prob.ys, ay + i - offset), NegatedOffsets)
                      ELSE out[i]]
         /\ touched' = [x |-> touched.x \cup ax..(ax + n - 1),
                        y |-> touched.y \cup ay..(ay + n - 1)]
         /\ offset' = offset + n
  /\ UNCHANGED <<pc, prob, inst>>

SubDone ==
  /\ pc = "run" /\ inst.target = "sub" /\ offset >= Numel(OutShape(prob))
  /\ pc' = "done"
  /\ UNCHANGED <<prob, inst, offset, out, touched>>

\* Coordinate i of offset p in a row-major tensor with sizes dims.
Coord(dims, p, i) ==
  (p \div Numel(SubSeq(dims, i + 1, Len(dims)))) % dims[i]

\* The sum of the elements at offsets S, each less the zero point z.
CenteredSum(p, z, S) ==
  LET f[n \in 0..Numel(p.x)] ==
        IF n = 0 THEN 0 ELSE f[n - 1] + IF n - 1 \in S THEN p.xs[n - 1] - z ELSE 0
  IN  f[Numel(p.x)]

\* arm_mean_s8: an output element sums what agrees with it off the mask.
MeanRun ==
  LET Part(o) == {p \in DOMAIN prob.xs :
                    \A i \in 1..4 : ~inst.mask[i] =>
                      Coord(Dims(prob), p, i) = Coord(OutDims(prob), o, i)}
  IN  [o \in DOMAIN out |-> MeanElement(CenteredSum(prob, inst.zx, Part(o)))]

MultiplierOnly == inst.po = Identity                             \* mutant
IdentityRequant == inst.zx = inst.zo /\ inst.po = Identity
Each(Element(_)) == [i \in DOMAIN out |-> Element(prob.xs[i])]
ReluRun == IF IdentityRequant THEN Each(ClampElement) ELSE Each(ReluElement)
LeakyReluRun == Each(LeakyReluElement)
HardswishRun == Each(HardswishElement)

\* The kernels that make a single call.
SingleCall ==
  /\ pc = "run" /\ inst.target # "sub" /\ pc' = "done"
  /\ out' = CASE inst.target = "mean" -> MeanRun
              [] inst.target = "relu" -> ReluRun
              [] inst.target = "leaky_relu" -> LeakyReluRun
              [] inst.target = "hardswish" -> HardswishRun
  /\ touched' = [touched EXCEPT !.x = DOMAIN prob.xs]
  /\ UNCHANGED <<prob, inst, offset>>

\* ns-cmsis-nn may refuse any call; the wrapper fails the context and returns.
CallFails ==
  /\ pc = "run" /\ (inst.target = "sub" => offset < Numel(OutShape(prob)))
  /\ pc' = "failed"
  /\ UNCHANGED <<prob, inst, offset, out, touched>>

Next == Lower \/ Check \/ SubBlock \/ SubDone \/ SingleCall \/ CallFails
Spec == Init /\ [][Next]_vars
-----------------------------------------------------------------------------
(* What operators_ns.py computes for the instruction.                      *)

MaskDims(p) == {i - Padding(p) - 1 : i \in {j \in 1..4 : inst.mask[j] /\ j > Padding(p)}}
\* Where element i of the result finds its operand: NHWC order, channel last.
Broadcast(p, shape, i) ==
  IF IsChannelBroadcast(p) /\ ChannelsOnly(shape) THEN i % p.x[2] ELSE i

Summed(p, dims, o) ==
  {i \in DOMAIN p.xs : \A k \in DOMAIN p.x : k - 1 \notin dims =>
                         Coord(p.x, i, k) = Coord(Reduced(p.x, dims), o, k)}

SubReference(p, i) ==
  LET a == p.xs[Broadcast(p, p.x, i)] - inst.zx
      b == p.ys[Broadcast(p, p.y, i)] - inst.zy
      diff == Requantize(a * Pow2(Left), inst.px) - Requantize(b * Pow2(Left), inst.py)
  IN  Clip(Requantize(diff, inst.po) + inst.zo, inst.min, inst.max)

MeanReference(p, i) ==
  LET sum == CenteredSum(p, inst.zx, Summed(p, MaskDims(p), i))
  IN  Clip(Requantize(sum, inst.po) + inst.zo, QMin, QMax)

ReluReference(p, i) ==
  Clip(Requantize(p.xs[i] - inst.zx, inst.po) + inst.zo,
       Most(QMin, inst.min), Least(QMax, inst.max))

Reference(p, i) == CASE p.op = "sub" -> SubReference(p, i)
                     [] p.op = "mean" -> MeanReference(p, i)
                     [] p.op = "relu" -> ReluReference(p, i)
                     [] p.op = "leaky_relu" -> LeakyReluElement(p.xs[i])
                     [] p.op = "hardswish" -> HardswishElement(p.xs[i])
-----------------------------------------------------------------------------
(* Properties.                                                             *)

\* However an instruction's tensors are cut into kernel calls, and wherever a
\* call fails, what has been written is what the Python reference computes for
\* that element, and a finished operator has written all of them (the broadcast
\* loop of quantized_sub_out, the axis mask of quantized_mean_out, the clamp
\* shortcut of quantized_relu_out, the sign of every offset).
MatchesReference ==
  /\ \A i \in DOMAIN out : out[i] # Unwritten => out[i] = Reference(prob, i)
  /\ pc = "done" => \A i \in DOMAIN out : out[i] # Unwritten

\* No kernel call reaches past the end of an operand: the blocks of the
\* broadcast loop fit the operand that advances and the one that does not.
InBounds == /\ touched.x \subseteq DOMAIN prob.xs
            /\ touched.y \subseteq DOMAIN prob.ys

\* The result the float operator would have, in quanta of the output.
Real(q, v) == Times(q.s, Whole(v - q.z))
Plus(a, b) == <<a[1] * b[2] + b[1] * a[2], a[2] * b[2]>>
Between(r, lo, hi) ==
  IF lo # <<>> /\ Below(r, lo) THEN lo
  ELSE IF hi # <<>> /\ Below(hi, r) THEN hi ELSE r
FloatResult(p, i) ==
  CASE p.op = "sub" -> Plus(Real(p.qx, p.xs[Broadcast(p, p.x, i)]),
                            Times(<<-1, 1>>, Real(p.qy, p.ys[Broadcast(p, p.y, i)])))
    [] p.op = "mean" ->
         LET part == Summed(p, ReduceDims(p), i)
         IN  Over(Times(p.qx.s, Whole(CenteredSum(p, p.qx.z, part))),
                  Whole(Cardinality(part)))
    [] p.op = "relu" -> Between(Real(p.qx, p.xs[i]), p.lo, p.hi)
    [] p.op = "leaky_relu" ->
         LET r == Real(p.qx, p.xs[i])
         IN  IF r[1] >= 0 THEN r ELSE Times(p.slope, r)
    [] p.op = "hardswish" ->
         LET r == Real(p.qx, p.xs[i])
         IN  Over(Times(r, Between(Plus(r, Whole(3)), <<0, 1>>, <<6, 1>>)), Whole(6))

\* hardswish rounds 3 and 6 to quanta of the input, at most half a quantum off.
Slack(p, i) ==
  IF p.op = "hardswish"
  THEN Over(Times(Times(p.qx.s, p.qx.s), Whole(Abs(p.xs[i] - p.qx.z))),
            Times(Whole(12), p.qo.s))
  ELSE <<0, 1>>

\* A lowered operator computes the float operator to within one quantum of its
\* output (and what rounding the constants of hardswish costs), for every pair
\* of scales and zero points the qualifiers accept.
CloseToFloat ==
  pc = "done" =>
    \A i \in DOMAIN out :
      LET ideal == Plus(Over(FloatResult(prob, i), prob.qo.s), Whole(prob.qo.z))
          most == Plus(Between(ideal, <<QMin, 1>>, <<QMax, 1>>), Slack(prob, i))
          least == Plus(Between(ideal, <<QMin, 1>>, <<QMax, 1>>),
                        Times(<<-1, 1>>, Slack(prob, i)))
      IN  /\ ~Below(Plus(most, Whole(1)), Whole(out[i]))
          /\ ~Below(Whole(out[i]), Plus(least, Whole(-1)))

\* The scales of a sub are so far apart that some ratio of its lowering leaves the
\* powers of two a shift reaches.
ScalesApart(p) ==
  LET top2 == Times(Whole(2), IF Below(p.qx.s, p.qy.s) THEN p.qy.s ELSE p.qx.s)
      result == Over(top2, Times(p.qo.s, PowOf2(Left)))
  IN  \/ Below(Times(p.qx.s, PowOf2(MaxShift)), p.qy.s)
      \/ Below(Times(p.qy.s, PowOf2(MaxShift)), p.qx.s)
      \/ Below(result, PowOf2(-MaxShift - 1))
      \/ ~Below(result, PowOf2(MaxShift - 1))

\* An instruction the passes made aborts on the target only if it is a sub and its
\* float scales are more than 2^31 apart: what the kernels check, the validators of
\* the stock helpers included, the qualifiers and ordinary scales ensure.  Of such a
\* sub passes_ns.py:5-8 ("never a broken cortex_m_ns op") is not true: unlike the
\* others, _get_sub_replacement (passes_ns.py:218) does not test its shifts.
LoweredIsAccepted == pc = "aborted" => prob.op = "sub" /\ ScalesApart(prob)

\* The products and shifted differences of the kernels fit an int32
\* (_HARDSWISH_MAX_RELU_Q6, SHIFT_INT8).
NoInt32Overflow ==
  pc = "run" =>
    /\ inst.target = "hardswish" =>
         \A i \in DOMAIN prob.xs : Abs(HardswishProduct(prob.xs[i])) <= IntMax
    /\ inst.target = "sub" =>
         /\ \A i \in DOMAIN prob.xs : Abs((prob.xs[i] - inst.zx) * Pow2(Left)) <= IntMax
         /\ \A i \in DOMAIN prob.ys : Abs((prob.ys[i] - inst.zy) * Pow2(Left)) <= IntMax
=============================================================================
