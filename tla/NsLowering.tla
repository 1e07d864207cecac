----------------------------- MODULE NsLowering -----------------------------
(***************************************************************************)
(* What the ns provider does with one operator of an exported graph: which *)
(* operators its quantizer annotates (src/aot/nsx_cortex_m/quantizer_ns.py)*)
(* and what each rewriting pass of NS_PASS_LIST makes of a node            *)
(* (passes_ns.py, pass_manager_ns.py).  A node keeps what the qualifiers   *)
(* look at; shapes, scales and multipliers are left out.                   *)
(*                                                                         *)
(*   op        the operator of the float model                             *)
(*   form      what stands for it now: the aten operator, an AOT-only      *)
(*             stub, a cortex_m_ns or a cortex_m operator, or nothing (it  *)
(*             was fused into the operator before it)                      *)
(*   args      its arguments: what the ns kernel supports, something it    *)
(*             does not (alpha # 1, a slope <= 0, rank > 4, a relu_q6 that *)
(*             is too small or too large), or no compile-time constants    *)
(*   shiftFits every requantization shift is within -31..31                *)
(*   perTensor the scales are scalars                                      *)
(*   quantized quantize and dequantize operators stand around it           *)
(*   int8      they were folded into it: it now takes int8 tensors         *)
(***************************************************************************)
EXTENDS Integers

Activations == {"relu", "clamp"}
Stubbable == {"mean", "leaky_relu"}
NsOps == {"sub", "hardswish"} \cup Stubbable \cup Activations
AllOps == NsOps \cup {"conv", "other"}

\* The argument classes each operator can meet.
ArgsOf(op) == CASE op \in Stubbable -> {"ok", "unsupported", "dynamic"}
                [] op \in {"sub", "hardswish"} -> {"ok", "unsupported"}
                [] op = "clamp" -> {"ok", "dynamic"}
                [] OTHER -> {"ok"}

\* The nodes of a model, which may have come quantized by whatever recipe, and those of
\* a float one.
RecipeNodes(Ops) ==
  {n \in [op : Ops, form : {"aten"}, args : {"ok", "unsupported", "dynamic"},
          shiftFits : BOOLEAN, perTensor : BOOLEAN, quantized : BOOLEAN,
          int8 : {FALSE}] :
     /\ n.args \in ArgsOf(n.op)
     /\ n.op \in {"conv", "other"} => n.shiftFits
     /\ ~n.quantized => n.perTensor}
FloatNodes(Ops) == {n \in RecipeNodes(Ops) : ~n.quantized}
----------------------------------------------------------------------------
(* The quantizer.                                                          *)

NsUnaryActivationCheck(n) == n.args # "dynamic"
NsLeakyReluCheck(n) == n.args = "ok"
NsMeanCheck(n) == n.args = "ok"

\* Whether the node may be, or may be left, annotated.  CortexMAddMulCheck is
\* the stock check, of which nothing is assumed about an alpha other than 1.
Annotations(n) ==
  CASE n.op \in Activations -> {NsUnaryActivationCheck(n)}
    [] n.op = "leaky_relu" -> {NsLeakyReluCheck(n)}
    [] n.op = "mean" -> {NsMeanCheck(n)}
    [] n.op = "sub" -> IF n.args = "ok" THEN {TRUE} ELSE BOOLEAN
    [] n.op \in {"hardswish", "conv"} -> {TRUE}
    [] OTHER -> {FALSE}
----------------------------------------------------------------------------
(* The passes, in the order of NS_PASS_LIST.                               *)

\* ExportPass traces every node again after a pass; these two operators
\* refuse int8 tensors, which is what their stubs are for.
RetraceFails(n) == n.op \in Stubbable /\ n.form = "aten" /\ n.int8

\* NsStubCapturePass.
CapturesLeakyOnly(n) ==                                          \* mutant
  IF n.op = "leaky_relu" THEN [n EXCEPT !.form = "stub"] ELSE n
StubCapture(n) ==
  IF n.op = "leaky_relu" \/ (n.op = "mean" /\ n.args # "dynamic")
  THEN [n EXCEPT !.form = "stub"] ELSE n

\* FoldAndAnnotateQParamsPass.
Fold(n) == [n EXCEPT !.int8 = n.quantized]

\* ActivationFusionPass may fuse n into the operator before it.
Fusable(prev, n) == /\ n.op \in Activations /\ n.form = "aten" /\ n.int8
                    /\ prev.op = "conv" /\ prev.int8

\* NsActivationRewritePass.
RewritesFloat(n) ==                                              \* mutant
  IF n.op \in Activations /\ n.form = "aten" /\ n.args # "dynamic"
  THEN [n EXCEPT !.form = "ns"] ELSE n
ActivationRewrite(n) ==
  IF /\ n.op \in Activations /\ n.form = "aten"
     /\ n.int8 /\ n.perTensor /\ n.args # "dynamic" /\ n.shiftFits
  THEN [n EXCEPT !.form = "ns"] ELSE n

\* QuantizedClampActivationPass may lower what is left of the activations.
Clampable(n) == n.op \in Activations /\ n.form = "aten" /\ n.int8

\* The _get_*_replacement qualifiers of NsQuantizedOpFusionPass.
Qualifies(n) ==
  /\ n.int8 /\ n.args = "ok" /\ n.perTensor
  /\ n.op # "sub" => n.shiftFits

\* They compute with the scales as numbers (float(scale), scale1 / max_scale_2x): a list
\* of scales, one per channel, raises once the arguments have passed.
QualifierRaises(n) ==
  /\ n.op \in NsOps \ Activations /\ n.int8 /\ ~n.perTensor
  /\ n.op = "hardswish" \/ n.args = "ok"

\* NsQuantizedOpFusionPass: lowered, or a stub reverted to its aten operator,
\* or left alone (the stock cases, the convolution among them, follow).
RevertsLeakyOnly(n) ==                                           \* mutant
  IF n.op \notin NsOps \ Activations THEN n
  ELSE IF Qualifies(n) THEN [n EXCEPT !.form = "ns"]
  ELSE IF n.op = "leaky_relu" THEN [n EXCEPT !.form = "aten"] ELSE n
QuantizedOpFusion(n) ==
  IF n.op \notin NsOps \ Activations THEN n
  ELSE [n EXCEPT !.form = IF Qualifies(n) THEN "ns" ELSE "aten"]

\* ConvertToCortexMPass and the stock fusion cases.
ConvertToCortexM(n) ==
  IF n.op = "conv" /\ n.int8 THEN [n EXCEPT !.form = "cortex_m"] ELSE n
=============================================================================
