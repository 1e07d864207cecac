---------------------------- MODULE AotFlowProofs ----------------------------
(***************************************************************************)
(* Proofs about AotFlow, for graphs of any length, all requests and any    *)
(* number of calibration samples.                                          *)
(***************************************************************************)
EXTENDS AotFlow, TLAPS

USE AotAssumption DEF AotAssumption

Forms == {"aten", "stub", "ns", "cortex_m", "fused"}
Node == [op : AllOps, form : Forms, args : {"ok", "unsupported", "dynamic"},
         shiftFits : BOOLEAN, perTensor : BOOLEAN, quantized : BOOLEAN, int8 : BOOLEAN]

Asking == {"start", "export", "prepare", "calibrate"}
Float == Asking \cup {"edge", "stub", "stock"}
Folded == {"fuse", "rewrite", "clamp", "fusion", "convert"}
Ended == {"rejected", "no_boundary", "raised", "done"}
Stages == Float \cup {"fold"} \cup Folded \cup {"count"} \cup Ended
OfNs == {"stub", "fold"} \cup Folded

-----------------------------------------------------------------------------
(* One node *)

\* What no pass changes.
Same(m, n) == /\ m.op = n.op /\ m.args = n.args /\ m.shiftFits = n.shiftFits
              /\ m.perTensor = n.perTensor

\* What a node may look like at each stage.
LoweredTo(l, n) ==
    /\ n.form = "stub" => n.op \in Stubbable
    /\ n.form = "ns" => n.int8
    /\ l \in Float => n.form = "aten" /\ ~n.int8
    /\ l = "fold" => n.form \in {"aten", "stub"} /\ ~n.int8
    /\ l \in {"convert", "count", "done"} => n.form # "stub"

\* ... one the quantizer annotated, in an export that quantized the model itself,
OwnNode(l, n) ==
    /\ n.perTensor /\ n.args = "ok" /\ n.shiftFits /\ n.op # "other"
    /\ l \in Stages \ (Asking \cup {"rejected"}) => n.quantized
    /\ l \in Folded \cup {"count", "done"} => n.int8
    /\ n.op \in Stubbable /\ l \in {"fold", "fuse", "rewrite", "clamp", "fusion"}
         => n.form = "stub"
    /\ n.op \in Activations /\ l \in {"fold", "fuse"} => n.form = "aten"
    /\ n.op \in Activations /\ l = "rewrite" => n.form \in {"aten", "fused"}
    /\ n.op \in Activations /\ l \in {"clamp", "fusion", "convert", "count", "done"}
         => n.form \in {"ns", "fused", "cortex_m"}
    /\ n.op \in NsOps \ Activations /\ l \in {"convert", "count", "done"} => n.form = "ns"
    /\ n.op = "conv" /\ l \in {"count", "done"} => n.form = "cortex_m"

\* ... and one it did not.
OtherNode(n) == ~n.quantized /\ ~n.int8

\* What a pass has to do to a node, from one stage to the next.
Lowers(l, n, next, m) ==
    /\ m \in Node /\ Same(m, n) /\ LoweredTo(next, m)
    /\ OwnNode(l, n) => OwnNode(next, m) /\ ~RetraceFails(m)
    /\ OtherNode(n) => OtherNode(m) /\ ~RetraceFails(m)

LEMMA RecipeTyped ==
    ASSUME NEW n \in RecipeNodes(AllOps)
    PROVE  /\ n \in Node /\ n.form = "aten" /\ ~n.int8
           /\ ~n.quantized => n.perTensor
BY DEF RecipeNodes, Node, Forms

LEMMA StubCaptureNode ==
    ASSUME NEW n \in Node, LoweredTo("stub", n)
    PROVE  Lowers("stub", n, "fold", StubCapture(n))
BY DEF StubCapture, Lowers, Node, Same, LoweredTo, OwnNode, OtherNode, RetraceFails, Forms, Float,
       Folded, Asking, Ended, Stages, Stubbable, Activations, NsOps, AllOps

LEMMA FoldNode ==
    ASSUME NEW n \in Node, LoweredTo("fold", n)
    PROVE  Lowers("fold", n, "fuse", Fold(n))
BY DEF Fold, Lowers, Node, Same, LoweredTo, OwnNode, OtherNode, RetraceFails, Forms, Float,
       Folded, Asking, Ended, Stages, Stubbable, Activations, NsOps, AllOps

LEMMA RewrittenNode ==
    ASSUME NEW n \in Node, LoweredTo("rewrite", n)
    PROVE  Lowers("rewrite", n, "clamp", ActivationRewrite(n))
BY DEF ActivationRewrite, Lowers, Node, Same, LoweredTo, OwnNode, OtherNode, RetraceFails, Forms, Float,
       Folded, Asking, Ended, Stages, Stubbable, Activations, NsOps, AllOps

LEMMA FusionNode ==
    ASSUME NEW n \in Node, LoweredTo("fusion", n)
    PROVE  Lowers("fusion", n, "convert", QuantizedOpFusion(n))
BY DEF QuantizedOpFusion, Qualifies, Lowers, Node, Same, LoweredTo, OwnNode, OtherNode, RetraceFails, Forms, Float,
       Folded, Asking, Ended, Stages, Stubbable, Activations, NsOps, AllOps

LEMMA ConvertedNode ==
    ASSUME NEW n \in Node, LoweredTo("convert", n)
    PROVE  Lowers("convert", n, "count", ConvertToCortexM(n))
BY DEF ConvertToCortexM, Lowers, Node, Same, LoweredTo, OwnNode, OtherNode, RetraceFails, Forms, Float,
       Folded, Asking, Ended, Stages, Stubbable, Activations, NsOps, AllOps

LEMMA FusedNode ==
    ASSUME NEW n \in Node, LoweredTo("fuse", n)
    PROVE  /\ Lowers("fuse", n, "rewrite", n)
           /\ n.op \in Activations /\ n.form = "aten" /\ n.int8 => Lowers("fuse", n, "rewrite", [n EXCEPT !.form = "fused"])
BY DEF Lowers, Node, Same, LoweredTo, OwnNode, OtherNode, RetraceFails, Forms, Float,
       Folded, Asking, Ended, Stages, Stubbable, Activations, NsOps, AllOps

LEMMA ClampedNode ==
    ASSUME NEW n \in Node, LoweredTo("clamp", n)
    PROVE  /\ Lowers("clamp", n, "fusion", n)
           /\ Clampable(n) => Lowers("clamp", n, "fusion", [n EXCEPT !.form = "cortex_m"])
BY DEF Clampable, Lowers, Node, Same, LoweredTo, OwnNode, OtherNode, RetraceFails, Forms, Float,
       Folded, Asking, Ended, Stages, Stubbable, Activations, NsOps, AllOps

-----------------------------------------------------------------------------
(* The export *)

\* The graph keeps its nodes and what no pass changes of them.
Graph ==
    /\ pc \in Stages
    /\ DOMAIN graph = DOMAIN origin
    /\ annot \subseteq Nodes
    /\ \A i \in Nodes : /\ graph[i] \in Node /\ origin[i] \in RecipeNodes(AllOps)
                        /\ Same(graph[i], origin[i])
    /\ pc \in Asking => graph = origin

\* Which provider the passes run for.
Provider == /\ pc \in OfNs => req.provider = "ns"
            /\ pc = "stock" => req.provider # "ns"

Lowering ==
    \A i \in Nodes : /\ LoweredTo(pc, graph[i])
                     /\ graph[i].form = "ns" => req.provider = "ns"

\* The model came as a float one, for the ns provider, and everything the quantizer
\* annotated is something its kernels support.
Own == /\ ~CameQuantized /\ req.provider = "ns"
       /\ \A i \in annot : graph[i].args = "ok" /\ graph[i].shiftFits
OwnLowering ==
    Own => /\ pc # "raised"
           /\ \A i \in Nodes : IF i \in annot THEN OwnNode(pc, graph[i])
                             ELSE OtherNode(graph[i])

\* Where the samples are, when somebody gave some.
SamplesCounted ==
    /\ observed \in Nat /\ samples \in Int
    /\ pc = "start" => observed = 0
    /\ req.calibration = "samples" =>
        /\ pc \in {"export", "prepare"} => samples = Samples /\ observed = 0
        /\ pc = "calibrate" => samples \in Nat /\ samples + observed = Samples
        /\ pc \in Stages \ (Asking \cup {"rejected"}) => observed = Samples

IInv == Graph /\ Provider /\ Lowering /\ OwnLowering /\ SamplesCounted

LEMMA InitInv == Init => IInv
<1> SUFFICES ASSUME Init PROVE IInv
  OBVIOUS
<1>1. \A i \in Nodes : graph[i] \in RecipeNodes(AllOps)
  BY DEF Init, Nodes
<1>2. \A i \in Nodes : /\ graph[i] \in Node /\ graph[i].form = "aten" /\ ~graph[i].int8
                       /\ ~graph[i].quantized => graph[i].perTensor
  BY <1>1, RecipeTyped
<1>3. Graph
  BY <1>1, <1>2 DEF Init, Graph, Same, Stages, Float, Asking
<1>4. Provider /\ SamplesCounted
  BY DEF Init, Provider, OfNs, Folded, SamplesCounted, NoSamples, Stages, Asking
<1>5. Lowering
  BY <1>2 DEF Init, Lowering, LoweredTo, Float, Asking
<1>6. OwnLowering
  BY <1>2 DEF Init, OwnLowering, Own, CameQuantized, OtherNode, Nodes
<1> QED BY <1>3, <1>4, <1>5, <1>6 DEF IInv

\* Steps that leave the graph alone: the refusals, the calibration, the report.
LEMMA SameGraph ==
    ASSUME IInv, UNCHANGED <<req, graph, annot, origin>>, pc' \in Stages,
           pc' \in Asking => pc \in Asking,
           pc' \in OfNs => req.provider = "ns", pc' = "stock" => req.provider # "ns",
           pc' # "raised", pc' # "fold", pc' \notin Folded,
           pc' \in Float => pc \in Float,
           pc' \in {"count", "done"} => pc = "count",
           pc' \in Stages \ (Asking \cup {"rejected"}) =>
             pc \notin Asking \cup {"rejected"} \/ CameQuantized
    PROVE  (Graph /\ Provider /\ Lowering /\ OwnLowering)'
<1>1. Graph'
  BY DEF IInv, Graph, Nodes, Same
<1>2. Provider'
  BY DEF Provider
<1>3. Lowering'
  BY DEF IInv, Lowering, LoweredTo, Nodes, Folded
<1>4. OwnLowering'
  <2> SUFFICES ASSUME Own', NEW i \in Nodes
               PROVE  IF i \in annot THEN OwnNode(pc', graph[i]) ELSE OtherNode(graph[i])
    BY DEF OwnLowering, Nodes
  <2>1. Own
    BY DEF Own, CameQuantized
  <2>2. pc \in Stages /\ IF i \in annot THEN OwnNode(pc, graph[i]) ELSE OtherNode(graph[i])
    BY <2>1 DEF IInv, Graph, OwnLowering
  <2> QED
    BY <2>1, <2>2 DEF Own, OwnNode, Stages, Float, Asking, Folded, Ended
<1> QED BY <1>1, <1>2, <1>3, <1>4

LEMMA CompileInv == IInv /\ Compile => IInv'
<1> SUFFICES ASSUME IInv, Compile PROVE IInv'
  OBVIOUS
<1>1. (Graph /\ Provider /\ Lowering /\ OwnLowering)'
  BY SameGraph DEF Compile, Stages, Asking, Float, Ended, OfNs, Folded
<1>2. SamplesCounted'
  BY DEF IInv, Graph, SamplesCounted, Compile, Given, NoSamples, Stages, Asking, Float,
         Folded, Ended
<1> QED BY <1>1, <1>2 DEF IInv

LEMMA CallExportInv == IInv /\ CallExport => IInv'
<1> SUFFICES ASSUME IInv, CallExport PROVE IInv'
  OBVIOUS
<1>1. (Graph /\ Provider /\ Lowering /\ OwnLowering)'
  BY SameGraph DEF CallExport, Stages, Asking, Float, Ended, OfNs, Folded
<1>2. SamplesCounted'
  BY DEF IInv, SamplesCounted, CallExport, Given, NoSamples, Stages, Asking, Float,
         Folded, Ended
<1> QED BY <1>1, <1>2 DEF IInv

LEMMA StartExportInv == IInv /\ StartExport => IInv'
<1> SUFFICES ASSUME IInv, StartExport PROVE IInv'
  OBVIOUS
<1>1. graph = origin
  BY DEF IInv, Graph, StartExport, Asking
<1>2. (Graph /\ Provider /\ Lowering /\ OwnLowering)'
  BY <1>1, SameGraph DEF StartExport, Stages, Asking, Float, Ended, OfNs, Folded, IsQuantized,
                         CameQuantized
<1>3. SamplesCounted'
  BY DEF IInv, SamplesCounted, StartExport, CalibrationRefused, NoSamples, Stages, Asking,
         Float, Folded, Ended
<1> QED BY <1>2, <1>3 DEF IInv

LEMMA PrepareInv == IInv /\ Prepare => IInv'
<1> SUFFICES ASSUME IInv, Prepare PROVE IInv'
  OBVIOUS
<1>1. graph = origin
  BY DEF IInv, Graph, Prepare, Asking
<1>2. Graph'
  BY DEF IInv, Graph, Prepare, Nodes, Stages, Float, Asking, Same
<1>3. (Provider /\ SamplesCounted)'
  BY DEF IInv, Provider, OfNs, Folded, SamplesCounted, Prepare, Stages, Float,
         Asking, Ended
<1>4. Lowering'
  BY DEF IInv, Lowering, LoweredTo, Prepare, Nodes, Folded, Float, Asking
<1>5. OwnLowering'
  <2> SUFFICES ASSUME Own', NEW i \in Nodes 
               PROVE  IF i \in annot' THEN OwnNode("calibrate", graph[i]) ELSE OtherNode(graph[i])
    BY DEF OwnLowering, Prepare, Nodes
  <2>1. graph[i] \in RecipeNodes(AllOps) /\ ~graph[i].quantized
    BY <1>1 DEF IInv, Graph, Own, CameQuantized, Prepare, Nodes
  <2>2. i \in annot' => TRUE \in Annotations(graph[i])
    BY DEF Own, Prepare
  <2>3. i \in annot' => graph[i].op # "other"
    BY <2>1, <2>2 DEF Annotations, Activations, RecipeNodes, AllOps, NsOps
  <2>4. i \in annot' => graph[i].args = "ok" /\ graph[i].shiftFits
    BY DEF Own, Prepare
  <2> QED
    BY <2>1, <2>3, <2>4, RecipeTyped DEF OwnNode, OtherNode, Asking, Folded
<1> QED BY <1>2, <1>3, <1>4, <1>5 DEF IInv

LEMMA CalibrateInv == IInv /\ (Calibrate \/ CalibrateOnExample) => IInv'
<1> SUFFICES ASSUME IInv, Calibrate \/ CalibrateOnExample PROVE IInv'
  OBVIOUS
<1>1. (Graph /\ Provider /\ Lowering /\ OwnLowering)'
  BY SameGraph DEF Calibrate, CalibrateOnExample, Stages, Asking, Float, Ended, OfNs, Folded,
                   IInv, Graph
<1>2. SamplesCounted'
  BY DEF IInv, SamplesCounted, Calibrate, CalibrateOnExample, NoSamples, Stages, Asking,
         Float, Folded, Ended
<1> QED BY <1>1, <1>2 DEF IInv

LEMMA ToEdgeInv == IInv /\ ToEdge => IInv'
<1> SUFFICES ASSUME IInv, ToEdge PROVE IInv'
  OBVIOUS
<1>1. pc = "edge" /\ pc' \in {"no_boundary", "stub", "stock"}
  BY DEF ToEdge
<1>2. /\ UNCHANGED <<req, graph, annot, samples, observed, origin>>
      /\ pc' = "stub" => req.provider = "ns"
      /\ pc' = "stock" => req.provider # "ns"
  BY DEF ToEdge
<1>3. (Graph /\ Provider /\ Lowering /\ OwnLowering)'
  BY <1>1, <1>2, SameGraph DEF Stages, Asking, Float, Ended, OfNs, Folded
<1>4. SamplesCounted'
  BY <1>1, <1>2 DEF IInv, SamplesCounted, Stages, Asking, Float, Folded, Ended
<1> QED BY <1>3, <1>4 DEF IInv

LEMMA ConvertInv == IInv /\ Convert => IInv'
<1> SUFFICES ASSUME IInv, Convert PROVE IInv'
  OBVIOUS
<1> DEFINE g == [i \in Nodes |-> [graph[i] EXCEPT !.quantized = i \in annot]]
<1>1. pc = "calibrate" /\ pc' = "edge" /\ graph' = g
      /\ UNCHANGED <<req, annot, samples, observed, io, result, origin>>
  BY DEF Convert
<1>2. DOMAIN g = Nodes
  OBVIOUS
<1>3. ASSUME NEW i \in Nodes
      PROVE  /\ g[i] \in Node /\ Same(g[i], graph[i])
             /\ g[i].form = graph[i].form /\ g[i].int8 = graph[i].int8
             /\ g[i].quantized <=> i \in annot
  <2>1. graph[i] \in Node
    BY DEF IInv, Graph
  <2>2. g[i] = [graph[i] EXCEPT !.quantized = i \in annot]
    OBVIOUS
  <2> HIDE DEF g
  <2>3. CASE i \in annot
    <3>1. g[i] = [graph[i] EXCEPT !.quantized = TRUE]
      BY <2>2, <2>3
    <3> QED
      BY <2>1, <2>3, <3>1 DEF Node, Same
  <2>4. CASE i \notin annot
    <3>0. (i \in annot) = FALSE
      BY <2>4
    <3>1. g[i] = [graph[i] EXCEPT !.quantized = FALSE]
      BY <2>2, <3>0, Zenon
    <3> QED
      BY <2>1, <2>4, <3>1 DEF Node, Same
  <2> QED
    BY <2>3, <2>4
<1> HIDE DEF g
<1>4. Graph'
  BY <1>1, <1>2, <1>3 DEF IInv, Graph, Nodes, Same, Stages, Float, Asking
<1>5. (Provider /\ SamplesCounted)'
  BY <1>1 DEF IInv, Provider, OfNs, Folded, Convert, SamplesCounted, Stages, Float,
              Asking, Ended
<1>6. Lowering'
  BY <1>1, <1>2, <1>3 DEF IInv, Lowering, LoweredTo, Nodes, Folded, Float, Asking
<1>7. OwnLowering'
  <2> SUFFICES ASSUME Own', NEW i \in Nodes 
               PROVE  IF i \in annot THEN OwnNode("edge", g[i]) ELSE OtherNode(g[i])
    BY <1>1, <1>2 DEF OwnLowering, Nodes
  <2>1. Own
    BY <1>1, <1>2, <1>3 DEF IInv, Graph, Own, CameQuantized, Same, Nodes
  <2>2. IF i \in annot THEN OwnNode("calibrate", graph[i]) ELSE OtherNode(graph[i])
    BY <1>1, <2>1 DEF IInv, OwnLowering
  <2> QED
    BY <1>3, <2>2 DEF OwnNode, OtherNode, Same, Folded
<1> QED BY <1>4, <1>5, <1>6, <1>7 DEF IInv

\* A pass keeps the invariant when what it does to each node does.
LEMMA PassInv ==
    ASSUME IInv, NEW l \in OfNs, NEW next \in Folded \cup {"fold", "count"}, NEW g,
           Pass(l, next, g), DOMAIN g = Nodes,
           \A i \in Nodes : Lowers(l, graph[i], next, g[i])
    PROVE  IInv'
<1>1. /\ pc = l /\ graph' = g
      /\ \/ pc' = next
         \/ pc' = "raised" /\ \E i \in Nodes : RetraceFails(g[i])
      /\ UNCHANGED <<req, annot, samples, observed, io, result, origin>>
  BY DEF Pass
<1>0. req.provider = "ns"
  BY <1>1 DEF IInv, Provider
<1> USE <1>0 DEF Lowers
<1>2. Graph'
  BY <1>1 DEF IInv, Graph, Nodes, Same, Stages, Float, Asking, Folded, Ended, OfNs
<1>3. (Provider /\ SamplesCounted)'
  BY <1>1 DEF IInv, Provider, OfNs, Folded, SamplesCounted, Stages, Float,
              Asking, Ended
<1>4. Lowering'
  BY <1>1 DEF Lowering, LoweredTo, Nodes, Float, Folded, Asking
<1>5. OwnLowering'
  <2> SUFFICES ASSUME Own'
               PROVE  /\ pc' # "raised"
                      /\ \A i \in Nodes : IF i \in annot THEN OwnNode(pc', g[i])
                                        ELSE OtherNode(g[i])
    BY <1>1 DEF OwnLowering, Nodes
  <2>1. Own
    BY <1>1 DEF IInv, Graph, Own, CameQuantized, Same, Nodes
  <2>2. \A i \in Nodes : IF i \in annot THEN OwnNode(l, graph[i]) ELSE OtherNode(graph[i])
    BY <1>1, <2>1 DEF IInv, OwnLowering
  <2>3. \A i \in Nodes : /\ IF i \in annot THEN OwnNode(next, g[i]) ELSE OtherNode(g[i])
                         /\ ~RetraceFails(g[i])
    BY <2>2
  <2> QED
    BY <1>1, <2>3 DEF Folded
<1> QED BY <1>2, <1>3, <1>4, <1>5 DEF IInv

LEMMA NodesLowered ==
    ASSUME IInv
    PROVE  \A i \in Nodes : graph[i] \in Node /\ LoweredTo(pc, graph[i])
BY DEF IInv, Graph, Lowering

LEMMA NsPassInv == IInv /\ NsPass => IInv'
<1> SUFFICES ASSUME IInv, NsPass PROVE IInv'
  OBVIOUS
<1>1. CASE Pass("stub", "fold", Each(StubCapture))
  <2> DEFINE g == Each(StubCapture)
  <2>1. Pass("stub", "fold", g) /\ pc = "stub" /\ DOMAIN g = Nodes
        /\ \A i \in Nodes : g[i] = StubCapture(graph[i])
    BY <1>1 DEF Pass, Each
  <2> HIDE DEF g
  <2>2. \A i \in Nodes : Lowers("stub", graph[i], "fold", g[i])
    BY <2>1, NodesLowered, StubCaptureNode
  <2> QED
    BY <2>1, <2>2, PassInv DEF OfNs, Folded
<1>2. CASE Pass("fold", "fuse", Each(Fold))
  <2> DEFINE g == Each(Fold)
  <2>1. Pass("fold", "fuse", g) /\ pc = "fold" /\ DOMAIN g = Nodes
        /\ \A i \in Nodes : g[i] = Fold(graph[i])
    BY <1>2 DEF Pass, Each
  <2> HIDE DEF g
  <2>2. \A i \in Nodes : Lowers("fold", graph[i], "fuse", g[i])
    BY <2>1, NodesLowered, FoldNode
  <2> QED
    BY <2>1, <2>2, PassInv DEF OfNs, Folded
<1>3. ASSUME NEW F \in SUBSET {i \in Nodes \ {1} : Fusable(graph[i - 1], graph[i])},
             Pass("fuse", "rewrite",
                  [i \in Nodes |-> IF i \in F THEN [graph[i] EXCEPT !.form = "fused"]
                                   ELSE graph[i]])
      PROVE  IInv'
  <2> DEFINE g == [i \in Nodes |-> IF i \in F THEN [graph[i] EXCEPT !.form = "fused"]
                                   ELSE graph[i]]
  <2>1. pc = "fuse" /\ DOMAIN g = Nodes
        /\ \A i \in Nodes : g[i] = IF i \in F THEN [graph[i] EXCEPT !.form = "fused"]
                                   ELSE graph[i]
    BY <1>3 DEF Pass
  <2>2. \A i \in F : graph[i].op \in Activations /\ graph[i].form = "aten" /\ graph[i].int8
    BY <1>3 DEF Fusable
  <2> HIDE DEF g
  <2>3. ASSUME NEW i \in Nodes
        PROVE  Lowers("fuse", graph[i], "rewrite", g[i])
    <3>1. graph[i] \in Node /\ LoweredTo("fuse", graph[i])
      BY <2>1, NodesLowered
    <3> QED
      BY <2>1, <2>2, <3>1, FusedNode
  <2> QED
    BY <1>3, <2>1, <2>3, PassInv DEF OfNs, Folded, g
<1>4. CASE Pass("rewrite", "clamp", Each(ActivationRewrite))
  <2> DEFINE g == Each(ActivationRewrite)
  <2>1. Pass("rewrite", "clamp", g) /\ pc = "rewrite" /\ DOMAIN g = Nodes
        /\ \A i \in Nodes : g[i] = ActivationRewrite(graph[i])
    BY <1>4 DEF Pass, Each
  <2> HIDE DEF g
  <2>2. \A i \in Nodes : Lowers("rewrite", graph[i], "clamp", g[i])
    BY <2>1, NodesLowered, RewrittenNode
  <2> QED
    BY <2>1, <2>2, PassInv DEF OfNs, Folded
<1>5. ASSUME NEW F \in SUBSET {i \in Nodes : Clampable(graph[i])},
             Pass("clamp", "fusion",
                  [i \in Nodes |-> IF i \in F THEN [graph[i] EXCEPT !.form = "cortex_m"]
                                   ELSE graph[i]])
      PROVE  IInv'
  <2> DEFINE g == [i \in Nodes |-> IF i \in F THEN [graph[i] EXCEPT !.form = "cortex_m"]
                                   ELSE graph[i]]
  <2>1. pc = "clamp" /\ DOMAIN g = Nodes
        /\ \A i \in Nodes : g[i] = IF i \in F THEN [graph[i] EXCEPT !.form = "cortex_m"]
                                   ELSE graph[i]
    BY <1>5 DEF Pass
  <2> HIDE DEF g
  <2>2. ASSUME NEW i \in Nodes
        PROVE  Lowers("clamp", graph[i], "fusion", g[i])
    <3>1. graph[i] \in Node /\ LoweredTo("clamp", graph[i])
      BY <2>1, NodesLowered
    <3>2. i \in F => Clampable(graph[i])
      BY <1>5
    <3> QED
      BY <2>1, <3>1, <3>2, ClampedNode
  <2> QED
    BY <1>5, <2>1, <2>2, PassInv DEF OfNs, Folded, g
<1>6. CASE Pass("fusion", "convert", Each(QuantizedOpFusion))
  <2> DEFINE g == Each(QuantizedOpFusion)
  <2>1. Pass("fusion", "convert", g) /\ pc = "fusion" /\ DOMAIN g = Nodes
        /\ \A i \in Nodes : g[i] = QuantizedOpFusion(graph[i])
    BY <1>6 DEF Pass, Each
  <2> HIDE DEF g
  <2>2. \A i \in Nodes : Lowers("fusion", graph[i], "convert", g[i])
    BY <2>1, NodesLowered, FusionNode
  <2> QED
    BY <2>1, <2>2, PassInv DEF OfNs, Folded
<1>7. CASE Pass("convert", "count", Each(ConvertToCortexM))
  <2> DEFINE g == Each(ConvertToCortexM)
  <2>1. Pass("convert", "count", g) /\ pc = "convert" /\ DOMAIN g = Nodes
        /\ \A i \in Nodes : g[i] = ConvertToCortexM(graph[i])
    BY <1>7 DEF Pass, Each
  <2> HIDE DEF g
  <2>2. \A i \in Nodes : Lowers("convert", graph[i], "count", g[i])
    BY <2>1, NodesLowered, ConvertedNode
  <2> QED
    BY <2>1, <2>2, PassInv DEF OfNs, Folded
<1>8. CASE /\ pc = "fusion" /\ \E i \in Nodes : QualifierRaises(graph[i])
           /\ pc' = "raised"
           /\ UNCHANGED <<req, graph, annot, samples, observed, io, result, origin>>
  <2>1. Graph'
    BY <1>8 DEF IInv, Graph, Nodes, Same, Stages, Float, Asking, Ended
  <2>2. (Provider /\ SamplesCounted)'
    BY <1>8 DEF IInv, Provider, OfNs, Folded, SamplesCounted, Stages, Float, Asking, Ended
  <2>3. Lowering'
    BY <1>8 DEF IInv, Lowering, LoweredTo, Nodes, Float, Folded, Asking
  <2>4. ~Own'
    <3>1. PICK i \in Nodes : QualifierRaises(graph[i])
      BY <1>8
    <3>2. ~OwnNode("fusion", graph[i]) /\ ~OtherNode(graph[i])
      BY <3>1 DEF QualifierRaises, OwnNode, OtherNode
    <3>3. ~Own
      BY <1>8, <3>2 DEF IInv, OwnLowering
    <3> QED
      BY <1>8, <3>3 DEF Own, CameQuantized
  <2> QED
    BY <2>1, <2>2, <2>3, <2>4 DEF IInv, OwnLowering
<1> QED BY <1>1, <1>2, <1>3, <1>4, <1>5, <1>6, <1>7, <1>8 DEF NsPass

LEMMA StockPassesInv == IInv /\ StockPasses => IInv'
<1> SUFFICES ASSUME IInv, StockPasses PROVE IInv'
  OBVIOUS
<1>1. PICK F \in SUBSET Nodes :
        graph' = [i \in Nodes |-> [Fold(graph[i]) EXCEPT !.form = IF i \in F THEN "cortex_m"
                                                                  ELSE "aten"]]
  BY DEF StockPasses
<1>2. /\ pc = "stock" /\ pc' \in {"count", "raised"} /\ req.provider # "ns"
      /\ UNCHANGED <<req, annot, samples, observed, io, result, origin>>
  BY DEF StockPasses, IInv, Provider
<1>3. ASSUME NEW i \in Nodes
      PROVE  /\ graph'[i] \in Node /\ Same(graph'[i], graph[i])
             /\ graph'[i].form \in {"aten", "cortex_m"}
  <2> DEFINE form == IF i \in F THEN "cortex_m" ELSE "aten"
  <2>1. graph'[i] = [Fold(graph[i]) EXCEPT !.form = form]
    BY <1>1
  <2>2. form \in {"aten", "cortex_m"}
    OBVIOUS
  <2>3. Fold(graph[i]) \in Node /\ Same(Fold(graph[i]), graph[i])
    BY DEF IInv, Graph, Fold, Node, Same
  <2> HIDE DEF form
  <2> QED
    BY <2>1, <2>2, <2>3 DEF Node, Same, Forms
<1>4. DOMAIN graph' = Nodes
  BY <1>1
<1>5. Graph'
  BY <1>2, <1>3, <1>4 DEF IInv, Graph, Nodes, Same, Stages, Float, Asking, Ended
<1>6. (Provider /\ SamplesCounted)'
  BY <1>2 DEF IInv, Provider, OfNs, Folded, SamplesCounted, Stages, Float, Asking,
              Ended
<1>7. Lowering'
  BY <1>2, <1>3, <1>4 DEF Lowering, LoweredTo, Nodes, Float, Asking
<1>8. OwnLowering'
  BY <1>2 DEF OwnLowering, Own
<1> QED BY <1>5, <1>6, <1>7, <1>8 DEF IInv

LEMMA ReportInv == IInv /\ Report => IInv'
<1> SUFFICES ASSUME IInv, Report PROVE IInv'
  OBVIOUS
<1>1. pc = "count" /\ pc' = "done"
      /\ UNCHANGED <<req, graph, annot, samples, observed, io, origin>>
  BY DEF Report
<1>2. (Graph /\ Provider /\ Lowering /\ OwnLowering)'
  BY <1>1, SameGraph DEF Stages, Asking, Float, Ended, OfNs, Folded
<1>3. SamplesCounted'
  BY <1>1 DEF IInv, SamplesCounted, Stages, Asking, Float, Folded, Ended
<1> QED BY <1>2, <1>3 DEF IInv

LEMMA Invariance == Spec => []IInv
<1>1. IInv /\ [Next]_vars => IInv'
  <2> SUFFICES ASSUME IInv, [Next]_vars PROVE IInv'
    OBVIOUS
  <2>1. CASE UNCHANGED vars
    BY <2>1 DEF vars, IInv, Graph, Provider, Lowering, OwnLowering, Own, CameQuantized,
                SamplesCounted, Nodes
  <2> QED
    BY <2>1, CompileInv, CallExportInv, StartExportInv, PrepareInv, CalibrateInv, ConvertInv,
       ToEdgeInv, NsPassInv, StockPassesInv, ReportInv DEF Next
<1> QED BY <1>1, InitInv, PTL DEF Spec

-----------------------------------------------------------------------------
(* Theorems *)

\* Every node stays a node of its operator, and every step leaves the rest of the graph's
\* arguments and scales alone (the passes rewrite nodes in place).
THEOREM TypeCorrect == Spec => []Graph
<1>1. IInv => Graph
  BY DEF IInv
<1> QED BY <1>1, Invariance, PTL

\* Samples somebody gave are never silently dropped, however many (quantize, _cmd_compile).
THEOREM SamplesCorrect == Spec => []SamplesUsed
<1>1. IInv => SamplesUsed
  BY DEF IInv, SamplesCounted, SamplesUsed, Stages, Ended, Asking
<1> QED BY <1>1, Invariance, PTL

\* No AOT-only stub is left where operators are counted and serialized (NS_PASS_LIST).
THEOREM StubsCorrect == Spec => []NoStubLeft
<1>1. IInv => NoStubLeft
  BY DEF IInv, Lowering, LoweredTo, NoStubLeft, Left
<1> QED BY <1>1, Invariance, PTL

\* A cortex_m_ns operator takes int8 tensors and was asked for (passes_ns.py).
THEOREM NsOpsCorrect == Spec => []NsOpsAreInt8
<1>1. IInv => NsOpsAreInt8
  BY DEF IInv, Lowering, LoweredTo, NsOpsAreInt8
<1> QED BY <1>1, Invariance, PTL

\* What the ns quantizer annotates the ns passes lower, in a graph of any length
\* (quantizer_ns.py against passes_ns.py).
THEOREM OwnRecipeCorrect == Spec => []OwnRecipeLowers
<1>1. ASSUME IInv, Own
      PROVE  /\ pc # "raised"
             /\ pc = "done" => \A i \in annot : graph[i].form \in {"ns", "fused", "cortex_m"}
  <2>1. pc # "raised"
    BY <1>1 DEF IInv, OwnLowering
  <2>2. ASSUME pc = "done", NEW i \in annot
        PROVE  graph[i].form \in {"ns", "fused", "cortex_m"}
    <3>1. graph[i] \in Node /\ OwnNode("done", graph[i])
      BY <1>1, <2>2 DEF IInv, Graph, OwnLowering
    <3> QED
      BY <3>1 DEF OwnNode, Node, AllOps, NsOps, Activations
  <2> QED
    BY <2>1, <2>2
<1>2. IInv => OwnRecipeLowers
  BY <1>1 DEF OwnRecipeLowers, Own
<1> QED BY <1>2, Invariance, PTL
=============================================================================
