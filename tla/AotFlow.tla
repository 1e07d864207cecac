------------------------------- MODULE AotFlow -------------------------------
(***************************************************************************)
(* export() of src/aot/nsx_cortex_m/export.py, called by a program or by   *)
(* `helia-torch compile' (cli.py): quantize the model unless it came       *)
(* quantized, lower it for the provider, one pass at a time, report what   *)
(* stayed portable and build the manifest of what was serialized           *)
(* (manifest.py).  Writing the two files is SidecarStore's.                *)
(***************************************************************************)
EXTENDS NsLowering, Sequences

CONSTANTS
  Models,   \* the graphs one may be asked to export: sequences of nodes
  Requests, \* who asks, for which provider, with which calibration and I/O
  Samples   \* how many samples a calibration that has some holds

ASSUME AotAssumption == /\ Samples \in Nat \ {0}
                        /\ \A g \in Models : \A i \in DOMAIN g : g[i] \in RecipeNodes(AllOps)

VARIABLES
  pc,       \* where export() is
  req,      \* what was asked for
  graph,    \* the nodes of the program
  annot,    \* the nodes the quantizer annotated
  samples,  \* the calibration: none was given, or how many are left to run
  observed, \* how many samples the observers have seen
  io,       \* the method boundary and the qparams reported for it
  result,   \* the ExportResult, and the manifest written with it
  origin    \* history: the model as it was given

vars == <<pc, req, graph, annot, samples, observed, io, result, origin>>

NoSamples == -1
Nodes == DOMAIN graph

\* _name of a node's target: a default overload has no suffix.
EdgeName(n) == CASE n.op = "sub" -> "sub.Tensor"
                 [] n.op = "mean" -> "mean.dim"
                 [] OTHER -> n.op

\* The keys of _EDGE_TO_PORTABLE, and the operators they stand for.
EdgeToPortable ==
  [key \in {"sub.Tensor", "mean.dim", "hardswish.default", "relu.default",
            "clamp.default", "leaky_relu.default"} |->
     CASE key = "sub.Tensor" -> "sub" [] key = "mean.dim" -> "mean"
       [] key = "hardswish.default" -> "hardswish"
       [] key = "relu.default" -> "relu" [] key = "clamp.default" -> "clamp"
       [] key = "leaky_relu.default" -> "leaky_relu"]

IsQuantized(g) == \E i \in DOMAIN g : g[i].quantized

NoResult == [edge |-> {}, fallbacks |-> {}, provider |-> "none",
             requiresNs |-> FALSE, portable |-> {}]
FloatIO == [boundary |-> "float", qparams |-> FALSE]

Init ==
  /\ pc = "start" /\ req \in Requests /\ graph \in Models
  /\ annot = {} /\ samples = NoSamples /\ observed = 0
  /\ io = FloatIO /\ result = NoResult /\ origin = graph

\* What a calibration yields, unless it cannot be used: a file that is not there, rows of
\* another shape, or a model of several inputs, at each of which _calibration exits.
Usable(c) == c # "unusable"
Given(c) == CASE c = "none" -> NoSamples [] c = "empty" -> 0
              [] OTHER -> Samples

\* _cmd_compile: --calibrate is refused for a quantized model and defaults to
\* random samples for a float one; a spec may yield no sample at all.
Compile ==
  /\ pc = "start" /\ req.via = "cli"
  /\ \/ /\ IsQuantized(graph) /\ req.calibration # "none"
        /\ pc' = "rejected" /\ UNCHANGED samples
     \/ /\ IsQuantized(graph) /\ req.calibration = "none"
        /\ pc' = "export" /\ UNCHANGED samples
     \/ /\ ~IsQuantized(graph) /\ ~Usable(req.calibration)
        /\ pc' = "rejected" /\ UNCHANGED samples
     \/ /\ ~IsQuantized(graph) /\ Usable(req.calibration)
        /\ pc' = "export"
        /\ samples' = IF req.calibration = "none" THEN Samples
                      ELSE Given(req.calibration)
  /\ UNCHANGED <<req, graph, annot, observed, io, result, origin>>

CallExport ==
  /\ pc = "start" /\ req.via = "api"
  /\ pc' = "export" /\ samples' = Given(req.calibration)
  /\ UNCHANGED <<req, graph, annot, observed, io, result, origin>>

NeverRefused == FALSE                                            \* mutant
CalibrationRefused == IsQuantized(graph) /\ samples # NoSamples

\* export() up to quantize().
StartExport ==
  /\ pc = "export"
  /\ pc' = IF req.provider \notin {"arm", "ns"} \/ CalibrationRefused THEN "rejected"
           ELSE IF IsQuantized(graph) THEN "edge" ELSE "prepare"
  /\ UNCHANGED <<req, graph, annot, samples, observed, io, result, origin>>

\* prepare_pt2e with the provider's quantizer: the stock one does not know
\* sub, mean and leaky_relu.
Prepare ==
  /\ pc = "prepare"
  /\ annot' \in
       {A \in SUBSET Nodes : \A i \in Nodes :
          IF req.provider = "ns" THEN (i \in A) \in Annotations(graph[i])
          ELSE i \in A => graph[i].op \notin Stubbable \cup {"sub", "other"}}
  /\ pc' = "calibrate"
  /\ UNCHANGED <<req, graph, samples, observed, io, result, origin>>

\* One run of the prepared module: a sample, or the example inputs.
Calibrate ==
  /\ pc = "calibrate" /\ samples > 0
  /\ samples' = samples - 1 /\ observed' = observed + 1
  /\ UNCHANGED <<pc, req, graph, annot, io, result, origin>>

CalibrateOnExample ==
  /\ pc = "calibrate" /\ samples = NoSamples
  /\ observed' = observed + 1 /\ samples' = 0
  /\ UNCHANGED <<pc, req, graph, annot, io, result, origin>>

\* convert_pt2e.
Convert ==
  /\ pc = "calibrate" /\ samples = 0
  /\ graph' = [i \in Nodes |-> [graph[i] EXCEPT !.quantized = i \in annot]]
  /\ pc' = "edge"
  /\ UNCHANGED <<req, annot, samples, observed, io, result, origin>>

\* to_edge, then QuantizeInputs and QuantizeOutputs when int8 I/O is asked
\* for: they raise when no quantize operator stands at the boundary.
ToEdge ==
  /\ pc = "edge"
  /\ LET int8Ends == graph[1].quantized /\ graph[Len(graph)].quantized
     IN  /\ io' = IF req.int8io /\ int8Ends
                  THEN [boundary |-> "int8", qparams |-> TRUE] ELSE io
         /\ pc' = IF req.int8io /\ ~int8Ends THEN "no_boundary"
                  ELSE IF req.provider = "ns" THEN "stub" ELSE "stock"
  /\ UNCHANGED <<req, graph, annot, samples, observed, result, origin>>

\* A pass over the graph, after which every node is traced again.
Pass(name, next, g) ==
  /\ pc = name
  /\ graph' = g
  /\ pc' = IF \E i \in DOMAIN g : RetraceFails(g[i]) THEN "raised" ELSE next
  /\ UNCHANGED <<req, annot, samples, observed, io, result, origin>>

Each(Rewrite(_)) == [i \in Nodes |-> Rewrite(graph[i])]

NsPass ==
  \/ Pass("stub", "fold", Each(StubCapture))
  \/ Pass("fold", "fuse", Each(Fold))
  \/ \E F \in SUBSET {i \in Nodes \ {1} : Fusable(graph[i - 1], graph[i])} :
       Pass("fuse", "rewrite",
            [i \in Nodes |-> IF i \in F THEN [graph[i] EXCEPT !.form = "fused"]
                             ELSE graph[i]])
  \/ Pass("rewrite", "clamp", Each(ActivationRewrite))
  \/ \E F \in SUBSET {i \in Nodes : Clampable(graph[i])} :
       Pass("clamp", "fusion",
            [i \in Nodes |-> IF i \in F THEN [graph[i] EXCEPT !.form = "cortex_m"]
                             ELSE graph[i]])
  \/ /\ \A i \in Nodes : ~QualifierRaises(graph[i])
     /\ Pass("fusion", "convert", Each(QuantizedOpFusion))
  \/ /\ pc = "fusion" /\ \E i \in Nodes : QualifierRaises(graph[i])
     /\ pc' = "raised"
     /\ UNCHANGED <<req, graph, annot, samples, observed, io, result, origin>>
  \/ Pass("convert", "count", Each(ConvertToCortexM))

\* The stock CortexMPassManager lowers quantized operators to cortex_m ones;
\* which of them, and which it refuses, is not this repository's.
StockPasses ==
  /\ pc = "stock"
  /\ \E F \in SUBSET {i \in Nodes : graph[i].quantized /\ graph[i].op # "other"} :
       graph' = [i \in Nodes |->
                   [Fold(graph[i]) EXCEPT !.form = IF i \in F THEN "cortex_m"
                                                   ELSE "aten"]]
  /\ pc' \in {"count", "raised"}
  /\ UNCHANGED <<req, annot, samples, observed, io, result, origin>>

Left(form) == {i \in Nodes : graph[i].form = form}

\* _count_edge_ops and the fallbacks, then to_executorch and build_manifest,
\* which classifies the operators of the plan that was serialized.
Portable(i) == graph[i].form = "aten"

Report ==
  /\ pc = "count"
  /\ LET edge == {EdgeName(graph[i]) : i \in Left("aten")}
     IN  result' = [edge |-> edge,
                    fallbacks |-> {EdgeToPortable[key] :
                                     key \in edge \cap DOMAIN EdgeToPortable},
                    provider |-> req.provider,
                    requiresNs |-> Left("ns") # {},
                    portable |-> {graph[i].op : i \in {j \in Nodes : Portable(j)}}]
  /\ pc' = "done"
  /\ UNCHANGED <<req, graph, annot, samples, observed, io, origin>>

Next == \/ Compile \/ CallExport \/ StartExport \/ Prepare \/ Calibrate
        \/ CalibrateOnExample \/ Convert \/ ToEdge \/ NsPass \/ StockPasses
        \/ Report

Spec == Init /\ [][Next]_vars
----------------------------------------------------------------------------
CameQuantized == \E i \in DOMAIN origin : origin[i].quantized

\* Samples somebody gave are never silently dropped: an export that succeeds
\* has run every one of them (the two calibration refusals).
SamplesUsed ==
  pc = "done" /\ req.calibration = "samples" => observed = Samples

\* No AOT-only stub reaches the serialized program, whatever declined it.
NoStubLeft == pc \in {"count", "done"} => Left("stub") = {}

\* Every cortex_m_ns operator in a program takes int8 tensors, and there is one
\* only if the ns provider was asked for ("never a broken cortex_m_ns op").
NsOpsAreInt8 ==
  \A i \in Nodes : graph[i].form = "ns" => graph[i].int8 /\ req.provider = "ns"

\* What the ns quantizer annotates, the ns passes lower: a float model whose
\* operators the kernels support and whose scales are ordinary exports, and no
\* operator it quantized is left to the portable kernels.  The checks of the
\* quantizer and the qualifiers of the passes are written independently.
OwnRecipeLowers ==
  /\ ~CameQuantized /\ req.provider = "ns"
  /\ \A i \in annot : graph[i].args = "ok" /\ graph[i].shiftFits
  => /\ pc # "raised"
     /\ pc = "done" => \A i \in annot : graph[i].form \in {"ns", "fused", "cortex_m"}

\* What export.py and README.md say of portable_fallback_ops: it lists the
\* ns-candidate operators that stayed portable.
FallbacksReported ==
  pc = "done" => \A i \in Left("aten") : graph[i].op \in NsOps =>
                                           graph[i].op \in result.fallbacks

\* What passes_ns.py says: an operator a qualifier declined stays on the portable
\* path, correct but slow (the export goes on, and it takes float tensors), and what
\* was not declined is never a broken cortex_m_ns operator: its shifts fit, sub's too.
DeclinedStaysCorrect ==
  req.provider = "ns" =>
    /\ pc # "raised"
    /\ pc = "done" => /\ \A i \in Left("aten") : ~graph[i].int8
                      /\ \A i \in Left("ns") : graph[i].shiftFits
=============================================================================
