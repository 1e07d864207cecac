----------------------------- MODULE MCAotFlow -----------------------------
(* Graphs of two operators: every pair of float ones, and pairs that came    *)
(* quantized by some recipe, not necessarily the ns quantizer's.             *)
EXTENDS AotFlow

Ask(vias, providers, calibrations, ios) ==
  [via : vias, provider : providers, calibration : calibrations, int8io : ios]

FloatModels == [1..2 -> FloatNodes(AllOps)]
Recipes == [1..2 -> RecipeNodes({"clamp", "mean", "other"})]
AnyModels == FloatModels \cup Recipes
AllRequests == {r \in Ask({"api", "cli"}, {"ns", "arm", "unknown"},
                          {"none", "empty", "samples", "unusable"}, BOOLEAN) :
                  /\ r.via = "cli" => r.provider # "unknown"
                  /\ r.via = "api" => r.calibration # "unusable"}

OneNode == [1..1 -> FloatNodes(AllOps)]
NsRequests == Ask({"api", "cli"}, {"ns"}, {"none", "empty", "samples"}, {FALSE})
=============================================================================
