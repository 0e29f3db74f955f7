-------------------------- MODULE MCPromptCatalog --------------------------
(* Two shipped templates, each the default of its scene, and what admins     *)
(* make of them.                                                             *)
EXTENDS PromptCatalog, TLC

ShippedRow(k, s) ==
    [key |-> k, scene |-> s, content |-> "shipped", version |-> "v1",
     status |-> "active", isDefault |-> TRUE]

\* The default of the lineage scene and the default of the sla scene.
TwoScenes == "lineage" :> ShippedRow("lineage", "lineageScene")
             @@ "sla" :> ShippedRow("sla", "slaScene")

\* One shipped template, for the runs about versions.
OneScene == "lineage" :> ShippedRow("lineage", "lineageScene")

WorkerSymmetry == Permutations(Workers)
=============================================================================
