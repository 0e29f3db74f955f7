--------------------------- MODULE MCAdminCatalog ---------------------------
(* Two shipped templates, each the default of a scene of one tool; a key, a   *)
(* version and a scene that differ from them in case.  A pipeline and a       *)
(* dataset of the factory share their name; of three more systems two differ  *)
(* in case and the third in a trailing blank, and so do their assets.         *)
EXTENDS AdminCatalog, TLC

ShippedRow(k, s) ==
    [key |-> k, scene |-> s, content |-> "shipped", version |-> "v1",
     status |-> "active", isDefault |-> TRUE]

TwoScenes == "lineage" :> ShippedRow("lineage", "lineageScene")
             @@ "sla" :> ShippedRow("sla", "slaScene")

Pairs == <<<<"get_asset", "lineageScene">>, <<"get_asset", "slaScene">>>>

SystemNames == "view" :> "Sales" @@ "report" :> "sales" @@ "ledger" :> "sales "
               @@ [a \in {"pipeline", "dataset"} |-> "ADF/f"]
AssetIds == DOMAIN SystemNames
DomainNames == [a \in AssetIds |-> "Platform"]
AssetNames == "report" :> "orders" @@ [a \in AssetIds |-> "Orders"]

Capitals == "Sales" :> "sales" @@ "Orders" :> "orders" @@ "ADF/f" :> "adf/f"
            @@ "Platform" :> "platform" @@ "Lineage" :> "lineage"
            @@ "V1" :> "v1" @@ "lineageScene" :> "lineagescene"
            @@ "LineageScene" :> "lineagescene" @@ "slaScene" :> "slascene"
AllNames == DOMAIN Capitals \cup {Capitals[x] : x \in DOMAIN Capitals} \cup {"sla", "sales "}
LowerCase == Capitals @@ [x \in AllNames |-> x]

\* A collation without case that pads with blanks.
Collation == "sales " :> "sales" @@ LowerCase

\* Requests and channels are told apart by their identity only.
RecordSymmetry == Permutations(Clients) \cup Permutations(Channels)

Sync == {{"pipeline", "dataset"}}
Single == {{a} : a \in AssetIds}
=============================================================================
