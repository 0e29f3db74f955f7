--------------------------- MODULE MCMetadataReads ---------------------------
(* Six assets and seven dependencies: a long way from 1 over 2 and 3 to 5 and *)
(* a short one over 4, an asset behind them, and a cycle from 5 back to 2.    *)
(* Assets 3 and 6 are APIs.                                                   *)
EXTENDS MetadataReads

AssetIds == 1..6
NameOf == [a \in AssetIds |-> "orders"]
QualifiedNameOf == <<"q1", "q2", "q3", "q4", "q5", "q6">>
UpstreamOf == <<1, 2, 3, 1, 4, 5, 5>>
DownstreamOf == <<2, 3, 5, 4, 5, 6, 2>>
DepContents == {1..7, 1..3, {1, 2, 3, 6, 7}, {4, 5, 6, 7}, {1, 4, 5, 6}, {2, 4}}
ImpactRows == {<<1, 4>>, <<1, 6>>}
=============================================================================
