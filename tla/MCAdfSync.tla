------------------------------ MODULE MCAdfSync ------------------------------
(* A factory with a pipeline, which the first list call returns, and a       *)
(* dataset, which the second one does.  The pipeline has two payloads.       *)
EXTENDS AdfSync

ListCalls == <<{"pipeline"}, {"dataset"}>>

\* Payload "v1" of the pipeline reads the dataset once, "v2" not at all.
SingleRefs ==
    [a \in Assets |-> [p \in Payloads |-> [b \in Assets |->
        IF a = "pipeline" /\ p = "v1" /\ b = "dataset" THEN 1 ELSE 0]]]

\* Two activities of payload "v1" read the dataset.
RepeatedRefs ==
    [a \in Assets |-> [p \in Payloads |-> [b \in Assets |->
        IF a = "pipeline" /\ p = "v1" /\ b = "dataset" THEN 2 ELSE 0]]]
=============================================================================
