---------------------------- MODULE ImpactQueries ----------------------------
(***************************************************************************)
(* ImpactService of app/services/impact_service.py: get_business_impact,   *)
(* which is one SELECT, and get_impacted_apis, which falls back on the     *)
(* downstream lineage if no impact on record names an API.                 *)
(***************************************************************************)
EXTENDS Lineage

CONSTANTS
    Apis,        \* the assets whose system is called "api"
    Impacts,     \* rows of business_impacts: <<source, impacted asset>>
    MaxReports   \* bound on the number of changes of business_impacts

ASSUME ImpactAssumption ==
    Apis \subseteq Assets /\ Impacts \subseteq Assets \X Assets /\ MaxReports \in Nat

VARIABLES
    kind,        \* the question asked
    stage,       \* impacts, lineage, done: what the request is about to read
    impacts,     \* active impacts that are committed
    reports,     \* number of changes so far
    onRecord,    \* the impacts a SELECT of the request would see now
    explicit,    \* the impacted assets the request has read
    apis         \* the APIs of the answer

impactVars == <<kind, stage, impacts, reports, onRecord, explicit, apis>>

ImpactTypeOK ==
    /\ LineageTypeOK
    /\ kind \in {"lineage", "business_impact", "impacted_apis"}
    /\ stage \in {"impacts", "lineage", "done"}
    /\ impacts \subseteq Impacts /\ onRecord \subseteq Impacts
    /\ reports \in 0..MaxReports
    /\ explicit \subseteq Assets
    /\ apis \subseteq Apis

ImpactInit ==
    /\ LineageInit
    /\ kind \in {"lineage", "business_impact", "impacted_apis"}
    /\ stage = IF kind = "lineage" THEN "lineage" ELSE "impacts"
    /\ kind = "lineage" \/ direction = "downstream"
    /\ impacts \in SUBSET Impacts
    /\ reports = 0
    /\ onRecord = impacts
    /\ explicit = {}
    /\ apis = {}

\* The impacts of an asset are recorded or turned off: external.
Report ==
    /\ reports < MaxReports
    /\ reports' = reports + 1
    /\ impacts' \in SUBSET Impacts
    /\ onRecord' = AfterCommit(onRecord, impacts')
    /\ UNCHANGED <<lineageVars, kind, stage, explicit, apis>>

\* Mutant of Settled: any impact on record spares the search.
AnySettled(assets) == assets # {}

\* The impacts on record name an API.
Settled(assets) == assets \cap Apis # {}

\* get_business_impact.
ReadImpacts ==
    /\ stage = "impacts"
    /\ explicit' = {i[2] : i \in {j \in onRecord : j[1] = root}}
    /\ IF kind = "impacted_apis" /\ ~Settled(explicit')
       THEN stage' = "lineage" /\ UNCHANGED apis
       ELSE /\ stage' = "done"
            /\ apis' = IF kind = "impacted_apis" THEN explicit' \cap Apis ELSE apis
    /\ UNCHANGED <<lineageVars, kind, impacts, reports, onRecord>>

\* The search is over; the root is among its nodes.
Derive ==
    /\ stage = "lineage" /\ pc = "answered"
    /\ stage' = "done"
    /\ apis' = IF kind = "impacted_apis" THEN visited \cap Apis ELSE apis
    /\ UNCHANGED <<lineageVars, kind, impacts, reports, onRecord, explicit>>

SearchOn == stage = "lineage" /\ Search /\ UNCHANGED impactVars

ImpactStep == ReadImpacts \/ SearchOn \/ Derive

-----------------------------------------------------------------------------
(* Properties.                                                             *)

\* get_impacted_apis leaves out an API that was downstream all the time only
\* if an impact on record names another one, and adds none that was neither on
\* record nor downstream, whatever is committed between its two reads.
ApisAccounted ==
    stage = "done" /\ kind = "impacted_apis" =>
        /\ apis \subseteq explicit \cup Within(met)
        /\ Within(steady) \cap Apis \subseteq apis \/ explicit \cap apis # {}
=============================================================================
