---------------------------- MODULE MetadataReads ----------------------------
(***************************************************************************)
(* The questions about the metadata that the REST routes and the tools of  *)
(* the agent ask (app/api/assets.py, impacts.py, domains.py, runtime.py,   *)
(* reports.py; app/agent/tooling.py).  A behaviour is one request, about   *)
(* the catalog or about the health of the domains, on either database;     *)
(* tables that its question never reads do not change.                     *)
(***************************************************************************)
EXTENDS ImpactQueries, RuntimeHealth

VARIABLE topic  \* "catalog" or "health"

vars == <<isolated, topic, lineageVars, impactVars, healthVars>>

TypeOK ==
    /\ isolated \in BOOLEAN
    /\ topic \in {"catalog", "health"}
    /\ ImpactTypeOK
    /\ HealthTypeOK

Init ==
    /\ isolated \in BOOLEAN
    /\ topic \in {"catalog", "health"}
    /\ ImpactInit
    /\ HealthInit
    /\ topic = "health" => kind = "business_impact"
    /\ (topic = "health" \/ kind = "lineage") => impacts = {}
    /\ kind = "business_impact" => active = CHOOSE rows \in Contents : TRUE
    /\ topic = "catalog" => request = (CHOOSE r \in HealthRequest : TRUE)
                           /\ zone = (CHOOSE z \in Zones : TRUE) /\ ~blank

CatalogStep == topic = "catalog" /\ ImpactStep /\ UNCHANGED healthVars

CatalogChange ==
    /\ topic = "catalog"
    /\ \/ kind # "lineage" /\ Report
       \/ kind # "business_impact" /\ Commit /\ UNCHANGED impactVars
    /\ UNCHANGED healthVars

AnswerHealth == topic = "health" /\ HealthStep /\ UNCHANGED <<lineageVars, impactVars>>

\* What comes after the answer is of no interest.
HealthChange ==
    /\ topic = "health" /\ step # "done"
    /\ Tick \/ Reset \/ Seed \/ Assess
    /\ UNCHANGED <<lineageVars, impactVars>>

RequestStep == (CatalogStep \/ AnswerHealth) /\ UNCHANGED <<isolated, topic>>

Change == (CatalogChange \/ HealthChange) /\ UNCHANGED <<isolated, topic>>

Next == RequestStep \/ Change

Spec == Init /\ [][Next]_vars

\* A request runs in a thread of its own; its statements take no locks.
FairSpec == Spec /\ WF_vars(RequestStep)

\* Every question is answered, however the tables change meanwhile: a search
\* ends even if it runs in circles (_lineage).
QuestionsAnswered ==
    <>(IF topic = "catalog" THEN stage = "done" ELSE step = "done")
=============================================================================
