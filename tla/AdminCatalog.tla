---------------------------- MODULE AdminCatalog ----------------------------
(***************************************************************************)
(* The start of the server and what admins do between two starts           *)
(* (app/main.py, bootstrap_admin_catalog of app/services/admin_service.py):*)
(* one transaction brings the tool registry, the data sources and their    *)
(* tables, the jobs, the templates and the bindings up to date, and if it  *)
(* fails there is no server.  A behaviour is about one part of the catalog *)
(* (topic), the others rest.                                               *)
(***************************************************************************)
EXTENDS ToolBindings, AdminRecords

CONSTANTS
    Assets,     \* assets of the metadata tables
    SystemOf,   \* SystemOf[a]: the name of the system of asset a
    DomainOf,   \* DomainOf[a]: the name of its domain
    NameOf,     \* NameOf[a]: its own name
    Fold,       \* Fold[x]: name x in lower case
    Batches,    \* sets of assets that a sync or the seed script adds at once
    BasicJobs,  \* the jobs that every start makes sure of
    Topics      \* the parts of the catalog to look at

ASSUME CatalogAssumption ==
    /\ DOMAIN SystemOf = Assets /\ DOMAIN DomainOf = Assets /\ DOMAIN NameOf = Assets
    /\ Batches \subseteq SUBSET Assets

VARIABLES
    topic,      \* "templates", "sources", "tools" or "records"
    up,         \* the server runs
    assets,     \* assets that are committed
    known,      \* history: assets that were committed at some time
    sources,    \* data_sources, by name in lower case
    tables,     \* data_source_tables: <<source, schema, table>>
    tool,       \* tool[t]: the row of tool_definitions
    jobs        \* names in scheduled_jobs

sourceVars == <<assets, known, sources, tables, tool, jobs>>
catalogVars == <<vars, bindingVars, recordVars, topic, up, sourceVars>>

Names == {SystemOf[a] : a \in Assets} \cup {DomainOf[a] : a \in Assets} \cup {NameOf[a] : a \in Assets}

\* A tool and its only version "v1", inserted together.
ToolRow == [enabled: BOOLEAN, description: {"", "registry", "edited"}]

CatalogTypeOK ==
    /\ TypeOK /\ BindingTypeOK /\ RecordsTypeOK
    /\ topic \in Topics
    /\ up \in BOOLEAN
    /\ assets \subseteq known /\ known \subseteq Assets
    /\ sources \subseteq {Fold[x] : x \in Names}
    /\ tables \subseteq sources \X Names \X Names
    /\ tool \in [Tools -> ToolRow \cup {None}]
    /\ jobs \subseteq BasicJobs

CatalogInit ==
    /\ Init /\ BindingInit /\ RecordsInit
    /\ topic \in Topics
    /\ up = FALSE
    /\ topic \in {"tools", "records"} => caseBlind = FALSE
    /\ assets = {} /\ known = {} /\ sources = {} /\ tables = {}
    /\ tool = [t \in Tools |-> None]
    /\ jobs = {}

-----------------------------------------------------------------------------
(* The start.                                                              *)

\* Mutant of SourceOf: names are compared with their case.
ExactSource(a) == SystemOf[a]

SourceOf(a) == Fold[SystemOf[a]]

TableOf(a) == <<SourceOf(a), DomainOf[a], NameOf[a]>>

\* A system without a data source gets one; two systems whose names differ in
\* case share it.
AllSources == sources \cup {Fold[SystemOf[a]] : a \in assets}

\* Mutant of Unlisted: the tables that are there are not looked up.
EveryAsset == {a \in assets : SourceOf(a) \in AllSources}

\* The assets for which the start adds a row; rows it adds on the way are not
\* looked up again.
Unlisted == {a \in assets : SourceOf(a) \in AllSources /\ TableOf(a) \notin tables}

-----------------------------------------------------------------------------
(* What makes a start fail: Python looks names up exactly and adds a row,   *)
(* which the database takes for one that is there.                          *)

SourceClash == \E a \in assets, s \in sources : SourceOf(a) \notin sources /\ Alike(SourceOf(a), s)

\* uq_data_source_table_name.
SameTable(p, q) == p[1] = q[1] /\ Alike(p[2], q[2]) /\ Alike(p[3], q[3])

TableClash ==
    \/ \E a, b \in Unlisted : a # b /\ SameTable(TableOf(a), TableOf(b))
    \/ \E a \in Unlisted, table \in tables : SameTable(TableOf(a), table)

\* The unique template_key of a shipped template that is inserted.
KeyClash == \E i \in Live, k \in MissingKeys : Alike(template[i].key, k)

\* uq_prompt_template_version of a snapshot that is inserted.
VersionClash(tab) == \E i \in Ids, v \in Versions :
    /\ tab[i] # None /\ version[i][tab[i].version] = None
    /\ version[i][v] # None /\ Alike(tab[i].version, v)

BindingClash(tab) == \E m \in DOMAIN DefaultBindings, n \in DOMAIN binding :
    Wanted(tab, DefaultBindings[m]) /\ Excludes(BindingFor(tab, DefaultBindings[m]), binding[n])

Clash(tab) == SourceClash \/ TableClash \/ KeyClash \/ VersionClash(tab) \/ BindingClash(tab)

-----------------------------------------------------------------------------
\* A missing tool is inserted; an empty description is filled in again.
StartTools == tool' = [t \in Tools |->
    IF tool[t] = None THEN [enabled |-> TRUE, description |-> "registry"]
    ELSE [tool[t] EXCEPT !.description = IF @ = "" THEN "registry" ELSE @]]

\* bootstrap_admin_catalog: one commit, and nothing is left of what a crash cut off.
StartServer == \E ids \in NextIds :
    /\ ~Clash(Reset(ids))
    /\ sources' = AllSources
    /\ tables' = tables \cup {TableOf(a) : a \in Unlisted}
    /\ StartTools
    /\ jobs' = jobs \cup BasicJobs
    /\ RestartWith(ids)
    /\ StartBindings(Reset(ids))
    /\ up' = TRUE
    /\ LoseRequests
    /\ UNCHANGED <<topic, assets, known>>

\* The flush raises IntegrityError, on_startup does not catch it: nothing is
\* committed and the process ends.
StartFails == \E ids \in NextIds :
    /\ starts < MaxStarts
    /\ Clash(Reset(ids))
    /\ starts' = starts + 1
    /\ tx' = [w \in Workers |-> Idle]
    /\ up' = FALSE
    /\ LoseRequests
    /\ UNCHANGED <<template, version, bindingVars, topic, sourceVars>>

-----------------------------------------------------------------------------
(* Between two starts.                                                     *)

\* A sync commits what it found in the factory (AdfSync), by a request or by
\* app/sync/azure_adf.py without the server; the second commit of seed_data.py
\* adds other systems.  Names of systems and domains are unique.
AddAssets == \E batch \in Batches :
    /\ \A a, b \in assets \cup batch :
          /\ Alike(SystemOf[a], SystemOf[b]) => SystemOf[a] = SystemOf[b]
          /\ Alike(DomainOf[a], DomainOf[b]) => DomainOf[a] = DomainOf[b]
    /\ assets' = assets \cup batch
    /\ known' = known \cup batch
    /\ UNCHANGED <<vars, bindingVars, recordVars, topic, up, sources, tables, tool, jobs>>

\* The first commit of seed_data.py; data sources and tables stay.
RemoveAssets ==
    /\ assets' = {}
    /\ UNCHANGED <<vars, bindingVars, recordVars, topic, up, known, sources, tables, tool, jobs>>

\* update_tool.
UpdateTool == \E t \in Tools, enabled \in BOOLEAN, text \in {"", "edited"}, given \in BOOLEAN :
    /\ up
    /\ tool' = [tool EXCEPT ![t].enabled = enabled,
                           ![t].description = IF given THEN text ELSE @]
    /\ UNCHANGED <<vars, bindingVars, recordVars, topic, up, assets, known, sources, tables, jobs>>

AdminRequest ==
    \/ /\ topic = "templates" /\ up
       /\ TemplateRequest \/ BindingRequest
       /\ UNCHANGED <<recordVars, topic, up, sourceVars>>
    \/ /\ topic = "records" /\ up
       /\ \E c \in Clients : RecordRequest(c)
       /\ UNCHANGED <<vars, bindingVars, topic, up, sourceVars>>

SourceChange ==
    \/ topic = "sources" /\ (AddAssets \/ RemoveAssets)
    \/ topic = "tools" /\ UpdateTool

CatalogNext == StartServer \/ StartFails \/ AdminRequest \/ SourceChange

CatalogSpec == CatalogInit /\ [][CatalogNext]_catalogVars

-----------------------------------------------------------------------------
(* Properties.                                                             *)

\* A start fails only over names: two assets of one system and domain share
\* theirs, or the database takes two names for one that differ for Python -
\* those of two systems, of a template and a shipped one, of a template's
\* version and one in its history, of the scenes of a binding and of a default
\* pair (bootstrap_admin_catalog).
FailsOnlyOnAlikes ==
    [][starts' # starts /\ ~up' =>
          \/ \E a, b \in known :
                /\ a # b /\ SourceOf(a) = SourceOf(b)
                /\ Alike(DomainOf[a], DomainOf[b]) /\ Alike(NameOf[a], NameOf[b])
          \/ \E a, b \in known : SourceOf(a) # SourceOf(b) /\ Alike(SourceOf(a), SourceOf(b))
          \/ \E i \in Live, k \in Builtin : template[i].key # k /\ Alike(template[i].key, k)
          \/ \E i \in Live, u, v \in Versions :
                /\ version[i][v] # None /\ u # v /\ Alike(u, v)
                /\ \/ template[i].version = u
                   \/ template[i].key \in Builtin /\ Shipped[template[i].key].version = u
          \/ \E m \in DOMAIN DefaultBindings, n \in DOMAIN binding :
                /\ binding[n].tool = DefaultBindings[m][1]
                /\ binding[n].scene # DefaultBindings[m][2]
                /\ Alike(binding[n].scene, DefaultBindings[m][2])]_catalogVars

\* After a start the data sources list the tables of all assets, each under the
\* data source of its system, however the names of the systems are written, and
\* no table that was not at some time that of an asset (bootstrap_admin_catalog;
\* seed_data.py takes assets away and the bootstrap keeps their tables).
TablesMatchAssets ==
    [][starts' # starts /\ up' =>
          /\ \A a \in assets : \E table \in tables' :
                table[1] = Fold[SystemOf[a]] /\ table[2] = DomainOf[a] /\ table[3] = NameOf[a]
          /\ \A table \in tables' : \E a \in known :
                table[1] = Fold[SystemOf[a]] /\ table[2] = DomainOf[a] /\ table[3] = NameOf[a]]_catalogVars

\* Every start of the server succeeds, as the documented order of set-up has
\* it: start the API server, run a sync, and start again some day.
StartSucceeds == [][starts' # starts => up']_catalogVars
=============================================================================
