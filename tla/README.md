# TLA+ models of DataGovAgent

DataGovAgent keeps a catalog of data assets (synced from Azure Data Factory),
runtime and business facts about them, and an agent that answers questions with
tools over that database; an admin API manages the prompts, tools, jobs and
chats of the agent. This directory models the parts whose correctness depends on
the order of things: requests that overlap in the database, transactions that
commit in the middle of a request, reads that see different states of the
tables, failures and restarts. Paths below are
relative to the repository (`src/` in `PROJECT.json`).

## The system

The server is one FastAPI process (`app/main.py`). Handlers are plain functions,
so they run in a thread pool, each with a SQLAlchemy session of its own
(`get_db` in `app/db.py`; no autoflush, no expiry on commit). Nothing in the
process is shared but the in-memory OAuth store, which has a lock. Everything
else meets in the database: MySQL (REPEATABLE READ) or, if MySQL cannot be
reached at start-up, SQLite. No request takes a lock for reading; what
protects the tables are unique constraints, foreign keys and the locks writes
take. At every start `bootstrap_admin_catalog` seeds and repairs the admin
tables before the server takes requests. A command line runs the same sync, and
the same agent, in processes of their own.

| Component | State | Operations | Hard behaviour | What makes it correct |
|---|---|---|---|---|
| Prompt templates (`admin_service.py`) | `prompt_templates`, `prompt_template_versions` | create, update, set-default, delete; seeding at each start | two requests read, then both write; the ORM writes only changed columns; restarts reset built-in rows | one default per scene, every version recorded, no history without its template |
| Metadata sync (`azure_ingestion_service.py`) | `source_sync_states`, `ingestion_jobs`, `assets`, `asset_properties`, `asset_versions`, `asset_dependencies` | `sync_adf_metadata` | syncs overlap, the factory changes between two list calls, the failure handler writes in a second transaction | all or nothing, no version twice, a success stays on record, each sync ends |
| OAuth sign-in (`api/auth.py`, `core/oauth_store.py`) | states and sessions in memory | login, callback, me, refresh, logout | handlers leave the lock for the exchange with the provider; expiry; restarts | a state is redeemed once, refresh neither multiplies nor loses a session |
| Jobs (`admin_service.py`) | `scheduled_jobs`, `job_runs`, `audit_logs` | create, run | the job's work commits the run's session in the middle | job, run and audit agree at every commit |
| Daily report (`report_service.py`) | `daily_summary_reports` | generate | called from jobs and from chats, on their session; insert race | one row per day; a lost race must not take the caller along |
| Chat (`api/chat.py`, `agent/llm_agent.py`) | `chats`, `chat_messages`, `tool_calls` | ask, tool loop, `record_chat_exchange` | tools that commit or break the session; recording may fail silently | messages in order, nothing lost without interference or a fault, the loop ends |
| Tool prompt bindings (`admin_service.py`) | `tool_prompt_bindings` | create, update, delete; seeding at each start | updates that move a default without normalizing; seeding reads the template flags before they are normalized | one default per tool and scene, the chosen one kept, bindings follow the templates |
| Tools, data sources, jobs at the start (`admin_service.py`) | `tool_definitions`, `data_sources`, `data_source_tables`, `scheduled_jobs` | `bootstrap_admin_catalog`, `update_tool` | one transaction for everything; names that Python tells apart and MySQL does not; assets that a sync adds and the seed script removes between two starts | the start succeeds, and settles; the tables are those of the assets |
| Memories and channels (`admin_service.py`) | `memories`, `channels`, `audit_logs` | create, update, delete with audit records | two requests on one row; a create with two commits | the audit log accounts for what happened |
| Lineage and impact (`asset_service.py`, `impact_service.py`) | none (reads) | upstream, downstream, impacts, impacted APIs | cycles, parallel rows, depth limit 20, commits between the SELECTs of one search | what was in reach all the time is shown, nothing that never was; edges explain nodes |
| Runtime health (`runtime_service.py`, `report_service.py`, `seed/seed_data.py`) | `runtime_events`, `domain_health_snapshots`, `daily_summary_reports` | domain health, failed runs, red domains, daily summary; the seed script | midnight between two reads; rows in UTC, days of the server; the script deletes all rows in one commit and adds its own in the next | no older than the request, one day, failures come with their red domain |
| Scene inference and search (`admin_service.py`) | none | text matching | — | — |
| Admin page (`static/admin/`) | browser state | forms | stale lists | — |
| Configuration, scripts | files | set-up | — | — |

Interactions: chat resolves its prompt from the prompt templates (two active
defaults of a scene make every chat of the scene fail); chat and jobs both publish
the daily report on their own session; chat takes its token from the OAuth store;
syncs write the assets and dependencies that lineage reads and the assets that the
next start lists as tables of its data sources; the seed script deletes assets,
runs, health and reports under all of them; seeding of bindings reads the template
flags, before those of `_seed_prompt_templates` in the same transaction are
flushed.

## Modules

| Module | Models | Composed with |
|---|---|---|
| `PromptCatalog` | prompt templates and their bootstrap | — |
| `PromptCatalogProofs` | theorems about `PromptCatalog` | extends it |
| `ToolBindings` | tool prompt bindings and their bootstrap | extends `PromptCatalog` |
| `AdminRecords` | memories, channels, audit records | — |
| `AdminCatalog` | the start of the server as a whole, tools and data sources | extends `ToolBindings`, `AdminRecords` |
| `AdminCatalogProofs` | theorems about `AdminCatalog` | extends it and `PromptCatalogProofs` |
| `SyncLedger` | what a sync promises (abstract) | — |
| `AdfSync` | the sync as coded | implements `SyncLedger` |
| `AdfSyncProofs` | theorems about `AdfSync`, with the refinement | extends it |
| `OAuthSessions` | the `/auth` routes on the store | — |
| `OAuthProofs` | theorems about `OAuthSessions` | extends it |
| `DailyReport` | the upsert of today's report and its effect on a caller | extended by `JobRuns` and `ChatTrace` |
| `JobRuns` | `create_job`, `run_job` | extends `DailyReport` |
| `ChatTrace` | the agent loop and the record of the exchange | extends `DailyReport` |
| `ReportClients` | jobs and chats on one report | extends `JobRuns`, `ChatTrace` |
| `JobRunsProofs` | theorems about the jobs of `ReportClients` | extends it |
| `RequestView` | what the SELECTs of one request see | extended by `Lineage` and `RuntimeHealth` |
| `Lineage` | the search over `asset_dependencies` | extends `RequestView` |
| `ImpactQueries` | business impacts and impacted APIs | extends `Lineage` |
| `RuntimeHealth` | health, failed runs, red domains, daily summary | extends `RequestView` |
| `MetadataReads` | one question about any of these | extends `ImpactQueries`, `RuntimeHealth` |
| `LineageProofs`, `RuntimeHealthProofs` | theorems about `MetadataReads` | extend it |
| `NaturalsLemmas` | numbers and small sets | extended by the proofs that count or induct |
| `MC...` | constants and symmetry for TLC | extend the module they name |

`PROJECT.json` maps each definition to the lines it stands for.

### PromptCatalog

A request is two steps. *Begin* is everything it reads (the row, the other
default rows of the scene, the snapshot with the new version) and leaves in `tx`
what the session will write; *Commit* is the flush and the commit. Between the
two, other requests may commit. `Flush` is the ORM's rule that only attributes
which differ from the loaded ones are written, so the row that results of two
overlapping updates can be one that neither request meant. Unique constraints
are checked at the commit; a violation, a deadlock or a lost connection is
`Rollback`. `Restart` is a crash at any moment followed by
`_seed_prompt_templates`: the map of defaults is taken first (of several
defaults of a scene, any may win, since the query has no order), built-in rows
are reset, missing ones inserted, flags normalized, missing snapshots added.
Left out: texts (`Contents` stands for the prompt and output format together),
variables, audit records (one per commit, in the same transaction). A delete takes
the bindings of the template but not its snapshots; the flush then refuses it
(`EndDelete`), and the bindings stay as well. Here keys and scenes are compared
exactly, as on SQLite; what a database that ignores case makes of them is in
`AdminCatalog`.

`PartialUpdates` says whether a client may leave `is_default` out of an update;
the admin page always sends it, the API does not require it.

### AdfSync and SyncLedger

A sync reads its source row (`Open`), takes the write lock with the first flush
(`Lock`), lists the factory call by call while `Deploy` may change it (`List`),
and commits everything at once (`Succeed`). A failed call (`CallFails`) or an
exception in the catalog writes (`Raise`) rolls back;
the handler reads the source again (`Reload`) and commits the FAILED rows
(`Report`), unless it loses the lock or a unique constraint refuses it. The
RUNNING rows are flushed and never committed, so nobody sees them. `Refuse` is a
lock timeout or deadlock, `Die` a crash.

The variable `database`, chosen in `Init`, is the database of the deployment, so
one run covers all three. `SnapshotReads` (MySQL, MariaDB): what the sync looks up
is as of its first read, before it waited for the lock. `InsertReturning`
(SQLite, MariaDB): the INSERT returns the server default `started_at`; in MySQL
reading it after the rollback raises in the handler and the failure leaves no
record.

`SyncLedger` is the abstract specification: a sync is recorded as SUCCEEDED with
all that it listed, or as FAILED with no effect on the catalog, or not at all,
and a record is final. `ImplementsLedger` maps the committed tables to it. There
is one exception, `reused`: on SQLite the id of a rolled back job is handed out
again, and the handler of a failed sync, which writes by id, may find another
sync's job under it and overwrite it. The ledger then allows a failure to take
the place of another record, and nothing more.

### OAuthSessions

Each method of the store is one step (it holds the store's lock); each handler
is a sequence of them with the exchange in between. A sign-in is named by its
first session, so that sessions which continue each other are recognised.
`codex` and `rotating`, chosen at the start, are the kinds of deployment: with
a local Codex token file, with a provider that accepts a refresh token once,
or with one that accepts it again. `Restart` empties the memory.

### DailyReport, JobRuns, ChatTrace, ReportClients

These model MySQL. A session's snapshot is taken by its first query and again
after a commit; `seen` and `view` are what the snapshot shows of the report and
of the chat's messages. `Conflict` is the insert of a report that the snapshot
lacked and another session committed; the session is then unusable, because
nobody rolls it back: `run_job` catches the exception, goes on and raises at its
next statement (`Undo`), a chat answers with errors from its tools and fails to
record the exchange (`Lose`).

`chat` swallows every exception of the recording, so `Fault`, a lost connection or
a value too long for its column, ends a chat that was being recorded as answered
but without a record, like `Lose`, and breaks the session if it strikes in a tool.
`disturbed` are the chats that another session or such a fault has met; only of the
others does `QuietChatsRecorded` say that they are recorded.

In `JobRuns` a run loads the job, flushes RUNNING rows (`Begin`: an exclusive
lock on the job, or a shared one through the foreign key if the job already
shows RUNNING), works, and commits the outcome (`Finish`). `Summarize` is the
commit in the middle. In `ChatTrace` the requests share one session key; chats
with keys of their own have no state in common but the report. `Insert` writes
the messages in the transaction, `Record` updates the session row and commits.

### ToolBindings, AdminRecords, AdminCatalog

`StartServer` is `bootstrap_admin_catalog`: tools, data sources, jobs, the
`RestartWith` of `PromptCatalog` and `StartBindings`, in one transaction. If the
flush meets a row that the database takes for the new one (`Clash`), nothing is
committed, `on_startup` raises and there is no server (`StartFails`).

How names are compared decides about that. The bootstrap looks them up in Python,
exactly; the documented collation of MySQL (`utf8mb4_unicode_ci`) ignores case.
`Collate` is what a collation makes of a name, `caseBlind` says whether the
deployment has one, and `Alike` compares as the database does. `Clash` has one
disjunct for each table with a unique constraint that a start inserts into by a
lookup: data sources (`SourceClash`; their names are compared in lower case, `Fold`,
but a collation may ignore more than case), tables, shipped templates, snapshots
and bindings.

`TemplateRequest` stands for the requests of `PromptCatalog`: one committed row at a
time, with any key that is free, any scene, version and flag, which includes what
their races and partial updates leave; with `is_default` it takes the flag from the
rest of the scene. A shipped template may so be given another key, and the next
start inserts it again as a default beside the renamed one. `tab` in `StartBindings` is
the table that the SELECT of `_seed_tool_prompt_bindings` sees, `Reset(ids)`: the
session has no autoflush, so what `_seed_prompt_templates` flushed (rows it put
back or inserted) is visible and the flags it then gave and took are not. Of several
defaults of a scene the one with the largest id counts, which is why the ids of new
rows are given out upwards (`NextIds`). `calm` counts the starts since the last
request, for the properties that say the bootstrap converges; `edits` bounds the
requests.

`Batches` are the assets a sync, or the second commit of `seed_data.py`, adds
between two starts; `RemoveAssets` is the first commit of that script, which deletes
all assets. The bootstrap never removes a table, so `known` keeps the assets that
were there at some time: the tables are theirs (`TablesMatchAssets`).

In `AdminRecords` an update or a removal of a memory
reads the row in one step and commits in a later one; the create of a channel
has two commits, between which `LoseRequests` (a crash) may strike. The
topics of `AdminCatalog` share no table but the audit log, of which each looks
at its own actions; a behaviour is about one topic, to keep the states few.

### RequestView, Lineage, ImpactQueries, RuntimeHealth, MetadataReads

A request that only reads owns a session and disturbs nobody, so the model has
one request and lets the tables change between any two of its SELECTs.
`isolated` says whether all of them see the tables as of the first (MySQL) or
each the last commit (SQLite).

`Lineage` follows `_lineage`: `Skip` and `Fetch` take an asset from the queue and
read its rows, `Visit` is one round of the loop over them. `ImpactQueries` reads
the impacts on record and searches only if none of them names an API.
In `RuntimeHealth` the clock ticks during the request, and the day of the failed
runs is the server's date when that read comes. There are two clocks: rows carry UTC
(`seed_data.py` writes `datetime.now(timezone.utc)`), the date is `date.today()` of
a server that is ahead of it by `zone`.

The only writer of these tables in the repository is `seed_data.py`. `Reset` is
its first commit, which deletes all rows, the domains and the reports with them;
the script may end there. `Seed` is its second, two failed runs and the RED row of
their domain, all from the minutes before. `Assess` adds further snapshots of
health of any age and status; the code reads several of a domain and orders them
by time, though nothing in the repository writes a second one, so this action is
external. A domain that the script adds again may get the id of one it deleted,
and on SQLite a request that found the old one then reads rows of the new one:
`Meant`.

The histories `steady`, `met`, `past`, `ever`, `emptied` and `asked` hold what the
properties compare an answer with: the rows there were when the request came, all
those since, whether the script deleted any since, and the date when it came. On a
database with snapshots a deletion changes nothing for a request under way; without,
`Disturbed` requests may lack rows, and the properties then still say that what is
shown was there.

## What is checked

Every property names in its comment the code it is about. Each row of
`PROJECT.json`'s mutants changes one definition the way a bug in that code would
and the run then finds the property violated.

| Run | Question | Bounds |
|---|---|---|
| `PromptSerial` | One request at a time: one default per scene, snapshots that match, history that stays | 2 ids, 2 scenes, 2 versions, 2 contents, 2 starts |
| `PromptConcurrent` | Two requests at once and crashes: types, every version recorded, no history without its template, a start leaves one default per scene | 2 workers, 2 ids, 1 scene, 2 versions, 2 starts |
| `AdfSync` | Overlapping syncs with faults on SQLite, MariaDB and MySQL: refinement of `SyncLedger`, successes kept, properties versioned, no version twice where lookups see the last commit, error and status agree, every sync ends | 3 syncs, 2 assets, 2 payloads, 2 list calls, 2 changes of the factory |
| `OAuthSessions` | All kinds of deployment: redeemed once, one session per sign-in, closed stays closed, proper ends | 2 threads, 2 states, 4 sessions, clock to 4, lifetimes 1 and 2 |
| `ReportClients` | Jobs and chats that share the report: job, run and audit agree; chat records in order, and complete unless another session or a fault disturbed them; every request ends | 2 runs, 1 job, 2 chats, up to 2 tools each |
| `MetadataReads` | One question on either database while the tables change and the seed script empties and fills them: answers between what was there all the time and what ever was, edges that explain nodes, one day, failures with their red domains, an answer in the end | 6 assets, 7 dependencies, 6 states of the table, depth limit 3, 2 commits; 2 domains, 3 loads or deletions, a server one tick ahead of UTC with days of two ticks, so that its midnight and that of UTC both pass |
| `AdminCatalog` | Starts with requests, syncs, the seed script and crashes between them, on databases with and without case: bindings normalized, bindings catch up within three starts, the bootstrap settles from the fourth, a start fails over names that are alike only, data sources list the tables of the assets, the audit log accounts for the records | 5 starts; 3 ids, 3 keys and scenes of which two pairs differ in case, 2 versions that do; 2 requests about templates and bindings; 5 assets; 2 clients, 2 memories, 2 channels, 2 audit records of a kind |

Five runs each end in a violation, of a property that a comment, an assertion or
a page of the repository states; `PROJECT.json` quotes it under `findings`:

- `PromptDefaultRace`: two overlapping requests leave two defaults in a scene,
  and resolving the prompt then raises for every chat about it.
- `PromptBootstrapGap`: bootstrap leaves a scene without a default if the
  default it noted was a built-in template that an admin had moved there.
- `AdfSyncDuplicates`: on MySQL two overlapping syncs record one version twice,
  and each later sync raises at `scalar_one_or_none()`.
- `AdfSyncRepeated`: a pipeline that reads a dataset in two activities makes
  every sync fail, because the session does not flush before it looks up.
- `StartAfterSync`: a sync brings a pipeline and a dataset of one name; both
  become the same table of the same data source, and from then on no start
  succeeds.

A sixth disagreement has no run. The admin page offers to delete a prompt template
(`app/static/admin/app.js:1343-1349`) and `DELETE /api/admin/prompt-templates/{id}`
promises `{"deleted": true}` (`app/api/admin.py:298-303`), but every template has a
snapshot that refers to it, `delete_prompt_template` removes the bindings only, and
the flush is refused: no template can be deleted, which is a bug. No property states it
as a guarantee. `HistoryHasOwner` is what deletes must respect, and would after a
repair: whatever deletes, updates and restarts overlap, no snapshot is left
without its template.

On MySQL a start fails for good, too, after a request that changes the case of a
shipped template's key, of a version or of a binding's scene; `FailsOnlyOnAlikes`
names these ways next to that of `StartAfterSync` and says that there is no other.

Known limits of what the code keeps, which the properties respect and the hazards
name: `OneDefaultPerScene` is checked for clients that always send `is_default`
(with `PartialUpdates = TRUE` an update that moves a default template breaks it
until the next start); `SnapshotCurrent` excludes built-in rows, which bootstrap
resets without their snapshots; `ErrorMatchesStatus` is about a sync that loaded
the outcome its commit overwrites; `OneSessionPerLogin` and `ClosedStaysClosed`
are about providers that rotate refresh tokens; `OrderRespectsTime` is about
exchanges that do not overlap; `PastVersionsFrozen` holds for one request at a
time; `BindingsCatchUp` allows for three starts. The first may leave a scene
without a default, if the template that was it goes back to its own scene; the
second makes a template the default but binds the tools to those it found; the
third binds them to the new one. `RedDomainsComplete` is about domains that are
RED now, since the code picks the newest RED row and shows a domain that has
recovered as well; `MemoriesAudited` counts at least one removal, because two
overlapping removals of one memory are both audited; `LockedLookupsSuffice` is
`VersionsDistinct` for SQLite alone. `TablesMatchAssets` allows for tables of
assets that are gone, which no start removes. `HealthUpToDate`,
`FailuresOfOneDay`, `RedDomainsComplete` and `FailuresExplained` except, each in
part, a request on a database without snapshots from under which the seed script
deleted rows: such a request may show UNKNOWN for a domain that had a row, miss
failures, or show failures without their domain. `FailuresOfOneDay` says that the
failures are of one date in UTC, which the server's clock showed; where that is
not the date in UTC the failures of the last hours may be left out, as the code
does. `QuietChatsRecorded` excepts the faults of the database that `chat`
swallows. That a start may also fail for want of a lock or a connection is outside
of `AdminCatalog`.

### Why the bounds are enough

Two actors show each race, since each reads once and writes once; the syncs have a
third, so that one can meet the leftovers of two others. Two ids and scenes
suffice for "another row"; the runs on bootstrap and default races have three ids,
two of them for built-in rows. Two versions are a current and a past one. A
restart needs a first start to seed and a second to find what was left;
`AdminCatalog` has five: templates are settled by the third in a row, bindings by
the fourth, and another must change nothing. It has two requests between starts,
which bring about the lag of three starts, and of which the second can meet what
the first left (a renamed template and its successor, a second default moved to a
group). Three ids hold the two shipped templates and one that was renamed or made
by an admin. The assets are two systems whose names differ in case, one whose name
differs by a trailing blank that the collation ignores, and a pipeline and a
dataset of one name; together with the keys, scenes and versions they reach every
disjunct of `Clash` (`VersionClash` only together with `KeyClash`, as the third
key is alike to a shipped one; the theorem about failing starts has no such
bound). Time runs past every lifetime. One change of the factory between two list
calls yields a listing that never existed. Two commits during a search give three
states of the table, so that an asset may come into reach over rows of different
states; the graph has a long and a short way to one asset, an asset just behind
the depth limit of the long way, and a cycle. Three loads put rows before the
request, a deletion during it, and others after that. A zone of one tick, in days
of two, makes the server's date and that of UTC differ half of the time. Where a
run uses symmetry it has no liveness property.

### Fairness

`AdfSync`, `AdfSyncRepeated`, `ReportClients` and `MetadataReads` use fairness:
weak fairness of each request's own steps, a thread or a process the operating
system schedules. A waiting step is never left waiting, because the database
times out lock waits and breaks deadlocks (`Refuse`, `Lose`) and the HTTP
clients have timeouts; crashes, failures of the provider, changes of the factory
and new requests are never assumed to happen.

## What is proved

`PromptCatalogProofs` proves for all constants that satisfy the assumptions
of `PromptCatalog`, so for any number of rows, scenes, versions, workers and
starts:

- `TypeCorrect`: `Spec => []TypeOK`. What a merge of two updates leaves behind
  is a row.
- `VersionsAreRecorded`: `Spec => []VersionRecorded`.
- `HistoriesHaveOwners`: `Spec => []HistoryHasOwner`.

`VersionRecorded` is not inductive: a commit writes a row and a snapshot read
some time ago. `IInv` adds `TxKnows`: the row an open transaction loaded is
still there, the snapshot it found is still there, and a delete found
a snapshot in its way. `IInv` needs `VersionRecorded` in turn, for the last of
these. The step of the proof has one lemma per action; each shows `IInv'` and
`Grows` (no row and no snapshot is lost), from which `TxKnows` of the other
workers follows. The merge of versions is the interesting case: by `FlushRow`
the version after `Flush` is that of the committed row or of the new row, and
both have snapshots.

- `BootstrapLeavesOneDefault`: `Spec => BootstrapNormalizes`, although requests
  may leave a scene several defaults (`PromptDefaultRace`).
- `SnapshotsAreCurrent`: `Alone => (Spec => []SnapshotCurrent)`.
- `PastVersionsStay`: `Alone => (Spec => PastVersionsFrozen)`.
- `OneDefaultIsKept`: `Alone /\ ~PartialUpdates => (Spec => []OneDefaultPerScene)`.
- `AnswersAreUnambiguous`: under the same hypotheses `Spec => []SceneUnambiguous`.

The bootstrap decides by `template_key`, so the invariant `KeysInv` adds to
`IInv` that the keys tell the templates apart: a create checks it at its commit,
an update too, and a set-default writes no key (`PromotionsKeepKeys` says what
its session holds). In `Restart`, `ResetKeys` shows that rows keep their keys and
new rows get keys that were missing; two defaults of a scene then have the same
preferred key, hence are one.

The last four are about one request at a time (`Alone`: one worker at most),
which is the hypothesis of the run `PromptSerial` too; `PromptDefaultRace`
shows that `OneDefaultPerScene` needs it. What a request read is then what it
finds at its commit: `TxLoaded` says so of the row and the snapshot, `TxDemotes`
of the defaults it takes the flag from. `HistoryInv` and `FlagsInv` add the
properties to them, and `Saves` is what every commit comes to.

`AdfSyncProofs` proves of `AdfSync`, for any number of overlapping syncs, list
calls, resources and payloads, on all three databases:

- `SyncsImplementLedger`: `Spec => ImplementsLedger`, the refinement of `SyncLedger`.
- `PropertiesAreVersioned`: `Spec => []PropertiesVersioned`.
- `LockedLookupsAreEnough`: `Spec => []LockedLookupsSuffice`.
- `SucceededJobsAreKept`: `Spec => SucceededJobsKept`.
- `ErrorsMatchStatus`: `Spec => ErrorMatchesStatus`.

`SyncInv` says whose a job id is. No more ids are handed out than syncs have come
to the lock (`IdsIssued`), so one is left for each that has not. On MySQL an id
belongs to one sync until that ends (`IdsApart`), so no handler finds another
job under its own. On SQLite the ids of the table have no gap and nobody holds
one beyond the next (`IdsDense`), so the next one is free for whoever gets the
lock. Only the holder of the lock commits under an id that is free (`OneWriter`),
and a row belongs to a sync that has ended and has no other (`Owned`). What a
session sees was committed (`Views`), and on SQLite the holder of the lock sees
all of it (`ViewsCurrent`). Of the steps, `Quiet` stands for those that write no
table; `JobWritten` is the part that the two commits share. For the refinement,
`LedgerWritten` shows what a commit makes of the ledger: one more record, which
takes the place of another only if the id was in use, and then `IdsApart` rules
out MySQL and MariaDB.

`JobRunsProofs` proves of `ReportClients`, so with any number of jobs, runs and
chats on one report:

- `RunningJobsHaveRuns`: `Spec => []RunningJobHasRun`.
- `AuditIsTruthful`: `Spec => []AuditMatchesRuns`.
- `OrdersRespectTime`: `Spec => []OrderRespectsTime`.
- `QuietChatsKept`: `Spec => []QuietChatsRecorded`.
- `TypeCorrect`: `Spec => []TypeOK`.

The end of a run overwrites the run's row, so neither is inductive unless it is
known what that row was. `RunsOwned` says it: there is no row until the
summary commits, then a RUNNING row of the request's own job, until the request
ends. `JobInv` is the conjunction of this, the types and the two properties. The
case that matters is `Finish`: the job stops showing RUNNING even if other runs of
it still do, and another job that shows RUNNING keeps its own run.

For the chats, `ViewsFollow` says that a chat's snapshot holds every exchange
that was recorded before the chat began, so its own orders start behind
theirs. There may be any number of chats, and a maximum over their orders exists
only because finitely many have a number: `OrdersBounded`. `CallsBounded` is
what `ChatTypeOK` needs of the tool loop. `QuietInv` says of a chat that nothing
or fault has met that it is `Undisturbed`: what its snapshot shows is the present
state, so neither its tools nor its record meet a conflict.

`OAuthProofs` proves of `OAuthSessions`, for any number of threads and any
lifetimes, with and without a Codex file or a rotating provider:

- `TypeCorrect`: `Spec => []TypeOK`.
- `StatesRedeemedOnce`: `Spec => []StateRedeemedOnce`.
- `SessionsEnd`: `Spec => SessionsEndProperly`.
- `SessionsDoNotMultiply`: `Spec => []OneSessionPerLogin`.
- `LogoutsLast`: `Spec => []ClosedStaysClosed`.

The inductive invariant adds `StatesFresh` (a state in the store has not been
redeemed), `IdsIssued` (only ids that were handed out are in use) and
`NewSessionKept`: from the moment a refresh has stored its new session until it
deletes the old one, the new one is there as long as it lives, because no other
thread knows its id. The last one is what makes "create before delete" safe, and it
needs that ids are not reissued. `PutKeeps` and `DropKeeps` do the work once for
all actions: a step either stores one session or only takes some away.

The last two are about refresh tokens that are good for one use. `SingleInv` says
of each sign-in who has the good one (`OneRefresh`): one thread at most is
between the provider's answer and the end of its refresh, the live sessions are
its old one and its new one, and without such a thread there is at most one.
Threads that still ask with the old token get nothing for it.

`LineageProofs` proves of `MetadataReads`, for every graph, depth limit and
number of commits:

- `NodesAreExplained`: `Spec => []NodesExplained`.
- `EdgesAreExact`: `Spec => []EdgesExact`.
- `AnswerLiesBetween`: `Spec => []AnswerBetween`.
- `ApisAreAccountedFor`: `Spec => []ApisAccounted`.

`LineageInv` says what the search has done so far: the queue holds found assets,
each once (`Queue`); a row is an edge only if its start has left the queue, and
then once, its end being found or still to do (`Todo`, `Edges`); the rows that
were there all the time and start at an asset that was expanded are edges
(`Expanded`). That the queue has no repetition is what keeps a cycle from
listing a row twice.

`AnswerBetween` compares the answer with reachability, which `Within` defines
layer by layer. `LayersInv` is what makes a breadth-first search right: the queue
is sorted by depth and spans two layers at most (`Layers`), and a row that was
followed leads at most one layer further (`Followed`). By induction over the
depth every found asset is in its layer over rows that were there some time
(`FoundMet`), and every asset of a layer over rows that were there all the time
is found no later (`SteadyFound`). The induction is over a set of numbers:
`Induct` of `NaturalsLemmas` derives from the well-foundedness of `<` that a set
with 0 and every successor holds all numbers, which needs no operator as a
parameter. `Derived` ties the APIs of an answer to the records or to the search.

`RuntimeHealthProofs` proves of `MetadataReads`, for any number of domains,
loads, deletions, zones and days of any length:

- `HealthIsUpToDate`: `Spec => []HealthUpToDate`.
- `FailuresAreOfOneDay`: `Spec => []FailuresOfOneDay`.
- `RedDomainsAreComplete`: `Spec => []RedDomainsComplete`.
- `FailuresAreExplained`: `Spec => []FailuresExplained`.

`HealthInv` adds that the rows the request sees were all there at some time since
it came, and hold those there were when it came unless it is disturbed
(`FactsBetween`), that each failed run has its RED row in the tables and in the
view (`AllPaired`), and each property in the form it has between the reads that
establish it (`HealthRead`, `FailuresRead`, `FailuresSeen`, `RedShown`). The order
of the reads carries the last theorem: unless the seed script deletes rows, rows
only arrive, so the RED row of a failed run that was read is still there when the
red domains are read; if it does and the request has no snapshot, the request is
`Disturbed`, and stays so. `LoadsShow` is what the commits of others do to what
the request sees, once for all three of them. `DayOfTime` shows that the window of
`_day_window` is the calendar day, and `TodayIsADay` that the server's date is one
that the properties quantify over.

`AdminCatalogProofs` proves of `AdminCatalog`, for any assets, syncs, clients and
number of starts:

- `StartsFailOnAlikesOnly`: `CatalogSpec => FailsOnlyOnAlikes`.
- `TablesAreThoseOfAssets`: `CatalogSpec => TablesMatchAssets`.
- `MemoriesAreAudited`: `CatalogSpec => []MemoriesAudited`.
- `ChannelsAreAudited`: `CatalogSpec => []ChannelsAudited`.

- `StartsNormalizeBindings`: `CatalogSpec => BindingsNormalized`.
- `StartsKeepTheChosen`: `CatalogSpec => ChosenKept`.
- `SecondDefaultsAreMoved`: `CatalogSpec => SecondDefaultMoved`.
- `BindingsFollow`: `CatalogSpec => []BindingsCatchUp`.
- `BootstrapComesToRest`: `CatalogSpec => BootstrapSettles`.
- `StartsPutTemplatesInOrder`: `CatalogSpec => [](calm >= 1 => OneDefaultPerScene /\ VersionRecorded /\ Restored)`.
- `CatalogTypeCorrect`: `CatalogSpec => []CatalogTypeOK`.

The first two rest on `TablesOfAssets` (every source and table is that of an asset
that was there at some time): a clash with a committed table is then a clash of
two assets, of which one may be gone. For the other clashes `ResetVersion` says
that the version of a row is its own or that of the shipped template with its key.
The audit theorems rest on `RecordsInv`, which adds that requests work on ids that
were given out, and that the removals of a memory are among the audited ones; the
sets counted are finite.

For the templates and the bindings, `CatalogKeys` says that keys are distinct,
that a free id has no snapshots and that no session is open; `TemplateRequestKeys`
shows that requests which change keys keep it. `VersionRecorded` is not part of
it: on a database without case a request may leave a row with a snapshot of a
version that is only alike. `BindingsInv` is the types of the bindings. The loop
over the default pairs is a recursive function; `AddedAll` shows by induction over
its rounds that it appends default bindings only and leaves every wanted pair
bound, and `StartSettles` what the normalization then makes of a group. `CalmInv`
says what a start may count on after how many starts in a row: from one on the
built-in templates are there and as shipped but for their flags (`Restored`), each
scene has one default template at most, each template a snapshot of its version,
and each group of bindings one default; from two on every scene with a shipped
default has one (`Covered`); from three on the tools are bound to it. What the
requests left before does not matter, renamed templates included, since
`ResetRestores` puts every shipped template back under its key. TLC checked
`CalmInv` before it was proved, and refuted its first form, in which the bindings
followed within two starts: with two shipped templates the first start can take a
scene its only default.

All of them assume only the named ASSUMEs of their modules: the ranges of the
constants, that `None` is not a value of the data, and of the ids of templates
that a nonempty set of them has a largest, as the ids of the rows of a table do.
The hypotheses on requests (`Alone`, `PartialUpdates`) are stated in the
theorems that need them.

Every invariant and every action property of the passing runs is proved. Only
model-checked are the liveness properties `SyncEnds`, `RequestsEnd` and
`QuestionsAnswered`, which are out of the prover's reach, and the five
violations. `TypeOK` of each part is proved on its own (`PromptCatalog`,
`OAuthSessions`, `ReportClients`, `AdminCatalog`) or inside the inductive
invariants above (`AdfSync`, `MetadataReads`).

## What is not modelled

The list with reasons is under `components` in `PROJECT.json`: scene inference
and search suggestions (a text is compared with fixed lists of words, and one
SELECT with LIKE: neither has state or an order of steps, and a model would
repeat the lists), the admin page, configuration, and the operator's scripts, of which
`reset_metadata_db.py` drops the whole database. Within the modelled parts:

- texts and payload contents, paging, HTTP details, the answers of the model
  provider;
- reads of one SELECT: the details of an asset, the SLA list, the lists and the
  dashboard of the admin API;
- what the seed script does to the report while a job or a chat writes it, and to the
  assets under a search (in `Lineage` dependencies come and go and assets stay);
- two overlapping requests on bindings: they come one at a time, so the race of
  two new defaults, which is that of `PromptDefaultRace`, is not shown again;
- what the code does in plain sight and no property is about: a resource that
  was removed from the factory stays active for ever, a job is committed before
  its audit record (as a channel is, which is modelled), a summary asked for
  again overwrites the report of a past day.

## What could follow

Overlapping requests on bindings, with the theorems about them for one request
at a time; the refinement of an abstract session store by `OAuthSessions`;
`OneDefaultPerScene` for the requests that overlap on different scenes only.
