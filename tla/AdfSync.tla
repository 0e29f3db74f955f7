------------------------------- MODULE AdfSync -------------------------------
(***************************************************************************)
(* AzureIngestionService.sync_adf_metadata of                              *)
(* app/services/azure_ingestion_service.py, run by requests and by the     *)
(* command line, each with a session of its own, while the data factory    *)
(* changes.  A sync reads the row of its source, takes the write lock with *)
(* its first flush, lists the factory in several calls and commits         *)
(* everything at once; an exception rolls it back and a second transaction *)
(* records the failure.  The RUNNING rows are flushed but never committed. *)
(*                                                                         *)
(* Two facts about the database matter.  With SnapshotReads (MySQL and     *)
(* MariaDB, REPEATABLE READ) the session sees the tables as of its first   *)
(* read; without (SQLite) it sees the last commit once it holds the lock.  *)
(* InsertReturning says that an INSERT hands back the server defaults      *)
(* (SQLite, MariaDB); without it (MySQL) job.started_at is unloaded when   *)
(* the rollback detaches the job, and the failure handler that reads it    *)
(* raises before it has recorded anything.                                 *)
(***************************************************************************)
EXTENDS Naturals, FiniteSets, Sequences

CONSTANTS
    Syncs,           \* the syncs, each of which runs once
    Assets,          \* resources of the data factory
    Payloads,        \* payloads of a resource, one per version_hash
    Refs,            \* Refs[a][p][b]: how often payload p of a refers to b in
                     \* the one way that gives one dependency
    Calls,           \* Calls[k]: the resources the k-th list call covers
    Databases,       \* the databases considered, of the three above
    Overlap,         \* TRUE: a sync may start while another one is under way
    Faults,          \* TRUE: Azure calls may fail and processes may die
    MaxDeploys,      \* bound on the number of changes of the factory
    None             \* no row, no payload

ASSUME ParameterAssumption ==
    /\ IsFiniteSet(Syncs)
    /\ Calls \in Seq(SUBSET Assets)
    /\ Refs \in [Assets -> [Payloads -> [Assets -> Nat]]]
    /\ Databases \subseteq {"sqlite", "mysql", "mariadb"}
    /\ {Overlap, Faults} \subseteq BOOLEAN
    /\ MaxDeploys \in Nat
    /\ None \notin Payloads

JobIds == 1..Cardinality(Syncs)

Listings == [Assets -> Payloads \cup {None}]

\* The rows of source_sync_state and ingestion_jobs; owner is the sync that
\* wrote the job row last.
SourceRow == [status: {"SUCCEEDED", "FAILED"}, error: BOOLEAN]
JobRow == [status: {"SUCCEEDED", "FAILED"}, owner: Syncs]

\* assets, asset_versions (with the number of rows for each hash) and
\* asset_dependencies.
Catalog == [assets: SUBSET Assets, versions: [Assets -> [Payloads -> Nat]],
            edges: SUBSET (Assets \X Assets)]

ASSUME NoneAssumption == None \notin SourceRow \cup JobRow

VARIABLES
    database, \* the database of the deployment
    factory,  \* factory[a]: the payload of resource a in Azure, or None
    deploys,  \* number of changes of the factory so far
    source,   \* the row of the source in source_sync_state, or None
    jobs,     \* jobs[j]: the committed job with id j, or None
    catalog,  \* the committed catalog
    props,    \* props[a]: the payload whose asset_properties are committed
    nextId,   \* AUTO_INCREMENT of ingestion_jobs
    sess      \* sess[s]: the session of sync s

vars == <<database, factory, deploys, source, jobs, catalog, props, nextId, sess>>

SnapshotReads == database # "sqlite"
InsertReturning == database # "mysql"

\* pc: idle, opened (source row read), running (holds the lock), failing
\* (rolled back), reporting (source row and job id read again), ended.
Session(pc) == [pc |-> pc, loaded |-> None, view |-> None, listing |-> [a \in Assets |-> None],
                calls |-> 0, job |-> None, seen |-> FALSE]

Sessions == [pc: {"idle", "opened", "running", "failing", "reporting", "ended"},
             loaded: SourceRow \cup {None}, view: Catalog \cup {None}, listing: Listings,
             calls: 0..Len(Calls), job: JobIds \cup {None}, seen: BOOLEAN]

TypeOK ==
    /\ database \in Databases
    /\ factory \in Listings
    /\ deploys \in 0..MaxDeploys
    /\ source \in SourceRow \cup {None}
    /\ jobs \in [JobIds -> JobRow \cup {None}]
    /\ catalog \in Catalog
    /\ props \in Listings
    /\ nextId \in 1..(Cardinality(Syncs) + 1)
    /\ sess \in [Syncs -> Sessions]

Init ==
    /\ database \in Databases
    /\ factory \in Listings
    /\ deploys = 0
    /\ source = None
    /\ jobs = [j \in JobIds |-> None]
    /\ catalog = [assets |-> {}, versions |-> [a \in Assets |-> [p \in Payloads |-> 0]],
                  edges |-> {}]
    /\ props = [a \in Assets |-> None]
    /\ nextId = 1
    /\ sess = [s \in Syncs |-> Session("idle")]

-----------------------------------------------------------------------------
(* Where a sync is and what it would write.                                *)

At(s, pc) == sess[s].pc = pc

\* The sync that holds the lock on the source row (MySQL) or the database file
\* (SQLite) keeps every other one from writing.
LockFree == \A s \in Syncs : ~At(s, "running")

Listed(listing) == {a \in Assets : listing[a] # None}

\* Mutant of EdgesOf: a reference to a resource that was not listed is kept.
DanglingEdges(listing) ==
    {e \in Listed(listing) \X Assets : Refs[e[1]][listing[e[1]]][e[2]] > 0}

\* The dependencies a listing asks for: a reference to a resource that was not
\* listed is dropped.
EdgesOf(listing) ==
    {e \in Listed(listing) \X Listed(listing) : Refs[e[1]][listing[e[1]]][e[2]] > 0}

\* The body of the sync raises: two rows for one version hash were found; a
\* row that it believes new is there already; or it adds the same dependency
\* twice, because the session does not flush before it queries.
Conflict(s) ==
    LET listing == sess[s].listing
        view == sess[s].view
    IN  \/ \E a \in Listed(listing) :
              \/ view.versions[a][listing[a]] > 1
              \/ a \in catalog.assets \ view.assets
        \/ \E e \in EdgesOf(listing) \ view.edges :
              e \in catalog.edges \/ Refs[e[1]][listing[e[1]]][e[2]] > 1

\* Mutants of Added: a version is added on every sync; only with the asset.
AddedAlways(s, a, p) == sess[s].listing[a] = p
AddedFirst(s, a, p) == sess[s].listing[a] = p /\ a \notin sess[s].view.assets

\* A version row is added for a payload the session has not seen.
Added(s, a, p) == sess[s].listing[a] = p /\ sess[s].view.versions[a][p] = 0

\* Mutant of ClearedError: the error of the last failure stays.
KeptError(s) == source # None /\ source.error

\* last_error is not written if the row was loaded without one.
ClearedError(s) == IF sess[s].loaded = None \/ source = None THEN FALSE
                   ELSE ~sess[s].loaded.error /\ source.error

\* The id of a job is never used again on MySQL; SQLite takes the one after the
\* largest of the table.
NewJobId ==
    IF SnapshotReads THEN nextId
    ELSE CHOOSE j \in JobIds : /\ \A k \in JobIds : jobs[k] # None => k < j
                               /\ j = 1 \/ jobs[j - 1] # None

-----------------------------------------------------------------------------
(* The steps of a sync.                                                    *)

\* _get_or_create_sync_state reads the row; the snapshot of the session is the
\* catalog as it is now.
Open(s) ==
    /\ At(s, "idle")
    /\ Overlap \/ \A u \in Syncs : At(u, "idle") \/ At(u, "ended")
    /\ sess' = [sess EXCEPT ![s] = [Session("opened") EXCEPT !.loaded = source, !.view = catalog]]
    /\ UNCHANGED <<factory, deploys, source, jobs, catalog, props, nextId>>

\* The source row is inserted if there was none, the job is inserted, and both
\* are RUNNING for this session only.
Lock(s) ==
    /\ At(s, "opened")
    /\ LockFree
    /\ sess[s].loaded = None => source = None
    /\ sess' = [sess EXCEPT ![s].pc = "running", ![s].job = NewJobId,
                            ![s].view = IF SnapshotReads THEN @ ELSE catalog]
    /\ nextId' = nextId + 1
    /\ UNCHANGED <<factory, deploys, source, jobs, catalog, props>>

\* The lock is not granted in time or goes to another session in a deadlock,
\* or the source row was inserted meanwhile.  Before the try block this is a
\* plain error; in the failure handler it loses the report.
Refuse(s) ==
    /\ \/ (At(s, "opened") \/ At(s, "reporting")) /\ ~LockFree
       \/ At(s, "opened") /\ sess[s].loaded = None /\ source # None
    /\ sess' = [sess EXCEPT ![s] = Session("ended")]
    /\ UNCHANGED <<factory, deploys, source, jobs, catalog, props, nextId>>

\* Mutant of List: the next link leads to the same page.
ListAgain(s) ==
    /\ At(s, "running")
    /\ sess[s].calls < Len(Calls)
    /\ sess' = [sess EXCEPT ![s].listing = factory]
    /\ UNCHANGED <<factory, deploys, source, jobs, catalog, props, nextId>>

\* One call of list_resources, with all its pages.
List(s) ==
    LET k == sess[s].calls + 1
    IN  /\ At(s, "running")
        /\ k <= Len(Calls)
        /\ sess' = [sess EXCEPT ![s].calls = k,
                        ![s].listing = [a \in Assets |-> IF a \in Calls[k] THEN factory[a] ELSE @[a]]]
        /\ UNCHANGED <<factory, deploys, source, jobs, catalog, props, nextId>>

\* _sync_assets, _sync_dependencies and the commit.
Succeed(s) ==
    LET listing == sess[s].listing
    IN  /\ At(s, "running")
        /\ sess[s].calls = Len(Calls)
        /\ ~Conflict(s)
        /\ catalog' = [assets |-> catalog.assets \cup Listed(listing),
                       versions |-> [a \in Assets |-> [p \in Payloads |->
                           catalog.versions[a][p] + IF Added(s, a, p) THEN 1 ELSE 0]],
                       edges |-> catalog.edges \cup EdgesOf(listing)]
        /\ props' = [a \in Assets |-> IF listing[a] # None THEN listing[a] ELSE props[a]]
        /\ source' = [status |-> "SUCCEEDED", error |-> ClearedError(s)]
        /\ jobs' = [jobs EXCEPT ![sess[s].job] = [status |-> "SUCCEEDED", owner |-> s]]
        /\ sess' = [sess EXCEPT ![s] = Session("ended")]
        /\ UNCHANGED <<factory, deploys, nextId>>

\* An exception in the try block: everything is rolled back.
RollBack(s) ==
    /\ sess' = [sess EXCEPT ![s] = [Session("failing") EXCEPT !.job = sess[s].job]]
    /\ UNCHANGED <<factory, deploys, source, jobs, catalog, props, nextId>>

Raise(s) ==
    /\ At(s, "running")
    /\ sess[s].calls = Len(Calls)
    /\ Conflict(s)
    /\ RollBack(s)

\* A list call fails.
CallFails(s) ==
    /\ Faults
    /\ At(s, "running")
    /\ sess[s].calls < Len(Calls)
    /\ RollBack(s)

\* The failure handler reads the source row again and looks the job id up
\* (merge); without InsertReturning it raises in between.
Reload(s) ==
    /\ At(s, "failing")
    /\ sess' = [sess EXCEPT ![s] =
           IF InsertReturning
           THEN [@ EXCEPT !.pc = "reporting", !.loaded = source,
                          !.seen = jobs[sess[s].job] # None]
           ELSE Session("ended")]
    /\ UNCHANGED <<factory, deploys, source, jobs, catalog, props, nextId>>

\* What the source shows of a failure: an attribute equal to the loaded one is
\* not written.
FailedStatus(s) ==
    IF sess[s].loaded # None /\ sess[s].loaded.status = "FAILED" THEN source.status ELSE "FAILED"

\* Mutant of ReportedId: the latest job of the source, if it has one.
LatestId(s) ==
    CHOOSE j \in JobIds : IF \A k \in JobIds : jobs[k] = None THEN j = sess[s].job
                          ELSE jobs[j] # None /\ \A k \in JobIds : k > j => jobs[k] = None

ReportedId(s) == sess[s].job

\* It commits the FAILED rows, unless a row it believes new is there by now.
Report(s) ==
    LET t == sess[s]
        lost == (t.loaded = None /\ source # None) \/ (~t.seen /\ jobs[t.job] # None)
        errors == {TRUE} \cup IF t.loaded # None /\ t.loaded.error THEN {source.error} ELSE {}
    IN  /\ At(s, "reporting")
        /\ LockFree
        /\ \/ /\ lost
              /\ UNCHANGED <<source, jobs>>
           \/ /\ ~lost
              /\ \E error \in errors : source' = [status |-> FailedStatus(s), error |-> error]
              /\ jobs' = [jobs EXCEPT ![ReportedId(s)] = [status |-> "FAILED", owner |-> s]]
        /\ sess' = [sess EXCEPT ![s] = Session("ended")]
        /\ UNCHANGED <<factory, deploys, catalog, props, nextId>>

\* The process of the sync dies; the database rolls its transaction back.
Die(s) ==
    /\ Faults
    /\ sess[s].pc \notin {"idle", "ended"}
    /\ sess' = [sess EXCEPT ![s] = Session("ended")]
    /\ UNCHANGED <<factory, deploys, source, jobs, catalog, props, nextId>>

\* The factory changes: external.
Deploy ==
    /\ deploys < MaxDeploys
    /\ deploys' = deploys + 1
    /\ \E a \in Assets, p \in Payloads \cup {None} :
          p # factory[a] /\ factory' = [factory EXCEPT ![a] = p]
    /\ UNCHANGED <<source, jobs, catalog, props, nextId, sess>>

Run(s) ==
    \/ Open(s) \/ Lock(s) \/ Refuse(s) \/ List(s)
    \/ Succeed(s) \/ Raise(s) \/ Reload(s) \/ Report(s)

Next ==
    /\ Deploy \/ \E s \in Syncs : Run(s) \/ CallFails(s) \/ Die(s)
    /\ UNCHANGED database

Spec == Init /\ [][Next]_vars

\* A sync is a thread of its own, which the scheduler lets go on when it can;
\* nothing makes a call fail or a process die.
FairSpec == Spec /\ \A s \in Syncs : WF_vars(Run(s) /\ UNCHANGED database)

-----------------------------------------------------------------------------
(* Properties.                                                             *)

\* A resource has at most one version row for a payload, however syncs
\* overlap: the lookup by hash (_store_asset_metadata) raises on two.
VersionsDistinct == \A a \in Assets, p \in Payloads : catalog.versions[a][p] <= 1

\* Where a sync looks up the last commit under its lock, that is so: neither a
\* wait for another sync nor a change of the factory in between lets it miss a
\* version (_store_asset_metadata on SQLite).
LockedLookupsSuffice == ~SnapshotReads => VersionsDistinct

\* The payload whose properties an asset shows is in its version history, even
\* if another sync wrote that history (_store_asset_metadata).
PropertiesVersioned ==
    \A a \in Assets : props[a] # None => a \in catalog.assets /\ catalog.versions[a][props[a]] > 0

\* Where the database never uses an id again, the job row of a sync that
\* succeeded is never rewritten, in particular not by the failure handler of
\* another sync, which writes by the job's id.
SucceededJobsKept ==
    [][\A j \in JobIds :
          SnapshotReads /\ jobs[j] # None /\ jobs[j].status = "SUCCEEDED" => jobs'[j] = jobs[j]]_vars

\* A sync that loaded the outcome of the last one leaves the source with an
\* error exactly if it failed, whether it clears the error or the session
\* finds nothing to clear (sync_adf_metadata and its failure handler).
ErrorMatchesStatus ==
    [][\A s \in Syncs :
          sess[s].loaded = source /\ sess'[s] # sess[s] /\ source' # source =>
              (source'.error <=> source'.status = "FAILED")]_vars

\* A sync that neither a fault nor another sync disturbs is recorded as
\* SUCCEEDED in the end.
SyncSucceeds == <>(\A s \in Syncs : \E j \in JobIds : jobs[j] = [status |-> "SUCCEEDED", owner |-> s])

\* Every sync that was started ends: in the end none is under way, however
\* they wait for each other's locks (sync_adf_metadata).
SyncEnds == <>[](\A s \in Syncs : At(s, "idle") \/ At(s, "ended"))

\* The syncs implement the ledger of SyncLedger: each is recorded at most once
\* and for good, with all of its effect or with none.
Outcome(s) == LET own == {j \in JobIds : jobs[j] # None /\ jobs[j].owner = s}
              IN  IF own = {} THEN None ELSE jobs[CHOOSE j \in own : TRUE].status

Ledger == INSTANCE SyncLedger WITH
    reused <- ~SnapshotReads,
    ledger <- [s \in Syncs |-> Outcome(s)],
    assets <- catalog.assets,
    versions <- {v \in Assets \X Payloads : catalog.versions[v[1]][v[2]] > 0},
    edges <- catalog.edges

ImplementsLedger == Ledger!Spec
=============================================================================
