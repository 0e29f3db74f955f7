----------------------------- MODULE AdfSyncProofs -----------------------------
(* That the syncs implement SyncLedger, and what holds of the catalog, for    *)
(* any number of overlapping syncs, resources, payloads and list calls and    *)
(* any references between the resources.                                      *)
EXTENDS AdfSync, FiniteSetTheorems, TLAPS

\* The syncs that work with a job id, and those whose snapshot counts.
Pending(s) == sess[s].pc \in {"running", "failing", "reporting"}
Reading(s) == sess[s].pc \in {"opened", "running"}
Started == {s \in Syncs : sess[s].pc \notin {"idle", "opened"}}

\* A source row that a session loaded is there.
SourceStays == \A s \in Syncs : sess[s].loaded # None => source # None

\* The lock has one holder, and nobody else has committed a job under its id.
OneWriter ==
    /\ \A s, u \in Syncs : At(s, "running") /\ At(u, "running") => s = u
    /\ \A s \in Syncs : At(s, "running") => jobs[sess[s].job] = None

\* A job row belongs to a sync that has ended, and a sync has one at most.
Owned ==
    \A j \in JobIds : jobs[j] # None =>
        /\ At(jobs[j].owner, "ended")
        /\ \A k \in JobIds : jobs[k] # None /\ jobs[k].owner = jobs[j].owner => k = j

\* Ids in use were handed out, no more than one to a sync.
IdsIssued ==
    /\ nextId <= Cardinality(Started) + 1
    /\ \A s \in Syncs : Pending(s) => sess[s].job \in JobIds /\ sess[s].job < nextId
    /\ \A j \in JobIds : jobs[j] # None => j < nextId

\* MySQL: an id belongs to one sync, and its job is that sync's to commit.
IdsApart ==
    SnapshotReads => \A s \in Syncs : Pending(s) =>
        /\ jobs[sess[s].job] = None
        /\ \A u \in Syncs : Pending(u) /\ sess[u].job = sess[s].job => u = s

\* SQLite: the ids of the table have no gaps, and none is handed out beyond
\* the next one.
IdsDense ==
    ~SnapshotReads => \E top \in Nat :
        /\ \A k \in JobIds : jobs[k] # None <=> k <= top
        /\ \A s \in Syncs : Pending(s) => sess[s].job <= top + 1
        /\ top < nextId

\* A version that a session sees is in the catalog; on SQLite the holder of the
\* lock sees the catalog as it is.
Views ==
    \A s \in Syncs : Reading(s) =>
        /\ sess[s].view \in Catalog
        /\ \A a \in Assets, p \in Payloads :
               sess[s].view.versions[a][p] > 0 => catalog.versions[a][p] > 0

ViewsCurrent ==
    ~SnapshotReads => \A s \in Syncs : At(s, "running") => sess[s].view = catalog

SyncInv ==
    /\ TypeOK /\ SourceStays /\ OneWriter /\ Owned
    /\ IdsIssued /\ IdsApart /\ IdsDense
    /\ Views /\ ViewsCurrent
    /\ PropertiesVersioned /\ LockedLookupsSuffice

-----------------------------------------------------------------------------
\* There are as many ids as syncs.
LEMMA IdsAreNumbers == Cardinality(Syncs) \in Nat /\ JobIds \subseteq Nat \ {0}
  BY FS_CardinalityType, ParameterAssumption DEF JobIds

\* A session that says nothing but where it is.
LEMMA SessionType ==
    ASSUME NEW pc \in {"idle", "opened", "running", "failing", "reporting", "ended"}
    PROVE  /\ Session(pc) \in Sessions /\ Session(pc).pc = pc
           /\ Session(pc).loaded = None /\ Session(pc).job = None
  <1>1. Len(Calls) \in Nat
    BY ParameterAssumption
  <1>2. 0 \in 0..Len(Calls) /\ [a \in Assets |-> None] \in Listings
    BY <1>1 DEF Listings
  <1> QED
    BY <1>2 DEF Session, Sessions

\* Syncs that have not come to the lock are not counted; one of them is a sync
\* more.
LEMMA StartedCount ==
    ASSUME TypeOK
    PROVE  /\ IsFiniteSet(Started) /\ Cardinality(Started) \in Nat
           /\ Cardinality(Started) <= Cardinality(Syncs)
           /\ \A s \in Syncs \ Started : Cardinality(Started) < Cardinality(Syncs)
  <1>1. IsFiniteSet(Syncs) /\ Started \subseteq Syncs
    BY ParameterAssumption DEF Started
  <1>2. /\ IsFiniteSet(Started) /\ Cardinality(Started) <= Cardinality(Syncs)
        /\ Cardinality(Started) = Cardinality(Syncs) => Started = Syncs
    BY <1>1, FS_Subset
  <1>3. Cardinality(Started) \in Nat /\ Cardinality(Syncs) \in Nat
    BY <1>1, <1>2, FS_CardinalityType
  <1> QED
    BY <1>2, <1>3

\* Nothing has been synced yet.
LEMMA SyncInitInv == Init => SyncInv
  <1> SUFFICES ASSUME Init PROVE SyncInv
    OBVIOUS
  <1> USE DEF Init
  <1>0. /\ Session("idle") \in Sessions /\ Session("idle").pc = "idle"
        /\ Session("idle").loaded = None
    BY SessionType
  <1>a. \A s \in Syncs : sess[s] = Session("idle")
    OBVIOUS
  <1>1. TypeOK
    BY <1>0, IdsAreNumbers, ParameterAssumption DEF TypeOK, Catalog, Listings
  <1>2. SourceStays /\ OneWriter /\ Views /\ ViewsCurrent
    BY <1>0, <1>a DEF SourceStays, OneWriter, Views, ViewsCurrent, Reading, At
  <1>3. Owned /\ IdsApart
    BY <1>0, <1>a DEF Owned, IdsApart, Pending
  <1>4. IdsIssued
    BY <1>0, <1>1, <1>a, StartedCount DEF IdsIssued, Pending
  <1>5. IdsDense
    <2>1. \A k \in JobIds : ~(k <= 0)
      BY IdsAreNumbers
    <2> QED
      BY <1>0, <1>a, <2>1 DEF IdsDense, Pending
  <1>6. PropertiesVersioned /\ LockedLookupsSuffice
    BY DEF PropertiesVersioned, LockedLookupsSuffice, VersionsDistinct
  <1> QED
    BY <1>1, <1>2, <1>3, <1>4, <1>5, <1>6 DEF SyncInv

\* More syncs have come to the lock, or as many.
LEMMA CountGrows ==
    ASSUME NEW A, NEW B, A \subseteq B, B \subseteq Syncs
    PROVE  /\ Cardinality(A) \in Nat /\ Cardinality(B) \in Nat
           /\ Cardinality(A) <= Cardinality(B)
           /\ A # B => Cardinality(A) + 1 <= Cardinality(B)
  <1>1. IsFiniteSet(B)
    BY ParameterAssumption, FS_Subset
  <1>2. /\ IsFiniteSet(A) /\ Cardinality(A) <= Cardinality(B)
        /\ Cardinality(A) = Cardinality(B) => A = B
    BY <1>1, FS_Subset
  <1>3. Cardinality(A) \in Nat /\ Cardinality(B) \in Nat
    BY <1>1, <1>2, FS_CardinalityType
  <1> QED
    BY <1>2, <1>3

-----------------------------------------------------------------------------
(* Steps that commit nothing.                                              *)

\* The session of s becomes t, which uses no new id and is not nearer to a
\* commit on behalf of others.
Quiet(s, t) ==
    /\ t \in Sessions
    /\ sess' = [sess EXCEPT ![s] = t]
    /\ UNCHANGED <<database, factory, deploys, source, jobs, catalog, props, nextId>>
    /\ sess[s].pc # "ended"
    /\ sess[s].pc \notin {"idle", "opened"} => t.pc \notin {"idle", "opened"}
    /\ t.pc = "running" => sess[s].pc = "running" /\ t.view = sess[s].view
    /\ t.pc \in {"running", "failing", "reporting"} => Pending(s) /\ t.job = sess[s].job
    /\ t.pc = "opened" => t.view = catalog
    /\ t.loaded # None => source # None

\* Such a step keeps the invariant.
LEMMA QuietKeeps ==
    ASSUME SyncInv, NEW s \in Syncs, NEW t, Quiet(s, t)
    PROVE  SyncInv'
  <1> USE DEF Quiet
  <1>1. TypeOK'
    BY DEF SyncInv, TypeOK
  <1>2. sess'[s] = t /\ \A u \in Syncs \ {s} : sess'[u] = sess[u]
    BY DEF SyncInv, TypeOK
  <1>3. SourceStays'
    BY <1>2 DEF SyncInv, SourceStays
  <1>4. OneWriter'
    BY <1>2 DEF SyncInv, OneWriter, At
  <1>5. Owned'
    <2>1. \A j \in JobIds : jobs[j] # None => jobs[j].owner \in Syncs
      BY DEF SyncInv, TypeOK, JobRow
    <2>2. \A u \in Syncs : At(u, "ended") => At(u, "ended")'
      BY <1>2 DEF At
    <2> QED
      BY <2>1, <2>2 DEF SyncInv, Owned
  <1>6. IdsIssued'
    <2>1. Started \subseteq Started' /\ Started' \subseteq Syncs
      BY <1>2 DEF Started
    <2>2. /\ Cardinality(Started) <= Cardinality(Started')
          /\ Cardinality(Started) \in Nat /\ Cardinality(Started') \in Nat
      BY <2>1, CountGrows
    <2>3. nextId \in Nat /\ nextId <= Cardinality(Started')  + 1
      BY <2>2, IdsAreNumbers DEF SyncInv, IdsIssued, TypeOK
    <2>4. \A u \in Syncs : Pending(u)' => sess'[u].job \in JobIds /\ sess'[u].job < nextId
      BY <1>2 DEF SyncInv, IdsIssued, Pending
    <2> QED
      BY <2>3, <2>4 DEF SyncInv, IdsIssued
  <1>7. IdsApart'
    <2>1. \A u \in Syncs : Pending(u)' => Pending(u) /\ sess'[u].job = sess[u].job
      BY <1>2 DEF Pending
    <2> QED
      BY <2>1 DEF SyncInv, IdsApart, SnapshotReads
  <1>8. IdsDense'
    <2>1. \A u \in Syncs : Pending(u)' => Pending(u) /\ sess'[u].job = sess[u].job
      BY <1>2 DEF Pending
    <2> QED
      BY <2>1 DEF SyncInv, IdsDense, SnapshotReads
  <1>9. Views'
    <2>1. \A u \in Syncs : Reading(u)' => sess'[u].view = catalog \/ (Reading(u) /\ sess'[u].view = sess[u].view)
      BY <1>2 DEF Reading, SyncInv, TypeOK, Sessions
    <2>2. catalog \in Catalog
      BY DEF SyncInv, TypeOK
    <2> QED
      BY <2>1, <2>2 DEF SyncInv, Views
  <1>10. ViewsCurrent'
    BY <1>2 DEF SyncInv, ViewsCurrent, SnapshotReads, At
  <1>11. PropertiesVersioned' /\ LockedLookupsSuffice'
    BY DEF SyncInv, PropertiesVersioned, LockedLookupsSuffice, VersionsDistinct, SnapshotReads
  <1> QED
    BY <1>1, <1>3, <1>4, <1>5, <1>6, <1>7, <1>8, <1>9, <1>10, <1>11 DEF SyncInv

\* Of a session that rests with the outcome of its sync nothing is asked.
LEMMA EndIsQuiet ==
    ASSUME SyncInv, NEW s \in Syncs, sess[s].pc # "ended",
           sess' = [sess EXCEPT ![s] = Session("ended")],
           UNCHANGED <<database, factory, deploys, source, jobs, catalog, props, nextId>>
    PROVE  Quiet(s, Session("ended"))
  BY SessionType DEF Quiet

\* The steps that only read, list, give up or die.
LEMMA QuietSteps ==
    ASSUME SyncInv, NEW s \in Syncs, UNCHANGED database,
           \/ Open(s) \/ Refuse(s) \/ List(s) \/ Raise(s)
           \/ CallFails(s) \/ Reload(s) \/ Die(s)
    PROVE  \E t : Quiet(s, t)
  <1>0. /\ sess[s] \in Sessions /\ source \in SourceRow \cup {None} /\ catalog \in Catalog
        /\ factory \in Listings
    BY DEF SyncInv, TypeOK
  <1>00. Len(Calls) \in Nat
    BY ParameterAssumption
  <1>1. CASE Open(s)
    <2> DEFINE t == [Session("opened") EXCEPT !.loaded = source, !.view = catalog]
    <2>1. /\ sess' = [sess EXCEPT ![s] = t]
          /\ UNCHANGED <<database, factory, deploys, source, jobs, catalog, props, nextId>>
          /\ sess[s].pc = "idle"
      BY <1>1 DEF Open, At
    <2>2. t \in Sessions /\ t.pc = "opened" /\ t.view = catalog /\ t.loaded = source
      BY <1>0, SessionType DEF Sessions
    <2> HIDE DEF t
    <2>3. Quiet(s, t)
      BY <2>1, <2>2 DEF Quiet
    <2> QED
      BY <2>3
  <1>2. CASE Refuse(s)
    BY <1>2, EndIsQuiet DEF Refuse, At
  <1>3. CASE List(s)
    <2> DEFINE k == sess[s].calls + 1
               l == [a \in Assets |-> IF a \in Calls[k] THEN factory[a] ELSE sess[s].listing[a]]
               t == [sess[s] EXCEPT !.calls = k, !.listing = l]
    <2>1. /\ sess' = [sess EXCEPT ![s] = t]
          /\ UNCHANGED <<database, factory, deploys, source, jobs, catalog, props, nextId>>
          /\ sess[s].pc = "running" /\ k <= Len(Calls)
      BY <1>3 DEF List, At
    <2>2. k \in 0..Len(Calls) /\ l \in Listings
      BY <1>0, <1>00, <2>1 DEF Sessions, Listings
    <2> HIDE DEF k, l
    <2>3. /\ t \in Sessions /\ t.pc = "running" /\ t.view = sess[s].view /\ t.job = sess[s].job
          /\ t.loaded = sess[s].loaded
      BY <1>0, <2>1, <2>2 DEF Sessions
    <2> HIDE DEF t
    <2>4. Quiet(s, t)
      BY <2>1, <2>3 DEF Quiet, Pending, SyncInv, SourceStays
    <2> QED
      BY <2>4
  <1>4. CASE Raise(s) \/ CallFails(s)
    <2> DEFINE t == [Session("failing") EXCEPT !.job = sess[s].job]
    <2>1. /\ sess' = [sess EXCEPT ![s] = t]
          /\ UNCHANGED <<database, factory, deploys, source, jobs, catalog, props, nextId>>
          /\ sess[s].pc = "running"
      BY <1>4 DEF Raise, CallFails, RollBack, At
    <2>2. t \in Sessions /\ t.pc = "failing" /\ t.job = sess[s].job /\ t.loaded = None
      BY <1>0, SessionType DEF Sessions
    <2> HIDE DEF t
    <2>3. Quiet(s, t)
      BY <2>1, <2>2 DEF Quiet, Pending
    <2> QED
      BY <2>3
  <1>5. CASE Reload(s)
    <2> DEFINE known == jobs[sess[s].job] # None
               t == [sess[s] EXCEPT !.pc = "reporting", !.loaded = source, !.seen = known]
    <2>1. /\ sess[s].pc = "failing"
          /\ UNCHANGED <<database, factory, deploys, source, jobs, catalog, props, nextId>>
      BY <1>5 DEF Reload, At
    <2>2. CASE sess' = [sess EXCEPT ![s] = Session("ended")]
      BY <2>1, <2>2, EndIsQuiet
    <2>3. CASE sess' = [sess EXCEPT ![s] = t]
      <3>1. known \in BOOLEAN
        OBVIOUS
      <3> HIDE DEF known
      <3>2. t \in Sessions /\ t.pc = "reporting" /\ t.job = sess[s].job /\ t.loaded = source
        BY <1>0, <3>1 DEF Sessions
      <3> HIDE DEF t
      <3>3. Quiet(s, t)
        BY <2>1, <2>3, <3>2 DEF Quiet, Pending
      <3> QED
        BY <3>3
    <2> QED
      BY <1>5, <2>2, <2>3 DEF Reload
  <1>6. CASE Die(s)
    BY <1>6, EndIsQuiet DEF Die
  <1> QED
    BY <1>1, <1>2, <1>3, <1>4, <1>5, <1>6

-----------------------------------------------------------------------------
(* The lock and the job id.                                                *)

\* The id of a new job is free, on MySQL because it is the next one, on SQLite
\* because it is the one after the last.
LEMMA NewIdIsFree ==
    ASSUME SyncInv, NEW s \in Syncs, At(s, "opened")
    PROVE  /\ nextId \in JobIds /\ NewJobId \in JobIds /\ NewJobId <= nextId
           /\ jobs[NewJobId] = None
           /\ SnapshotReads => NewJobId = nextId
           /\ ~SnapshotReads => \A top \in Nat :
                  (\A k \in JobIds : jobs[k] # None <=> k <= top) => NewJobId = top + 1
  <1>1. nextId \in JobIds
    <2>1. s \in Syncs \ Started
      BY DEF Started, At
    <2>2. /\ Cardinality(Started) < Cardinality(Syncs)
          /\ Cardinality(Started) \in Nat
      BY <2>1, StartedCount DEF SyncInv
    <2> QED
      BY <2>2, IdsAreNumbers DEF SyncInv, TypeOK, IdsIssued, JobIds
  <1>2. \A j \in JobIds : jobs[j] # None => j < nextId
    BY DEF SyncInv, IdsIssued
  <1>3. CASE SnapshotReads
    BY <1>1, <1>2, <1>3, IdsAreNumbers DEF NewJobId
  <1>4. CASE ~SnapshotReads
    <2> DEFINE P(j) == /\ \A k \in JobIds : jobs[k] # None => k < j
                       /\ j = 1 \/ jobs[j - 1] # None
    <2>1. PICK top \in Nat : /\ \A k \in JobIds : jobs[k] # None <=> k <= top
                             /\ top < nextId
      BY <1>4 DEF SyncInv, IdsDense
    <2>2. top + 1 \in JobIds /\ top + 1 <= nextId
      BY <1>1, <2>1, IdsAreNumbers DEF JobIds
    <2>3. P(top + 1)
      <3>1. CASE top = 0
        BY <2>1, <3>1, IdsAreNumbers
      <3>2. CASE top # 0
        <4>1. top \in JobIds
          BY <2>2, <3>2, IdsAreNumbers DEF JobIds
        <4> QED
          BY <2>1, <4>1, IdsAreNumbers
      <3> QED
        BY <3>1, <3>2
    <2>4. ASSUME NEW n \in Nat, \A k \in JobIds : jobs[k] # None <=> k <= n,
                 NEW j \in JobIds, P(j)
          PROVE  j = n + 1
      <3>1. j > n
        BY <2>4, IdsAreNumbers
      <3>2. CASE j = 1
        BY <3>1, <3>2
      <3>3. CASE j # 1
        <4>1. j - 1 \in JobIds
          BY <3>3, IdsAreNumbers DEF JobIds
        <4> QED
          BY <2>4, <3>1, <3>3, <4>1, IdsAreNumbers
      <3> QED
        BY <3>2, <3>3
    <2>5. NewJobId = CHOOSE j \in JobIds : P(j)
      BY <1>4 DEF NewJobId
    <2>6. NewJobId \in JobIds /\ P(NewJobId)
      BY <2>2, <2>3, <2>5
    <2> HIDE DEF P
    <2>7. \A n \in Nat : (\A k \in JobIds : jobs[k] # None <=> k <= n) => NewJobId = n + 1
      BY <2>4, <2>6
    <2>8. NewJobId = top + 1
      BY <2>1, <2>7
    <2> QED
      BY <1>1, <1>4, <2>1, <2>2, <2>7, <2>8, IdsAreNumbers
  <1> QED
    BY <1>3, <1>4

\* With the lock a sync gets an id of its own and, on SQLite, sees what is there.
LEMMA LockKeeps ==
    ASSUME SyncInv, NEW s \in Syncs, Lock(s), UNCHANGED database
    PROVE  SyncInv'
  <1> DEFINE seen == IF SnapshotReads THEN sess[s].view ELSE catalog
             t == [sess[s] EXCEPT !.pc = "running", !.job = NewJobId, !.view = seen]
  <1>0. /\ sess[s] \in Sessions /\ catalog \in Catalog /\ sess[s].pc = "opened"
        /\ sess \in [Syncs -> Sessions]
    BY DEF SyncInv, TypeOK, Lock, At
  <1>1. /\ nextId \in JobIds /\ NewJobId \in JobIds /\ NewJobId <= nextId
        /\ jobs[NewJobId] = None
        /\ SnapshotReads => NewJobId = nextId
        /\ ~SnapshotReads => \A top \in Nat :
               (\A k \in JobIds : jobs[k] # None <=> k <= top) => NewJobId = top + 1
    BY <1>0, NewIdIsFree DEF At
  <1>2. /\ sess' = [sess EXCEPT ![s] = t]
        /\ nextId' = nextId + 1
        /\ UNCHANGED <<database, factory, deploys, source, jobs, catalog, props>>
    BY DEF Lock
  <1>3. seen \in Catalog
    BY <1>0 DEF SyncInv, Views, Reading
  <1>4. /\ t \in Sessions /\ t.pc = "running" /\ t.job = NewJobId /\ t.view = seen
        /\ t.loaded = sess[s].loaded
    BY <1>0, <1>1, <1>3 DEF Sessions
  <1> HIDE DEF t
  <1>5. sess'[s] = t /\ \A u \in Syncs \ {s} : sess'[u] = sess[u]
    BY <1>0, <1>2
  <1>6. \A u \in Syncs : sess[u].pc # "running"
    BY DEF Lock, LockFree, At
  <1>7. TypeOK'
    <2>1. nextId' \in 1..(Cardinality(Syncs) + 1)
      BY <1>1, <1>2, IdsAreNumbers DEF JobIds
    <2> QED
      BY <1>0, <1>2, <1>4, <2>1 DEF SyncInv, TypeOK
  <1>8. SourceStays'
    BY <1>2, <1>4, <1>5 DEF SyncInv, SourceStays
  <1>9. OneWriter'
    BY <1>1, <1>2, <1>4, <1>5, <1>6 DEF OneWriter, At
  <1>10. Owned'
    <2>1. \A j \in JobIds : jobs[j] # None => jobs[j].owner \in Syncs
      BY DEF SyncInv, TypeOK, JobRow
    <2>2. \A u \in Syncs : At(u, "ended") => At(u, "ended")'
      BY <1>0, <1>5 DEF At
    <2> QED
      BY <1>2, <2>1, <2>2 DEF SyncInv, Owned
  <1>11. IdsIssued'
    <2>1. Started \subseteq Started' /\ Started' \subseteq Syncs /\ Started # Started'
      <3>1. s \notin Started /\ s \in Started'
        BY <1>0, <1>4, <1>5 DEF Started
      <3>2. Started \subseteq Started' /\ Started' \subseteq Syncs
        BY <1>0, <1>5 DEF Started
      <3> QED
        BY <3>1, <3>2
    <2>2. /\ Cardinality(Started) + 1 <= Cardinality(Started')
          /\ Cardinality(Started) \in Nat /\ Cardinality(Started') \in Nat
      BY <2>1, CountGrows
    <2>3. nextId' <= Cardinality(Started') + 1
      BY <1>1, <1>2, <2>2, IdsAreNumbers DEF SyncInv, IdsIssued
    <2>4. \A u \in Syncs : Pending(u)' => sess'[u].job \in JobIds /\ sess'[u].job < nextId'
      <3>1. nextId \in Nat /\ NewJobId \in Nat /\ NewJobId < nextId'
        BY <1>1, <1>2, IdsAreNumbers
      <3>2. \A u \in Syncs \ {s} : Pending(u)' =>
                sess'[u].job \in JobIds /\ sess'[u].job < nextId
        BY <1>5 DEF SyncInv, IdsIssued, Pending
      <3>3. \A j \in JobIds : j < nextId => j < nextId'
        BY <1>2, <3>1, IdsAreNumbers
      <3>4. sess'[s].job = NewJobId
        BY <1>4, <1>5
      <3> QED
        BY <1>1, <3>1, <3>2, <3>3, <3>4
    <2>5. \A j \in JobIds : jobs'[j] # None => j < nextId'
      BY <1>1, <1>2, IdsAreNumbers DEF SyncInv, IdsIssued
    <2> QED
      BY <2>3, <2>4, <2>5 DEF IdsIssued
  <1>12. IdsApart'
    <2> SUFFICES ASSUME SnapshotReads, NEW u \in Syncs, Pending(u)'
                 PROVE  /\ jobs[sess'[u].job] = None
                        /\ \A v \in Syncs : Pending(v)' /\ sess'[v].job = sess'[u].job => v = u
      BY <1>2 DEF IdsApart, SnapshotReads
    <2>1. \A v \in Syncs \ {s} : Pending(v)' => Pending(v) /\ sess'[v].job = sess[v].job
                                               /\ sess[v].job # nextId
      BY <1>1, <1>5, IdsAreNumbers DEF Pending, SyncInv, IdsIssued
    <2>2. sess'[s].job = nextId
      BY <1>1, <1>4, <1>5
    <2> QED
      BY <1>1, <2>1, <2>2 DEF SyncInv, IdsApart
  <1>13. IdsDense'
    <2> SUFFICES ASSUME ~SnapshotReads
                 PROVE  \E top \in Nat :
                            /\ \A k \in JobIds : jobs[k] # None <=> k <= top
                            /\ \A u \in Syncs : Pending(u)' => sess'[u].job <= top + 1
                            /\ top < nextId'
      BY <1>2 DEF IdsDense, SnapshotReads
    <2>1. PICK top \in Nat : /\ \A k \in JobIds : jobs[k] # None <=> k <= top
                             /\ \A u \in Syncs : Pending(u) => sess[u].job <= top + 1
                             /\ top < nextId
      BY DEF SyncInv, IdsDense
    <2>2. sess'[s].job = top + 1
      BY <1>1, <1>4, <1>5, <2>1
    <2>3. \A u \in Syncs : Pending(u)' => sess'[u].job <= top + 1
      BY <1>5, <2>1, <2>2 DEF Pending
    <2>4. top < nextId'
      BY <1>1, <1>2, <2>1, IdsAreNumbers
    <2> QED
      BY <2>1, <2>3, <2>4
  <1>14. Views'
    <2>1. \A u \in Syncs : Reading(u)' => sess'[u].view = catalog \/ (Reading(u) /\ sess'[u].view = sess[u].view)
      BY <1>0, <1>4, <1>5 DEF Reading
    <2> QED
      BY <1>0, <1>2, <2>1 DEF SyncInv, Views
  <1>15. ViewsCurrent'
    BY <1>2, <1>4, <1>5, <1>6 DEF ViewsCurrent, SnapshotReads, At
  <1>16. PropertiesVersioned' /\ LockedLookupsSuffice'
    BY <1>2 DEF SyncInv, PropertiesVersioned, LockedLookupsSuffice, VersionsDistinct, SnapshotReads
  <1> QED
    BY <1>7, <1>8, <1>9, <1>10, <1>11, <1>12, <1>13, <1>14, <1>15, <1>16 DEF SyncInv

-----------------------------------------------------------------------------
(* The commits.                                                            *)

\* A sync that commits its job and ends leaves the ids in order: the row had no
\* owner or, on SQLite, loses the one it had.
LEMMA JobWritten ==
    ASSUME SyncInv, NEW s \in Syncs, Pending(s),
           \A u \in Syncs \ {s} : ~At(u, "running"),
           NEW r \in JobRow, r.owner = s,
           jobs' = [jobs EXCEPT ![sess[s].job] = r],
           sess' = [sess EXCEPT ![s] = Session("ended")],
           UNCHANGED <<database, nextId>>
    PROVE  /\ jobs' \in [JobIds -> JobRow \cup {None}] /\ sess' \in [Syncs -> Sessions]
           /\ OneWriter' /\ Owned' /\ IdsIssued' /\ IdsApart' /\ IdsDense'
           /\ \A u \in Syncs : ~At(u, "running")'
           /\ \A u \in Syncs : Reading(u)' => Reading(u) /\ sess'[u] = sess[u]
           /\ \A u \in Syncs : sess'[u].loaded # None => sess[u].loaded # None
  <1> DEFINE job == sess[s].job
  <1>0. /\ Session("ended") \in Sessions /\ Session("ended").pc = "ended"
        /\ Session("ended").loaded = None
        /\ sess \in [Syncs -> Sessions] /\ jobs \in [JobIds -> JobRow \cup {None}]
    BY SessionType DEF SyncInv, TypeOK
  <1>1. job \in JobIds /\ job < nextId
    BY DEF SyncInv, IdsIssued
  <1>2. sess'[s] = Session("ended") /\ \A u \in Syncs \ {s} : sess'[u] = sess[u]
    BY <1>0
  <1>3. r # None
    BY NoneAssumption
  <1>4. jobs'[job] = r /\ \A k \in JobIds \ {job} : jobs'[k] = jobs[k]
    BY <1>0, <1>1
  <1> HIDE DEF job
  <1>5. jobs' \in [JobIds -> JobRow \cup {None}] /\ sess' \in [Syncs -> Sessions]
    BY <1>0
  <1>6. \A u \in Syncs : ~At(u, "running")'
    BY <1>0, <1>2 DEF At
  <1>7. OneWriter'
    BY <1>6 DEF OneWriter
  <1>8. Owned'
    <2>1. \A j \in JobIds : jobs[j] # None => jobs[j].owner \in Syncs \ {s}
      BY <1>0 DEF SyncInv, Owned, Pending, At, JobRow
    <2> SUFFICES ASSUME NEW j \in JobIds, jobs'[j] # None
                 PROVE  /\ sess'[jobs'[j].owner].pc = "ended"
                        /\ \A k \in JobIds : jobs'[k] # None /\ jobs'[k].owner = jobs'[j].owner => k = j
      BY DEF Owned, At
    <2>2. CASE j = job
      BY <1>0, <1>2, <1>4, <2>1, <2>2 DEF At
    <2>3. CASE j # job
      <3>1. jobs'[j] = jobs[j] /\ jobs[j].owner \in Syncs \ {s} /\ At(jobs[j].owner, "ended")
        BY <1>4, <2>1, <2>3 DEF SyncInv, Owned
      <3>2. \A k \in JobIds : jobs'[k] # None /\ jobs'[k].owner = jobs'[j].owner => k = j
        BY <1>4, <2>3, <3>1 DEF SyncInv, Owned
      <3> QED
        BY <1>2, <3>1, <3>2 DEF At
    <2> QED
      BY <2>2, <2>3
  <1>9. IdsIssued'
    <2>1. Started' = Started
      BY <1>0, <1>2 DEF Started, Pending
    <2>2. \A u \in Syncs : Pending(u)' => Pending(u) /\ sess'[u] = sess[u]
      BY <1>0, <1>2 DEF Pending
    <2> QED
      BY <1>1, <1>4, <2>1, <2>2 DEF SyncInv, IdsIssued
  <1>10. IdsApart'
    <2> SUFFICES ASSUME SnapshotReads, NEW u \in Syncs, Pending(u)'
                 PROVE  /\ jobs'[sess'[u].job] = None
                        /\ \A v \in Syncs : Pending(v)' /\ sess'[v].job = sess'[u].job => v = u
      BY DEF IdsApart, SnapshotReads
    <2>1. \A v \in Syncs : Pending(v)' => v # s /\ Pending(v) /\ sess'[v] = sess[v]
      BY <1>0, <1>2 DEF Pending
    <2>2. /\ jobs[sess[u].job] = None /\ sess[u].job \in JobIds
          /\ sess[u].job # job
          /\ \A v \in Syncs : Pending(v) /\ sess[v].job = sess[u].job => v = u
      BY <2>1 DEF SyncInv, IdsApart, IdsIssued, job
    <2> QED
      BY <1>4, <2>1, <2>2
  <1>11. IdsDense'
    <2> SUFFICES ASSUME ~SnapshotReads
                 PROVE  \E top \in Nat :
                            /\ \A k \in JobIds : jobs'[k] # None <=> k <= top
                            /\ \A u \in Syncs : Pending(u)' => sess'[u].job <= top + 1
                            /\ top < nextId
      BY DEF IdsDense, SnapshotReads
    <2>1. PICK top \in Nat : /\ \A k \in JobIds : jobs[k] # None <=> k <= top
                             /\ \A u \in Syncs : Pending(u) => sess[u].job <= top + 1
                             /\ top < nextId
      BY DEF SyncInv, IdsDense
    <2>2. \A v \in Syncs : Pending(v)' => Pending(v) /\ sess'[v] = sess[v] /\ sess[v].job \in JobIds
      BY <1>0, <1>2 DEF Pending, SyncInv, IdsIssued
    <2>3. job <= top + 1
      BY <2>1 DEF job
    <2>4. CASE job <= top
      <3>1. \A k \in JobIds : jobs'[k] # None <=> k <= top
        BY <1>1, <1>3, <1>4, <2>1, <2>4
      <3> QED
        BY <2>1, <2>2, <3>1
    <2>5. CASE job = top + 1
      <3>1. \A k \in JobIds : jobs'[k] # None <=> k <= top + 1
        BY <1>1, <1>3, <1>4, <2>1, <2>5, IdsAreNumbers
      <3>2. \A u \in Syncs : Pending(u)' => sess'[u].job <= (top + 1) + 1
        <4>1. \A j \in JobIds : j <= top + 1 => j <= (top + 1) + 1
          BY IdsAreNumbers
        <4> QED
          BY <2>1, <2>2, <4>1
      <3>3. top + 1 < nextId /\ top + 1 \in Nat
        BY <1>1, <2>5
      <3> QED
        BY <3>1, <3>2, <3>3
    <2> QED
      BY <1>1, <2>3, <2>4, <2>5, IdsAreNumbers
  <1>12. \A u \in Syncs : Reading(u)' => Reading(u) /\ sess'[u] = sess[u]
    BY <1>0, <1>2 DEF Reading
  <1>13. \A u \in Syncs : sess'[u].loaded # None => sess[u].loaded # None
    BY <1>0, <1>2
  <1> QED
    BY <1>5, <1>6, <1>7, <1>8, <1>9, <1>10, <1>11, <1>12, <1>13

\* What a successful sync makes of the catalog: nothing goes, and every payload
\* listed has a version, seen by the sync or added by it.
LEMMA CatalogWritten ==
    ASSUME SyncInv, NEW s \in Syncs, Succeed(s)
    PROVE  /\ catalog' \in Catalog /\ props' \in Listings
           /\ catalog.assets \subseteq catalog'.assets
           /\ \A a \in Assets, p \in Payloads :
                  catalog'.versions[a][p] > 0
                      <=> catalog.versions[a][p] > 0 \/ sess[s].listing[a] = p
           /\ \A a \in Assets : sess[s].listing[a] # None =>
                  a \in catalog'.assets /\ props'[a] = sess[s].listing[a]
           /\ \A a \in Assets : sess[s].listing[a] = None => props'[a] = props[a]
  <1> DEFINE listing == sess[s].listing
             add(a, p) == IF Added(s, a, p) THEN 1 ELSE 0
  <1>0. /\ listing \in Listings /\ catalog \in Catalog /\ props \in Listings
        /\ sess[s].view \in Catalog
        /\ \A a \in Assets, p \in Payloads :
               sess[s].view.versions[a][p] > 0 => catalog.versions[a][p] > 0
    BY DEF SyncInv, TypeOK, Sessions, Views, Reading, Succeed, At
  <1>1. /\ catalog' = [assets |-> catalog.assets \cup Listed(listing),
                       versions |-> [a \in Assets |-> [p \in Payloads |->
                           catalog.versions[a][p] + add(a, p)]],
                       edges |-> catalog.edges \cup EdgesOf(listing)]
        /\ props' = [a \in Assets |-> IF listing[a] # None THEN listing[a] ELSE props[a]]
    BY DEF Succeed
  <1>2. /\ catalog.assets \subseteq Assets /\ catalog.edges \subseteq Assets \X Assets
        /\ catalog.versions \in [Assets -> [Payloads -> Nat]]
        /\ sess[s].view.versions \in [Assets -> [Payloads -> Nat]]
    BY <1>0 DEF Catalog
  <1>3. Listed(listing) \subseteq Assets /\ EdgesOf(listing) \subseteq Assets \X Assets
    BY DEF Listed, EdgesOf
  <1>4. \A a \in Assets, p \in Payloads :
            /\ add(a, p) \in {0, 1}
            /\ add(a, p) = 1 <=> listing[a] = p /\ sess[s].view.versions[a][p] = 0
    BY DEF Added
  <1> HIDE DEF add, listing
  <1>5. catalog' \in Catalog
    <2>1. ASSUME NEW a \in Assets, NEW p \in Payloads
          PROVE  catalog.versions[a][p] + add(a, p) \in Nat
      <3>1. catalog.versions[a][p] \in Nat
        BY <1>2
      <3>2. add(a, p) \in {0, 1}
        BY <1>4
      <3> QED
        BY <3>1, <3>2
    <2>2. catalog'.versions \in [Assets -> [Payloads -> Nat]]
      BY <1>1, <2>1
    <2> QED
      BY <1>1, <1>2, <1>3, <2>2 DEF Catalog
  <1>6. props' \in Listings
    BY <1>0, <1>1 DEF Listings
  <1>7. ASSUME NEW a \in Assets, NEW p \in Payloads
        PROVE  catalog'.versions[a][p] > 0 <=> catalog.versions[a][p] > 0 \/ listing[a] = p
    <2>1. catalog'.versions[a][p] = catalog.versions[a][p] + add(a, p)
      BY <1>1
    <2>2. catalog.versions[a][p] \in Nat /\ sess[s].view.versions[a][p] \in Nat
      BY <1>2
    <2> QED
      BY <1>0, <1>4, <2>1, <2>2
  <1> QED
    BY <1>1, <1>5, <1>6, <1>7 DEF Listed, listing

\* The commit of a successful sync.
LEMMA SucceedKeeps ==
    ASSUME SyncInv, NEW s \in Syncs, Succeed(s), UNCHANGED database
    PROVE  SyncInv'
  <1>1. At(s, "running") /\ Pending(s) /\ \A u \in Syncs \ {s} : ~At(u, "running")
    BY DEF Succeed, At, Pending, SyncInv, OneWriter
  <1> DEFINE r == [status |-> "SUCCEEDED", owner |-> s]
  <1>2. /\ r \in JobRow /\ r.owner = s
        /\ jobs' = [jobs EXCEPT ![sess[s].job] = r]
        /\ sess' = [sess EXCEPT ![s] = Session("ended")]
        /\ UNCHANGED <<database, nextId, factory, deploys>>
    BY DEF Succeed, JobRow
  <1> HIDE DEF r
  <1>3. /\ jobs' \in [JobIds -> JobRow \cup {None}] /\ sess' \in [Syncs -> Sessions]
        /\ OneWriter' /\ Owned' /\ IdsIssued' /\ IdsApart' /\ IdsDense'
        /\ \A u \in Syncs : ~At(u, "running")'
        /\ \A u \in Syncs : Reading(u)' => Reading(u) /\ sess'[u] = sess[u]
        /\ \A u \in Syncs : sess'[u].loaded # None => sess[u].loaded # None
    BY <1>1, <1>2, JobWritten
  <1>4. source' \in SourceRow
    <2>1. source \in SourceRow \cup {None} /\ sess[s].loaded \in SourceRow \cup {None}
      BY DEF SyncInv, TypeOK, Sessions
    <2>2. ClearedError(s) \in BOOLEAN
      BY <2>1 DEF ClearedError, SourceRow
    <2> QED
      BY <2>2 DEF Succeed, SourceRow
  <1>5. SourceStays'
    BY <1>4, NoneAssumption DEF SourceStays
  <1>6. TypeOK'
    BY <1>2, <1>3, <1>4, CatalogWritten DEF SyncInv, TypeOK
  <1>7. Views'
    BY <1>3, CatalogWritten DEF SyncInv, Views
  <1>8. ViewsCurrent'
    BY <1>3 DEF ViewsCurrent
  <1>9. PropertiesVersioned'
    <2> SUFFICES ASSUME NEW a \in Assets, props'[a] # None
                 PROVE  a \in catalog'.assets /\ catalog'.versions[a][props'[a]] > 0
      BY DEF PropertiesVersioned
    <2>1. props'[a] \in Payloads
      BY CatalogWritten DEF Listings
    <2>2. CASE sess[s].listing[a] # None
      BY <2>1, <2>2, CatalogWritten
    <2>3. CASE sess[s].listing[a] = None
      <3>1. props'[a] = props[a]
        BY <2>3, CatalogWritten
      <3>2. a \in catalog.assets /\ catalog.versions[a][props[a]] > 0
        BY <3>1 DEF SyncInv, PropertiesVersioned
      <3> QED
        BY <2>1, <3>1, <3>2, CatalogWritten
    <2> QED
      BY <2>2, <2>3
  <1>10. LockedLookupsSuffice'
    <2> SUFFICES ASSUME ~SnapshotReads, NEW a \in Assets, NEW p \in Payloads
                 PROVE  catalog'.versions[a][p] <= 1
      BY <1>2 DEF LockedLookupsSuffice, VersionsDistinct, SnapshotReads
    <2>1. sess[s].view = catalog /\ catalog.versions[a][p] <= 1 /\ catalog.versions[a][p] \in Nat
      BY <1>1 DEF SyncInv, ViewsCurrent, LockedLookupsSuffice, VersionsDistinct, TypeOK, Catalog
    <2>2. catalog'.versions[a][p] = catalog.versions[a][p] + IF Added(s, a, p) THEN 1 ELSE 0
      BY DEF Succeed
    <2> QED
      BY <2>1, <2>2 DEF Added
  <1> QED
    BY <1>3, <1>5, <1>6, <1>7, <1>8, <1>9, <1>10 DEF SyncInv

\* The report of a failed sync, unless a row it takes for new is there.
LEMMA ReportKeeps ==
    ASSUME SyncInv, NEW s \in Syncs, Report(s), UNCHANGED database
    PROVE  SyncInv'
  <1>1. /\ Pending(s) /\ \A u \in Syncs \ {s} : ~At(u, "running")
        /\ sess[s].pc = "reporting"
        /\ sess' = [sess EXCEPT ![s] = Session("ended")]
        /\ UNCHANGED <<database, factory, deploys, catalog, props, nextId>>
    BY DEF Report, At, Pending, LockFree
  <1>2. CASE UNCHANGED <<source, jobs>>
    BY <1>1, <1>2, EndIsQuiet, QuietKeeps
  <1>3. CASE ~UNCHANGED <<source, jobs>>
    <2> DEFINE t == sess[s]
               r == [status |-> "FAILED", owner |-> s]
    <2>1. /\ ~(t.loaded = None /\ source # None)
          /\ jobs' = [jobs EXCEPT ![t.job] = r]
          /\ \E error \in {TRUE} \cup (IF t.loaded # None /\ t.loaded.error THEN {source.error} ELSE {}) :
                 source' = [status |-> FailedStatus(s), error |-> error]
      BY <1>3 DEF Report, ReportedId
    <2>2. r \in JobRow /\ r.owner = s
      BY DEF JobRow
    <2> HIDE DEF r
    <2>3. /\ jobs' \in [JobIds -> JobRow \cup {None}] /\ sess' \in [Syncs -> Sessions]
          /\ OneWriter' /\ Owned' /\ IdsIssued' /\ IdsApart' /\ IdsDense'
          /\ \A u \in Syncs : ~At(u, "running")'
          /\ \A u \in Syncs : Reading(u)' => Reading(u) /\ sess'[u] = sess[u]
          /\ \A u \in Syncs : sess'[u].loaded # None => sess[u].loaded # None
      BY <1>1, <2>1, <2>2, JobWritten
    <2>4. source' \in SourceRow
      <3>1. source \in SourceRow \cup {None} /\ t.loaded \in SourceRow \cup {None}
        BY DEF SyncInv, TypeOK, Sessions
      <3>2. t.loaded # None => source \in SourceRow
        BY <3>1 DEF SyncInv, SourceStays
      <3>3. FailedStatus(s) \in {"SUCCEEDED", "FAILED"}
        BY <3>2 DEF FailedStatus, SourceRow
      <3>4. t.loaded # None => source.error \in BOOLEAN
        BY <3>2 DEF SourceRow
      <3>5. PICK error \in {TRUE} \cup (IF t.loaded # None /\ t.loaded.error THEN {source.error} ELSE {}) :
                source' = [status |-> FailedStatus(s), error |-> error]
        BY <2>1
      <3>6. error \in BOOLEAN
        BY <3>4, <3>5
      <3> QED
        BY <3>3, <3>5, <3>6 DEF SourceRow
    <2>5. SourceStays'
      BY <2>4, NoneAssumption DEF SourceStays
    <2>6. TypeOK'
      BY <1>1, <2>3, <2>4 DEF SyncInv, TypeOK
    <2>7. Views'
      BY <1>1, <2>3 DEF SyncInv, Views
    <2>8. ViewsCurrent'
      BY <2>3 DEF ViewsCurrent
    <2>9. PropertiesVersioned' /\ LockedLookupsSuffice'
      BY <1>1 DEF SyncInv, PropertiesVersioned, LockedLookupsSuffice, VersionsDistinct, SnapshotReads
    <2> QED
      BY <2>3, <2>5, <2>6, <2>7, <2>8, <2>9 DEF SyncInv
  <1> QED
    BY <1>2, <1>3

\* Every step keeps the invariant.
LEMMA SyncNextKeeps == SyncInv /\ [Next]_vars => SyncInv'
  <1> SUFFICES ASSUME SyncInv, [Next]_vars PROVE SyncInv'
    OBVIOUS
  <1>1. CASE UNCHANGED <<database, source, jobs, catalog, props, nextId, sess>>
             /\ factory' \in Listings /\ deploys' \in 0..MaxDeploys
    <2>1. TypeOK' /\ SourceStays' /\ OneWriter' /\ Owned'
      BY <1>1 DEF SyncInv, TypeOK, SourceStays, OneWriter, Owned, At
    <2>2. IdsIssued' /\ IdsApart' /\ IdsDense'
      BY <1>1 DEF SyncInv, IdsIssued, IdsApart, IdsDense, Pending, Started, SnapshotReads
    <2>3. Views' /\ ViewsCurrent' /\ PropertiesVersioned' /\ LockedLookupsSuffice'
      BY <1>1 DEF SyncInv, Views, ViewsCurrent, PropertiesVersioned, LockedLookupsSuffice,
                  VersionsDistinct, Reading, At, SnapshotReads
    <2> QED
      BY <2>1, <2>2, <2>3 DEF SyncInv
  <1>2. CASE Deploy /\ UNCHANGED database
    <2>1. deploys' \in 0..MaxDeploys
      BY <1>2, ParameterAssumption DEF Deploy, SyncInv, TypeOK
    <2>2. factory' \in Listings
      BY <1>2 DEF Deploy, SyncInv, TypeOK, Listings
    <2> QED
      BY <1>1, <1>2, <2>1, <2>2 DEF Deploy
  <1>3. ASSUME NEW s \in Syncs, Run(s) \/ CallFails(s) \/ Die(s), UNCHANGED database
        PROVE  SyncInv'
    <2>1. CASE Lock(s)
      BY <1>3, <2>1, LockKeeps
    <2>2. CASE Succeed(s)
      BY <1>3, <2>2, SucceedKeeps
    <2>3. CASE Report(s)
      BY <1>3, <2>3, ReportKeeps
    <2>4. CASE Open(s) \/ Refuse(s) \/ List(s) \/ Raise(s) \/ CallFails(s) \/ Reload(s) \/ Die(s)
      BY <1>3, <2>4, QuietSteps, QuietKeeps
    <2> QED
      BY <1>3, <2>1, <2>2, <2>3, <2>4 DEF Run
  <1>4. CASE UNCHANGED vars
    BY <1>1, <1>4 DEF vars, SyncInv, TypeOK
  <1> QED
    BY <1>2, <1>3, <1>4 DEF Next

\* The invariant holds in every state.
LEMMA SyncInvariance == Spec => []SyncInv
  BY SyncInitInv, SyncNextKeeps, PTL DEF Spec

\* What an asset shows is always in its version history, whichever of the
\* overlapping syncs wrote that (_store_asset_metadata).
THEOREM PropertiesAreVersioned == Spec => []PropertiesVersioned
  <1>1. SyncInv => PropertiesVersioned
    BY DEF SyncInv
  <1> QED
    BY <1>1, SyncInvariance, PTL

\* On SQLite no payload is recorded twice, for any number of overlapping syncs
\* (_store_asset_metadata).
THEOREM LockedLookupsAreEnough == Spec => []LockedLookupsSuffice
  <1>1. SyncInv => LockedLookupsSuffice
    BY DEF SyncInv
  <1> QED
    BY <1>1, SyncInvariance, PTL

\* On MySQL no failure handler ever rewrites the job of a sync that succeeded
\* (sync_adf_metadata).
THEOREM SucceededJobsAreKept == Spec => SucceededJobsKept
  <1> DEFINE Kept == \A j \in JobIds :
          SnapshotReads /\ jobs[j] # None /\ jobs[j].status = "SUCCEEDED" => jobs'[j] = jobs[j]
  <1>1. SyncInv /\ [Next]_vars => [Kept]_vars
    <2> SUFFICES ASSUME SyncInv, [Next]_vars, SnapshotReads, NEW j \in JobIds, jobs[j] # None
                 PROVE  jobs'[j] = jobs[j]
      OBVIOUS
    <2>1. \A s \in Syncs : Pending(s) => sess[s].job # j
      BY DEF SyncInv, IdsApart
    <2>2. jobs \in [JobIds -> JobRow \cup {None}]
      BY DEF SyncInv, TypeOK
    <2>3. ASSUME NEW s \in Syncs, Succeed(s)
          PROVE  jobs'[j] = jobs[j]
      <3>1. sess[s].job # j
        BY <2>1, <2>3 DEF Succeed, At, Pending
      <3> QED
        BY <2>2, <2>3, <3>1 DEF Succeed
    <2>4. ASSUME NEW s \in Syncs, Report(s)
          PROVE  jobs'[j] = jobs[j]
      <3>1. sess[s].job # j
        BY <2>1, <2>4 DEF Report, At, Pending
      <3> QED
        BY <2>2, <2>4, <3>1 DEF Report, ReportedId
    <2>5. \A s \in Syncs : Open(s) \/ Lock(s) \/ Refuse(s) \/ List(s) \/ Raise(s) \/ Reload(s)
                             \/ CallFails(s) \/ Die(s) => UNCHANGED jobs
      BY DEF Open, Lock, Refuse, List, Raise, RollBack, Reload, CallFails, Die
    <2>6. Deploy \/ UNCHANGED vars => UNCHANGED jobs
      BY DEF Deploy, vars
    <2> QED
      BY <2>3, <2>4, <2>5, <2>6 DEF Next, Run
  <1> QED
    BY <1>1, SyncInvariance, PTL DEF Spec, SucceededJobsKept

\* The source shows an error exactly if the sync that loaded the last outcome
\* failed, though neither writes an attribute that it loaded with the same
\* value (sync_adf_metadata and its failure handler).
THEOREM ErrorsMatchStatus == Spec => ErrorMatchesStatus
  <1> DEFINE Match == \A s \in Syncs :
          sess[s].loaded = source /\ sess'[s] # sess[s] /\ source' # source =>
              (source'.error <=> source'.status = "FAILED")
  <1>1. SyncInv /\ [Next]_vars => [Match]_vars
    <2> SUFFICES ASSUME SyncInv, [Next]_vars, NEW s \in Syncs,
                        sess[s].loaded = source, sess'[s] # sess[s], source' # source
                 PROVE  source'.error <=> source'.status = "FAILED"
      OBVIOUS
    <2>0. /\ sess \in [Syncs -> Sessions] /\ source \in SourceRow \cup {None}
          /\ sess[s].loaded \in SourceRow \cup {None}
      BY DEF SyncInv, TypeOK, Sessions
    <2>1. \A u \in Syncs : Open(u) \/ Lock(u) \/ Refuse(u) \/ List(u) \/ Raise(u) \/ Reload(u)
                             \/ CallFails(u) \/ Die(u) => UNCHANGED source
      BY DEF Open, Lock, Refuse, List, Raise, RollBack, Reload, CallFails, Die
    <2>2. Deploy \/ UNCHANGED vars => UNCHANGED source
      BY DEF Deploy, vars
    <2>3. PICK u \in Syncs : Succeed(u) \/ Report(u)
      BY <2>1, <2>2 DEF Next, Run
    <2>4. u = s
      BY <2>0, <2>3 DEF Succeed, Report
    <2>5. CASE Succeed(u)
      <3>1. source' = [status |-> "SUCCEEDED", error |-> ClearedError(s)]
        BY <2>4, <2>5 DEF Succeed
      <3>2. ClearedError(s) = FALSE
        BY <2>0 DEF ClearedError, SourceRow
      <3> QED
        BY <3>1, <3>2
    <2>6. CASE Report(u)
      <3>1. PICK error \in {TRUE} \cup (IF sess[s].loaded # None /\ sess[s].loaded.error
                                        THEN {source.error} ELSE {}) :
                source' = [status |-> FailedStatus(s), error |-> error]
        BY <2>4, <2>6 DEF Report
      <3>2. error = TRUE
        BY <2>0, <3>1 DEF SourceRow
      <3>3. FailedStatus(s) = "FAILED"
        BY <2>0 DEF FailedStatus, SourceRow
      <3> QED
        BY <3>1, <3>2, <3>3
    <2> QED
      BY <2>3, <2>5, <2>6
  <1> QED
    BY <1>1, SyncInvariance, PTL DEF Spec, ErrorMatchesStatus
-----------------------------------------------------------------------------
(* The refinement.                                                         *)

\* The outcome of sync s that a table of jobs shows.
RowsOf(table, s) == {j \in JobIds : table[j] # None /\ table[j].owner = s}
OutcomeIn(table, s) ==
    IF RowsOf(table, s) = {} THEN None ELSE table[CHOOSE j \in RowsOf(table, s) : TRUE].status
LedgerIn(table) == [s \in Syncs |-> OutcomeIn(table, s)]

\* It is the status of the only row that names the sync.
LEMMA OutcomeOfRow ==
    ASSUME NEW table, NEW s, NEW j \in JobIds, RowsOf(table, s) = {j}
    PROVE  OutcomeIn(table, s) = table[j].status
  <1>1. (CHOOSE k \in RowsOf(table, s) : TRUE) = j
    OBVIOUS
  <1> QED
    BY <1>1 DEF OutcomeIn

\* Syncs with the same rows in two tables have the same outcome in both.
LEMMA OutcomeSame ==
    ASSUME NEW table, NEW other, NEW s, RowsOf(table, s) = RowsOf(other, s),
           \A j \in RowsOf(table, s) : table[j] = other[j]
    PROVE  OutcomeIn(table, s) = OutcomeIn(other, s)
  <1>1. CASE RowsOf(table, s) = {}
    BY <1>1 DEF OutcomeIn
  <1>2. CASE RowsOf(table, s) # {}
    <2>1. (CHOOSE j \in RowsOf(table, s) : TRUE) \in RowsOf(table, s)
      BY <1>2
    <2> QED
      BY <1>2, <2>1 DEF OutcomeIn
  <1> QED
    BY <1>1, <1>2

\* A session that has not ended commits its row: it had no outcome, and takes
\* at most the place of another one.
LEMMA LedgerWritten ==
    ASSUME SyncInv, NEW s \in Syncs, sess[s].pc # "ended", NEW j \in JobIds,
           NEW row \in JobRow, row.owner = s,
           NEW next, next[j] = row, \A k \in JobIds \ {j} : next[k] = jobs[k]
    PROVE  /\ OutcomeIn(jobs, s) = None
           /\ jobs[j] = None => LedgerIn(next) = [LedgerIn(jobs) EXCEPT ![s] = row.status]
           /\ jobs[j] # None => \E u \in Syncs :
                  LedgerIn(next) = [LedgerIn(jobs) EXCEPT ![u] = None, ![s] = row.status]
  <1>1. jobs \in [JobIds -> JobRow \cup {None}]
    BY DEF SyncInv, TypeOK
  <1>2. RowsOf(jobs, s) = {}
    BY DEF RowsOf, SyncInv, Owned, At
  <1>3. OutcomeIn(jobs, s) = None
    BY <1>2 DEF OutcomeIn
  <1>4. row # None
    BY NoneAssumption
  <1>5. next[j] = row /\ \A k \in JobIds \ {j} : next[k] = jobs[k]
    OBVIOUS
  <1>6. OutcomeIn(next, s) = row.status
    <2>1. RowsOf(next, s) = {j}
      BY <1>2, <1>4, <1>5 DEF RowsOf
    <2> QED
      BY <1>5, <2>1, OutcomeOfRow
  <1>7. ASSUME NEW u \in Syncs, u # s, jobs[j] = None \/ jobs[j].owner # u
        PROVE  OutcomeIn(next, u) = OutcomeIn(jobs, u)
    <2>1. RowsOf(jobs, u) = RowsOf(next, u)
      BY <1>5, <1>7 DEF RowsOf
    <2>2. \A k \in RowsOf(jobs, u) : jobs[k] = next[k]
      BY <1>5, <1>7 DEF RowsOf
    <2> QED
      BY <2>1, <2>2, OutcomeSame
  <1>8. CASE jobs[j] = None
    <2>1. \A u \in Syncs : LedgerIn(next)[u] = [LedgerIn(jobs) EXCEPT ![s] = row.status][u]
      BY <1>6, <1>7, <1>8 DEF LedgerIn
    <2> QED
      BY <1>3, <1>8, <2>1 DEF LedgerIn
  <1>9. CASE jobs[j] # None
    <2> DEFINE u == jobs[j].owner
    <2>1. u \in Syncs /\ u # s
      BY <1>1, <1>2, <1>9 DEF JobRow, RowsOf
    <2>2. RowsOf(next, u) = {}
      BY <1>5, <1>9, <2>1 DEF RowsOf, SyncInv, Owned
    <2>3. OutcomeIn(next, u) = None
      BY <2>2 DEF OutcomeIn
    <2>4. \A v \in Syncs : LedgerIn(next)[v]
                             = [LedgerIn(jobs) EXCEPT ![u] = None, ![s] = row.status][v]
      BY <1>6, <1>7, <1>9, <2>1, <2>3 DEF LedgerIn
    <2>5. LedgerIn(next) = [LedgerIn(jobs) EXCEPT ![u] = None, ![s] = row.status]
      BY <2>4 DEF LedgerIn
    <2> QED
      BY <1>3, <1>9, <2>1, <2>5
  <1> QED
    BY <1>3, <1>8, <1>9

\* The commit of a sync is the Succeed of the ledger.
LEMMA SucceedIsSucceed ==
    ASSUME SyncInv, NEW s \in Syncs, Succeed(s), UNCHANGED database
    PROVE  Ledger!Next
  <1> DEFINE l == sess[s].listing
             row == [status |-> "SUCCEEDED", owner |-> s]
  <1>1. /\ sess[s].pc = "running" /\ sess[s].job \in JobIds /\ jobs[sess[s].job] = None
        /\ l \in Listings /\ catalog \in Catalog
    BY DEF Succeed, At, SyncInv, IdsIssued, OneWriter, Pending, TypeOK, Sessions
  <1>2. row \in JobRow /\ row.owner = s /\ row.status = "SUCCEEDED"
    BY DEF JobRow
  <1>3. PICK next : /\ next = jobs' /\ next[sess[s].job] = row
                    /\ \A k \in JobIds \ {sess[s].job} : next[k] = jobs[k]
    BY <1>1 DEF Succeed, SyncInv, TypeOK
  <1> HIDE DEF row
  <1>4. OutcomeIn(jobs, s) = None /\ LedgerIn(next) = [LedgerIn(jobs) EXCEPT ![s] = "SUCCEEDED"]
    BY <1>1, <1>2, <1>3, LedgerWritten
  <1>5. /\ catalog'.assets = catalog.assets \cup Ledger!Listed(l)
        /\ catalog'.edges = catalog.edges \cup Ledger!EdgesOf(l)
        /\ props' = [a \in Assets |-> IF l[a] # None THEN l[a] ELSE props[a]]
    BY DEF Succeed, Listed, EdgesOf, Ledger!Listed, Ledger!EdgesOf
  <1>6. {v \in Assets \X Payloads : catalog'.versions[v[1]][v[2]] > 0}
          = {v \in Assets \X Payloads : catalog.versions[v[1]][v[2]] > 0}
              \cup {<<a, l[a]>> : a \in Ledger!Listed(l)}
    <2>1. \A a \in Assets, p \in Payloads :
              catalog'.versions[a][p] > 0 <=> catalog.versions[a][p] > 0 \/ l[a] = p
      BY CatalogWritten
    <2>2. \A a \in Assets : l[a] # None <=> l[a] \in Payloads
      BY <1>1, ParameterAssumption DEF Listings
    <2> QED
      BY <2>1, <2>2 DEF Ledger!Listed
  <1>7. l \in Ledger!Listings
    BY <1>1 DEF Listings, Ledger!Listings
  <1>8. UNCHANGED ~SnapshotReads
    BY DEF SnapshotReads
  <1> HIDE DEF l
  <1>9. Ledger!Succeed(s)
    BY <1>3, <1>4, <1>5, <1>6, <1>7, <1>8 DEF Ledger!Succeed, LedgerIn, Outcome, OutcomeIn, RowsOf
  <1> QED
    BY <1>9 DEF Ledger!Next

\* The report of a failed sync is the Fail of the ledger; where it takes the
\* place of another row, the database hands ids out again.
LEMMA ReportIsFail ==
    ASSUME SyncInv, NEW s \in Syncs, Report(s), ~UNCHANGED <<source, jobs>>, UNCHANGED database
    PROVE  Ledger!Next
  <1> DEFINE row == [status |-> "FAILED", owner |-> s]
  <1>1. sess[s].pc = "reporting" /\ sess[s].job \in JobIds
    BY DEF Report, At, SyncInv, IdsIssued, Pending
  <1>2. row \in JobRow /\ row.owner = s /\ row.status = "FAILED"
    BY DEF JobRow
  <1>3. PICK next : /\ next = jobs' /\ next[sess[s].job] = row
                    /\ \A k \in JobIds \ {sess[s].job} : next[k] = jobs[k]
    BY <1>1 DEF Report, ReportedId, SyncInv, TypeOK
  <1> HIDE DEF row
  <1>4. /\ OutcomeIn(jobs, s) = None
        /\ \/ LedgerIn(next) = [LedgerIn(jobs) EXCEPT ![s] = "FAILED"]
           \/ jobs[sess[s].job] # None /\ \E u \in Syncs :
                  LedgerIn(next) = [LedgerIn(jobs) EXCEPT ![u] = None, ![s] = "FAILED"]
    BY <1>1, <1>2, <1>3, LedgerWritten
  <1>5. jobs[sess[s].job] # None => ~SnapshotReads
    BY <1>1 DEF SyncInv, IdsApart, Pending
  <1>6. UNCHANGED <<~SnapshotReads, catalog, props>>
    BY DEF SnapshotReads, Report
  <1>7. CASE LedgerIn(next) = [LedgerIn(jobs) EXCEPT ![s] = "FAILED"]
    <2>1. Ledger!Fail(s)
      BY <1>3, <1>4, <1>6, <1>7 DEF Ledger!Fail, LedgerIn, Outcome, OutcomeIn, RowsOf
    <2> QED
      BY <2>1 DEF Ledger!Next
  <1>8. CASE LedgerIn(next) # [LedgerIn(jobs) EXCEPT ![s] = "FAILED"]
    <2>1. ~SnapshotReads
      BY <1>4, <1>5, <1>8
    <2>2. PICK u \in Syncs : LedgerIn(next) = [LedgerIn(jobs) EXCEPT ![u] = None, ![s] = "FAILED"]
      BY <1>4, <1>8
    <2>3. [v \in Syncs |-> Outcome(v)]'
            = [[v \in Syncs |-> Outcome(v)] EXCEPT ![u] = None, ![s] = "FAILED"]
      BY <1>3, <2>2 DEF LedgerIn, Outcome, OutcomeIn, RowsOf
    <2>4. [v \in Syncs |-> Outcome(v)][s] = None
      BY <1>4 DEF Outcome, OutcomeIn, RowsOf
    <2>5. UNCHANGED <<{v \in Assets \X Payloads : catalog.versions[v[1]][v[2]] > 0},
                      catalog.assets, catalog.edges, props>>
      BY <1>6
    <2>6. Ledger!Fail(s)
      BY <1>6, <2>1, <2>3, <2>4, <2>5 DEF Ledger!Fail
    <2> QED
      BY <2>6 DEF Ledger!Next
  <1> QED
    BY <1>7, <1>8

\* Each sync is recorded once, together with all of its effect or as failed
\* with none, and only where ids are used again can a failure take the place
\* of another record (sync_adf_metadata and its failure handler).
THEOREM SyncsImplementLedger == Spec => ImplementsLedger
  <1>1. Init => Ledger!Init
    <2> SUFFICES ASSUME Init PROVE Ledger!Init
      OBVIOUS
    <2>1. [s \in Syncs |-> Outcome(s)] = [s \in Syncs |-> None]
      BY DEF Init, Outcome
    <2> QED
      BY <2>1 DEF Init, Ledger!Init, SnapshotReads
  <1>2. SyncInv /\ [Next]_vars => [Ledger!Next]_(Ledger!vars)
    <2> SUFFICES ASSUME SyncInv, [Next]_vars PROVE Ledger!Next \/ UNCHANGED Ledger!vars
      OBVIOUS
    <2>1. ASSUME UNCHANGED <<database, jobs, catalog, props>>
          PROVE  UNCHANGED Ledger!vars
      BY <2>1 DEF Ledger!vars, Outcome, SnapshotReads
    <2>2. ASSUME NEW s \in Syncs, UNCHANGED database,
                 Open(s) \/ Lock(s) \/ Refuse(s) \/ List(s) \/ Raise(s) \/ Reload(s)
                   \/ CallFails(s) \/ Die(s)
          PROVE  UNCHANGED Ledger!vars
      BY <2>1, <2>2 DEF Open, Lock, Refuse, List, Raise, RollBack, Reload, CallFails, Die
    <2>3. ASSUME NEW s \in Syncs, UNCHANGED database, Report(s), UNCHANGED <<source, jobs>>
          PROVE  UNCHANGED Ledger!vars
      BY <2>1, <2>3 DEF Report
    <2>4. CASE UNCHANGED vars \/ (Deploy /\ UNCHANGED database)
      BY <2>1, <2>4 DEF vars, Deploy
    <2> QED
      BY <2>2, <2>3, <2>4, SucceedIsSucceed, ReportIsFail DEF Next, Run
  <1> QED
    BY <1>1, <1>2, SyncInvariance, PTL DEF Spec, Ledger!Spec, ImplementsLedger
=============================================================================
