---------------------------- MODULE PromptCatalog ----------------------------
(***************************************************************************)
(* The prompt templates of app/services/admin_service.py: the tables       *)
(* prompt_templates and prompt_template_versions, the requests of the      *)
(* admin API that change them, and the bootstrap that runs at every start. *)
(*                                                                         *)
(* A request owns one SQLAlchemy session.  It reads (Begin...), which      *)
(* fixes what it saw of the tables, and flushes and commits (Commit...).   *)
(* The ORM writes an attribute only if it differs from the loaded value,   *)
(* so a commit merges its changes into rows other requests may have        *)
(* changed since (Flush).  The database checks the unique constraints at   *)
(* the commit.  Restart stands for a crash at any point and the bootstrap  *)
(* of the next start, which runs before the server takes requests.         *)
(***************************************************************************)
EXTENDS Integers, FiniteSets

CONSTANTS
    Ids,            \* primary keys of prompt_templates
    Keys,           \* values of template_key
    Scenes,         \* values of scene_type
    Contents,       \* values of prompt_content and output_format, taken together
    Versions,       \* values of version
    Statuses,       \* values of status, "active" among them
    Shipped,        \* the rows of _default_prompt_templates(), by template_key
    Workers,        \* request threads
    PartialUpdates, \* TRUE: a client may leave is_default out of an update
    MaxStarts,      \* bound on the number of starts of the server
    None            \* no row

\* A row of prompt_templates.
Row == [key: Keys, scene: Scenes, content: Contents, version: Versions,
        status: Statuses, isDefault: BOOLEAN]

\* A row of prompt_template_versions; its key is <<template id, version>>.
Snap == [content: Contents, status: Statuses]

ASSUME StatusAssumption == "active" \in Statuses

ASSUME ShippedAssumption ==
    /\ DOMAIN Shipped \subseteq Keys
    /\ Shipped \in [DOMAIN Shipped -> Row]
    /\ \A k \in DOMAIN Shipped : Shipped[k].key = k

ASSUME NoneAssumption == None \notin Row \cup Snap \cup Keys \cup Ids

ASSUME BoundAssumption == MaxStarts \in Nat /\ PartialUpdates \in BOOLEAN

VARIABLES
    template, \* template[i]: the committed row with id i, or None
    version,  \* version[i][v]: the committed snapshot of template i, or None
    tx,       \* tx[w]: what the open transaction of worker w read and will write
    starts    \* number of starts of the server so far

vars == <<template, version, tx, starts>>

Builtin == DOMAIN Shipped
Live == {i \in Ids : template[i] # None}

\* Mutant of SnapOf: the snapshot is the whole row.
WholeRow(row) == row

SnapOf(row) == [content |-> row.content, status |-> row.status]

HasKey(tab, k) == \E i \in Ids : tab[i] # None /\ tab[i].key = k

\* What the worker's session holds between its reads and its commit.
Idle == [op |-> "idle"]
Creates == [op: {"create"}, new: Row, demoted: SUBSET Ids]
Updates == [op: {"update"}, id: Ids, old: Row, new: Row, demoted: SUBSET Ids,
            snap: Snap \cup {None}]
Promotions == [op: {"setDefault"}, id: Ids, old: Row, new: Row, demoted: SUBSET Ids]
Deletes == [op: {"delete"}, id: Ids, orphans: SUBSET Versions]

TypeOK ==
    /\ template \in [Ids -> Row \cup {None}]
    /\ version \in [Ids -> [Versions -> Snap \cup {None}]]
    /\ tx \in [Workers -> {Idle} \cup Creates \cup Updates \cup Promotions \cup Deletes]
    /\ starts \in 0..MaxStarts

Init ==
    /\ template = [i \in Ids |-> None]
    /\ version = [i \in Ids |-> [v \in Versions |-> None]]
    /\ tx = [w \in Workers |-> Idle]
    /\ starts = 0

-----------------------------------------------------------------------------
(* The flush of the session's changes into the committed tables.           *)

\* Only the attributes that differ from what was loaded are written.
Flush(cur, old, new) == [a \in DOMAIN cur |-> IF new[a] = old[a] THEN cur[a] ELSE new[a]]

\* Mutant of OtherDefaults: the shipped templates are spared.
OtherCustomDefaults(scene, id) ==
    {i \in Live \ {id} : /\ template[i].scene = scene /\ template[i].isDefault
                         /\ template[i].key \notin Builtin}

\* The other default templates of a scene, which lose the flag.
OtherDefaults(scene, id) ==
    {i \in Live \ {id} : template[i].scene = scene /\ template[i].isDefault}

Demote(tab, demoted) ==
    [i \in Ids |-> IF i \in demoted /\ tab[i] # None
                   THEN [tab[i] EXCEPT !.isDefault = FALSE] ELSE tab[i]]

UniqueKeys(tab) ==
    \A i, j \in Ids : tab[i] # None /\ tab[j] # None /\ tab[i].key = tab[j].key => i = j

-----------------------------------------------------------------------------
(* The requests.                                                           *)

Begin(w, t) ==
    /\ starts > 0
    /\ tx[w] = Idle
    /\ tx' = [tx EXCEPT ![w] = t]
    /\ UNCHANGED <<template, version, starts>>

Close(w) ==
    /\ tx' = [tx EXCEPT ![w] = Idle]
    /\ UNCHANGED starts

\* A request that ends without a commit: a constraint violated at the flush,
\* a deadlock between row locks, a lost connection.
Rollback(w) ==
    /\ tx[w] # Idle
    /\ Close(w)
    /\ UNCHANGED <<template, version>>

\* create_prompt_template: the other defaults of the scene are read after the
\* new row is flushed.
BeginCreate(w) == \E row \in Row :
    Begin(w, [op |-> "create", new |-> row,
              demoted |-> IF row.isDefault THEN OtherDefaults(row.scene, None) ELSE {}])

CommitCreate(w) ==
    /\ tx[w] \in Creates
    /\ ~HasKey(template, tx[w].new.key)
    /\ \E i \in Ids \ Live :
          /\ template' = [Demote(template, tx[w].demoted) EXCEPT ![i] = tx[w].new]
          /\ version' = [version EXCEPT ![i][tx[w].new.version] = SnapOf(tx[w].new)]
    /\ Close(w)

\* update_prompt_template: fields left out of the payload keep the loaded
\* value; an is_default in the payload makes the request a change even if the
\* value is the same, and TRUE demotes the other defaults of the new scene.
BeginUpdate(w) == \E i \in Live, fields \in Row, given \in BOOLEAN :
    LET old == template[i]
        new == IF given THEN fields ELSE [fields EXCEPT !.isDefault = old.isDefault]
    IN  /\ given \/ PartialUpdates
        /\ given \/ new # old
        /\ Begin(w, [op |-> "update", id |-> i, old |-> old, new |-> new,
                     demoted |-> IF given /\ new.isDefault
                                 THEN OtherDefaults(new.scene, i) ELSE {},
                     snap |-> version[i][new.version]])

\* Mutant of SnapAfter: a snapshot that is there is left alone.
SnapKept(t, cur) == IF t.snap = None THEN SnapOf(t.new) ELSE cur

\* The snapshot with the row's version is refreshed if the request saw one and
\* inserted if it saw none.
SnapAfter(t, cur) == IF t.snap = None THEN SnapOf(t.new) ELSE Flush(cur, t.snap, SnapOf(t.new))

\* A snapshot inserted meanwhile is a conflict.
CommitUpdate(w) ==
    LET t == tx[w]
        table == [Demote(template, t.demoted) EXCEPT ![t.id] = Flush(@, t.old, t.new)]
        cur == version[t.id][t.new.version]
    IN  /\ t \in Updates
        /\ UniqueKeys(table)
        /\ t.snap = None => cur = None
        /\ template' = table
        /\ version' = [version EXCEPT ![t.id][t.new.version] = SnapAfter(t, cur)]
        /\ Close(w)

\* set_default_prompt_template: the snapshot is left as it is.
BeginSetDefault(w) == \E i \in Live :
    Begin(w, [op |-> "setDefault", id |-> i, old |-> template[i],
              new |-> [template[i] EXCEPT !.isDefault = TRUE, !.status = "active"],
              demoted |-> OtherDefaults(template[i].scene, i)])

CommitSetDefault(w) ==
    LET t == tx[w]
    IN  /\ t \in Promotions
        /\ template' = [Demote(template, t.demoted) EXCEPT ![t.id] = Flush(@, t.old, t.new)]
        /\ UNCHANGED version
        /\ Close(w)

\* delete_prompt_template: the relationship `versions` has no cascade, so the
\* flush sets prompt_template_id of the snapshots it loads to NULL, which the
\* column refuses; with a snapshot it has not loaded, the foreign key refuses
\* the delete.  The request is then rolled back.
BeginDelete(w) == \E i \in Live :
    Begin(w, [op |-> "delete", id |-> i,
              orphans |-> {v \in Versions : version[i][v] # None}])

\* Mutant of EndDelete: the flush leaves the snapshots of the row alone.
OrphaningDelete(w) ==
    /\ tx[w] \in Deletes
    /\ template' = [template EXCEPT ![tx[w].id] = None]
    /\ UNCHANGED version
    /\ Close(w)

EndDelete(w) ==
    LET t == tx[w]
        refused == t.orphans # {} \/ \E v \in Versions : version[t.id][v] # None
    IN  /\ t \in Deletes
        /\ template' = IF refused THEN template ELSE [template EXCEPT ![t.id] = None]
        /\ UNCHANGED version
        /\ Close(w)

-----------------------------------------------------------------------------
(* The bootstrap: _seed_prompt_templates, in one transaction.              *)

\* scene_default_map, built before any row is changed; of several defaults in
\* one scene the last one read wins.
SceneDefaultMaps ==
    LET defaults == {i \in Live : template[i].isDefault}
        keys(s) == {template[i].key : i \in {j \in defaults : template[j].scene = s}}
    IN  {m \in [Scenes -> {template[i].key : i \in defaults} \cup {None}] : \A s \in Scenes :
            IF keys(s) = {} THEN m[s] = None ELSE m[s] \in keys(s)}

\* Built-in rows get the shipped values of every field but is_default, and the
\* missing ones are inserted with fresh ids.
Reset(ids) ==
    [i \in Ids |->
        IF i \in Live
        THEN IF template[i].key \in Builtin
             THEN [Shipped[template[i].key] EXCEPT !.isDefault = template[i].isDefault]
             ELSE template[i]
        ELSE IF \E k \in DOMAIN ids : ids[k] = i
             THEN Shipped[CHOOSE k \in DOMAIN ids : ids[k] = i]
             ELSE None]

\* The key that stays or becomes the default of a scene.
PreferredKey(map, scene) ==
    LET shipped == {k \in Builtin : Shipped[k].scene = scene /\ Shipped[k].isDefault}
    IN  IF map[scene] # None THEN map[scene]
        ELSE IF shipped # {} THEN CHOOSE k \in shipped : TRUE
        ELSE None

\* Mutant of Normalize: the flag is given and taken from nobody.
Promote(tab, map) ==
    [i \in Ids |-> IF tab[i] # None /\ tab[i].key = PreferredKey(map, tab[i].scene)
                   THEN [tab[i] EXCEPT !.isDefault = TRUE] ELSE tab[i]]

\* "Keep one default template per scene."
Normalize(tab, map) ==
    [i \in Ids |-> IF tab[i] = None THEN None
                   ELSE [tab[i] EXCEPT !.isDefault = (tab[i].key = PreferredKey(map, tab[i].scene))]]

\* Mutants of AddSnapshots: none is added; those of the template are all
\* overwritten.
NoSnapshots(tab) == version

OverwriteSnapshots(tab) ==
    [i \in Ids |-> [v \in Versions |->
        IF tab[i] # None /\ (tab[i].version = v \/ version[i][v] # None)
        THEN SnapOf(tab[i]) ELSE version[i][v]]]

\* A (template, version) that has a snapshot keeps it, whatever its content.
AddSnapshots(tab) ==
    [i \in Ids |-> [v \in Versions |->
        IF tab[i] # None /\ tab[i].version = v /\ version[i][v] = None
        THEN SnapOf(tab[i]) ELSE version[i][v]]]

MissingKeys == {k \in Builtin : ~HasKey(template, k)}

FreshIds == {f \in [MissingKeys -> Ids \ Live] :
                \A k, l \in MissingKeys : f[k] = f[l] => k = l}

RestartWith(ids) ==
    /\ starts < MaxStarts
    /\ starts' = starts + 1
    /\ tx' = [w \in Workers |-> Idle]
    /\ \E map \in SceneDefaultMaps : template' = Normalize(Reset(ids), map)
    /\ version' = AddSnapshots(template')

Restart == \E ids \in FreshIds : RestartWith(ids)

-----------------------------------------------------------------------------
(* resolve_prompt_template, which answers every chat: without a template   *)
(* key it takes the active default of the scene, and more than one of them *)
(* raises MultipleResultsFound.                                            *)

ActiveDefaults(scene) ==
    {i \in Live : /\ template[i].scene = scene
                  /\ template[i].isDefault
                  /\ template[i].status = "active"}

-----------------------------------------------------------------------------
Request(w) ==
    \/ BeginCreate(w) \/ CommitCreate(w)
    \/ BeginUpdate(w) \/ CommitUpdate(w)
    \/ BeginSetDefault(w) \/ CommitSetDefault(w)
    \/ BeginDelete(w) \/ EndDelete(w)
    \/ Rollback(w)

Next == Restart \/ \E w \in Workers : Request(w)

Spec == Init /\ [][Next]_vars

-----------------------------------------------------------------------------
(* Properties.                                                             *)

\* Every committed template has a snapshot with its current version: whatever
\* requests interleave, the version an admin sees on a template can be looked
\* up in prompt_template_versions (create, update and bootstrap keep it so).
VersionRecorded == \A i \in Live : version[i][template[i].version] # None

\* No snapshot is without its template: whatever a delete races with, it leaves
\* no half of a template behind (delete_prompt_template; the relationship
\* `versions` has no cascade, and SQLite does not check the foreign key).
HistoryHasOwner == \A i \in Ids, v \in Versions : version[i][v] # None => i \in Live

\* No scene has two default templates ("Keep one default template per scene.").
OneDefaultPerScene ==
    \A i, j \in Live :
        template[i].isDefault /\ template[j].isDefault
        /\ template[i].scene = template[j].scene => i = j

\* The template of a scene is never ambiguous, so a chat about the scene gets
\* an answer instead of MultipleResultsFound (resolve_prompt_template).
SceneUnambiguous == \A s \in Scenes : Cardinality(ActiveDefaults(s)) <= 1

\* However the flags were left, bootstrap leaves at most one default per scene.
BootstrapNormalizes == [][starts' # starts => OneDefaultPerScene']_vars

\* Every scene with a shipped default has a default after bootstrap.
BootstrapCoversScenes ==
    [][starts' # starts =>
          \A k \in Builtin : Shipped[k].isDefault =>
              \E i \in Live' : template'[i].isDefault
                               /\ template'[i].scene = Shipped[k].scene]_vars

\* The snapshot of the current version of a template that is not built in has
\* the template's content (built-in rows are reset without their snapshots).
SnapshotCurrent ==
    \A i \in Live : template[i].key \notin Builtin =>
        /\ version[i][template[i].version] # None
        /\ version[i][template[i].version].content = template[i].content

\* History is kept: a step rewrites no snapshot but the one of the version the
\* template has after the step.
PastVersionsFrozen ==
    [][\A i \in Ids, v \in Versions :
          version[i][v] # None /\ (template'[i] # None => template'[i].version # v)
          => version'[i][v] = version[i][v]]_vars
=============================================================================
