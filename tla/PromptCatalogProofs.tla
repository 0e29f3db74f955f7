------------------------ MODULE PromptCatalogProofs ------------------------
(* What holds of the prompt templates for every number of templates, scenes, *)
(* versions and concurrent requests, and any number of restarts.             *)
EXTENDS PromptCatalog, NaturalsLemmas

Sessions == {Idle} \cup Creates \cup Updates \cup Promotions \cup Deletes

\* What an open transaction knows stays true until it ends: the row it loaded
\* is still there, and so is the snapshot it loaded.
Knows(t) ==
    /\ t \in Updates => /\ template[t.id] # None
                        /\ t.snap # None => version[t.id][t.new.version] # None
    /\ t \in Promotions => template[t.id] # None /\ t.new.version = t.old.version
    /\ t \in Deletes => t.orphans # {}

TxKnows == \A w \in Workers : Knows(tx[w])

\* VersionRecorded is not inductive by itself: a commit rewrites a row and a
\* snapshot read earlier, so both must still be there.
IInv == TypeOK /\ VersionRecorded /\ TxKnows

\* No row and no snapshot is lost in the step.
Grows ==
    /\ \A i \in Ids : template[i] # None => template'[i] # None
    /\ \A i \in Ids, v \in Versions : version[i][v] # None => version'[i][v] # None

\* A flush of a well-typed row into a well-typed row gives one.
LEMMA FlushRow ==
    ASSUME NEW cur \in Row, NEW old \in Row, NEW new \in Row
    PROVE  /\ Flush(cur, old, new) \in Row
           /\ Flush(cur, old, new).version \in {cur.version, new.version}
  BY DEF Flush, Row

\* The same for a snapshot.
LEMMA FlushSnap ==
    ASSUME NEW cur \in Snap, NEW old \in Snap, NEW new \in Snap
    PROVE  Flush(cur, old, new) \in Snap
  BY DEF Flush, Snap

\* What create_prompt_template records of a row is a snapshot.
LEMMA SnapOfRow == ASSUME NEW row \in Row PROVE SnapOf(row) \in Snap
  BY DEF SnapOf, Row, Snap

\* The empty tables before the first start satisfy the invariant.
LEMMA InitInv == Init => IInv
  <1> SUFFICES ASSUME Init PROVE IInv
    OBVIOUS
  <1>1. TypeOK
    BY BoundAssumption DEF Init, TypeOK
  <1>2. VersionRecorded
    BY DEF Init, VersionRecorded, Live
  <1>3. TxKnows
    BY DEF Init, TxKnows, Knows, Idle, Updates, Promotions, Deletes
  <1> QED
    BY <1>1, <1>2, <1>3 DEF IInv

\* A read step opens a session that knows what it says.
LEMMA BeginKeeps ==
    ASSUME IInv, NEW w \in Workers, NEW t \in Sessions, Begin(w, t), Knows(t)
    PROVE  IInv'
  <1>1. TypeOK'
    BY DEF IInv, TypeOK, Begin, Sessions
  <1>2. VersionRecorded'
    BY DEF IInv, VersionRecorded, Begin, Live
  <1>3. TxKnows'
    <2> SUFFICES ASSUME NEW u \in Workers PROVE Knows(tx[u])'
      BY DEF TxKnows
    <2>1. tx'[u] \in {t, tx[u]} /\ template' = template /\ version' = version
      BY DEF IInv, TypeOK, Begin
    <2>2. Knows(tx[u])
      BY DEF IInv, TxKnows
    <2> QED
      BY <2>1, <2>2 DEF Knows
  <1> QED
    BY <1>1, <1>2, <1>3 DEF IInv

\* A step that ends sessions and loses nothing leaves the others knowing what
\* they knew.
LEMMA EndKeeps ==
    ASSUME IInv, Grows,
           \A u \in Workers : tx'[u] \in {tx[u], Idle}
    PROVE  TxKnows'
  <1> SUFFICES ASSUME NEW u \in Workers PROVE Knows(tx[u])'
    BY DEF TxKnows
  <1>1. CASE tx'[u] = Idle
    BY <1>1 DEF Knows, Idle, Updates, Promotions, Deletes
  <1>2. CASE tx'[u] = tx[u]
    <2>1. Knows(tx[u])
      BY DEF IInv, TxKnows
    <2>2. tx[u] \in Updates =>
              tx[u].id \in Ids /\ tx[u].new.version \in Versions
      BY DEF Updates, Row
    <2>3. tx[u] \in Promotions => tx[u].id \in Ids
      BY DEF Promotions
    <2> QED
      BY <1>2, <2>1, <2>2, <2>3 DEF Knows, Grows
  <1> QED
    BY <1>1, <1>2

\* Taking the flag from other templates changes neither which rows there are
\* nor their versions.
LEMMA DemoteRows ==
    ASSUME NEW tab \in [Ids -> Row \cup {None}], NEW demoted
    PROVE  /\ Demote(tab, demoted) \in [Ids -> Row \cup {None}]
           /\ \A i \in Ids : (Demote(tab, demoted)[i] = None) <=> (tab[i] = None)
           /\ \A i \in Ids : tab[i] # None => Demote(tab, demoted)[i].version = tab[i].version
  <1>1. \A row \in Row : /\ [row EXCEPT !.isDefault = FALSE] \in Row
                         /\ [row EXCEPT !.isDefault = FALSE].version = row.version
    BY DEF Row
  <1> QED
    BY <1>1, NoneAssumption DEF Demote

\* Reading a row, its siblings and its snapshots opens a session that knows
\* what it says, for each of the four requests.
LEMMA BeginsKeep ==
    ASSUME IInv, NEW w \in Workers,
           BeginCreate(w) \/ BeginUpdate(w) \/ BeginSetDefault(w) \/ BeginDelete(w)
    PROVE  IInv'
  <1>0. \A s, i : OtherDefaults(s, i) \in SUBSET Ids
    BY DEF OtherDefaults, Live
  <1>1. \A i \in Live : i \in Ids /\ template[i] \in Row /\ template[i] # None
    BY DEF IInv, TypeOK, Live
  <1>2. CASE BeginCreate(w)
    <2>1. PICK row \in Row :
              Begin(w, [op |-> "create", new |-> row,
                        demoted |-> IF row.isDefault THEN OtherDefaults(row.scene, None) ELSE {}])
      BY <1>2 DEF BeginCreate
    <2> DEFINE t == [op |-> "create", new |-> row,
                     demoted |-> IF row.isDefault THEN OtherDefaults(row.scene, None) ELSE {}]
    <2>2. t \in Creates
      BY <1>0 DEF Creates
    <2>3. Knows(t)
      BY DEF Knows, Updates, Promotions, Deletes
    <2> QED
      BY <2>1, <2>2, <2>3, BeginKeeps DEF Sessions
  <1>3. CASE BeginUpdate(w)
    <2>1. PICK i \in Live, fields \in Row, given \in BOOLEAN :
              LET old == template[i]
                  new == IF given THEN fields ELSE [fields EXCEPT !.isDefault = old.isDefault]
              IN  Begin(w, [op |-> "update", id |-> i, old |-> old, new |-> new,
                            demoted |-> IF given /\ new.isDefault
                                        THEN OtherDefaults(new.scene, i) ELSE {},
                            snap |-> version[i][new.version]])
      BY <1>3 DEF BeginUpdate
    <2> DEFINE old == template[i]
               new == IF given THEN fields ELSE [fields EXCEPT !.isDefault = old.isDefault]
               t == [op |-> "update", id |-> i, old |-> old, new |-> new,
                     demoted |-> IF given /\ new.isDefault
                                 THEN OtherDefaults(new.scene, i) ELSE {},
                     snap |-> version[i][new.version]]
    <2>2. old \in Row /\ new \in Row
      BY <1>1 DEF Row
    <2>3. new.version \in Versions
      BY <2>2 DEF Row
    <2>4. version[i][new.version] \in Snap \cup {None}
      BY <1>1, <2>3 DEF IInv, TypeOK
    <2> HIDE DEF new, old
    <2>5. t \in Updates
      BY <1>0, <1>1, <2>2, <2>4 DEF Updates
    <2>6. Knows(t)
      BY <1>1 DEF Knows, Promotions, Deletes
    <2> QED
      BY <2>1, <2>5, <2>6, BeginKeeps DEF Sessions, old, new
  <1>4. CASE BeginSetDefault(w)
    <2>1. PICK i \in Live :
              Begin(w, [op |-> "setDefault", id |-> i, old |-> template[i],
                        new |-> [template[i] EXCEPT !.isDefault = TRUE, !.status = "active"],
                        demoted |-> OtherDefaults(template[i].scene, i)])
      BY <1>4 DEF BeginSetDefault
    <2> DEFINE new == [template[i] EXCEPT !.isDefault = TRUE, !.status = "active"]
               t == [op |-> "setDefault", id |-> i, old |-> template[i], new |-> new,
                     demoted |-> OtherDefaults(template[i].scene, i)]
    <2>2. new \in Row
      BY <1>1, StatusAssumption DEF Row
    <2> HIDE DEF new
    <2>3. t \in Promotions
      BY <1>0, <1>1, <2>2 DEF Promotions
    <2>4. Knows(t)
      BY <1>1 DEF Knows, Updates, Deletes, Row, new
    <2> QED
      BY <2>1, <2>3, <2>4, BeginKeeps DEF Sessions, new
  <1>5. CASE BeginDelete(w)
    <2>1. PICK i \in Live :
              Begin(w, [op |-> "delete", id |-> i,
                        orphans |-> {v \in Versions : version[i][v] # None}])
      BY <1>5 DEF BeginDelete
    <2> DEFINE t == [op |-> "delete", id |-> i,
                     orphans |-> {v \in Versions : version[i][v] # None}]
    <2>2. t \in Deletes
      BY <1>1 DEF Deletes
    <2>3. template[i].version \in Versions /\ version[i][template[i].version] # None
      BY <1>1 DEF IInv, VersionRecorded, Row
    <2>4. Knows(t)
      BY <2>3 DEF Knows, Updates, Promotions
    <2> QED
      BY <2>1, <2>2, <2>4, BeginKeeps DEF Sessions
  <1> QED
    BY <1>2, <1>3, <1>4, <1>5

\* create_prompt_template adds a row together with its snapshot.
LEMMA CommitCreateKeeps ==
    ASSUME IInv, NEW w \in Workers, CommitCreate(w)
    PROVE  IInv' /\ Grows
  <1> DEFINE new == tx[w].new
             kept == Demote(template, tx[w].demoted)
  <1>1. new \in Row /\ SnapOf(new) \in Snap /\ new.version \in Versions
    BY SnapOfRow DEF CommitCreate, Creates, Row
  <1>2. PICK i \in Ids \ Live :
            /\ template' = [kept EXCEPT ![i] = new]
            /\ version' = [version EXCEPT ![i][new.version] = SnapOf(new)]
    BY DEF CommitCreate
  <1>3. /\ kept \in [Ids -> Row \cup {None}]
        /\ \A j \in Ids : kept[j] = None <=> template[j] = None
        /\ \A j \in Ids : template[j] # None => kept[j].version = template[j].version
    BY DemoteRows DEF IInv, TypeOK
  <1>4. /\ tx' = [tx EXCEPT ![w] = Idle]
        /\ starts' = starts
    BY DEF CommitCreate, Close
  <1> HIDE DEF new, kept
  <1>5. TypeOK'
    BY <1>1, <1>2, <1>3, <1>4 DEF IInv, TypeOK
  <1>6. Grows
    BY <1>1, <1>2, <1>3, NoneAssumption DEF IInv, TypeOK, Grows
  <1>7. VersionRecorded'
    <2> SUFFICES ASSUME NEW j \in Ids, template'[j] # None
                 PROVE  version'[j][template'[j].version] # None
      BY DEF VersionRecorded, Live
    <2>1. CASE j = i
      BY <2>1, <1>1, <1>2, <1>3, NoneAssumption DEF IInv, TypeOK
    <2>2. CASE j # i
      <3>1. template'[j] = kept[j] /\ version'[j] = version[j]
        BY <2>2, <1>2, <1>3 DEF IInv, TypeOK
      <3> QED
        BY <3>1, <1>3 DEF IInv, VersionRecorded, Live
    <2> QED
      BY <2>1, <2>2
  <1>8. TxKnows'
    BY <1>4, <1>6, EndKeeps DEF IInv, TypeOK
  <1> QED
    BY <1>5, <1>6, <1>7, <1>8 DEF IInv

\* update_prompt_template writes the snapshot of the version it writes, and if it
\* writes no version (it loaded the same) the one of another request is there.
LEMMA CommitUpdateKeeps ==
    ASSUME IInv, NEW w \in Workers, CommitUpdate(w)
    PROVE  IInv' /\ Grows
  <1> DEFINE t == tx[w]
             kept == Demote(template, t.demoted)
             row == Flush(kept[t.id], t.old, t.new)
             cur == version[t.id][t.new.version]
             snap == IF t.snap = None THEN SnapOf(t.new)
                     ELSE Flush(cur, t.snap, SnapOf(t.new))
  <1>1. t \in Updates
    BY DEF CommitUpdate
  <1>2. /\ t.id \in Ids /\ t.old \in Row /\ t.new \in Row /\ t.snap \in Snap \cup {None}
        /\ t.new.version \in Versions /\ SnapOf(t.new) \in Snap
    BY <1>1, SnapOfRow DEF Updates, Row
  <1>3. template[t.id] # None /\ (t.snap # None => cur # None)
    BY <1>1 DEF IInv, TxKnows, Knows
  <1>4. /\ kept \in [Ids -> Row \cup {None}]
        /\ \A j \in Ids : kept[j] = None <=> template[j] = None
        /\ \A j \in Ids : template[j] # None => kept[j].version = template[j].version
    BY DemoteRows DEF IInv, TypeOK
  <1>5. kept[t.id] \in Row
    BY <1>2, <1>3, <1>4
  <1>6. row \in Row /\ row.version \in {template[t.id].version, t.new.version}
    BY <1>2, <1>3, <1>4, <1>5, FlushRow
  <1>7. snap \in Snap
    <2>1. cur \in Snap \cup {None}
      BY <1>2 DEF IInv, TypeOK
    <2> QED
      BY <1>2, <1>3, <2>1, FlushSnap
  <1>8. /\ template' = [kept EXCEPT ![t.id] = row]
        /\ version' = [version EXCEPT ![t.id][t.new.version] = snap]
        /\ tx' = [tx EXCEPT ![w] = Idle]
        /\ starts' = starts
    BY <1>2, <1>4 DEF CommitUpdate, SnapAfter, Close
  <1> HIDE DEF t, kept, row, cur, snap
  <1>9. TypeOK'
    BY <1>2, <1>4, <1>6, <1>7, <1>8 DEF IInv, TypeOK
  <1>10. Grows
    BY <1>2, <1>4, <1>6, <1>7, <1>8, NoneAssumption DEF IInv, TypeOK, Grows
  <1>11. VersionRecorded'
    <2> SUFFICES ASSUME NEW j \in Ids, template'[j] # None
                 PROVE  version'[j][template'[j].version] # None
      BY DEF VersionRecorded, Live
    <2>1. CASE j = t.id
      <3>1. template'[j] = row /\ version'[j] = [version[j] EXCEPT ![t.new.version] = snap]
        BY <2>1, <1>2, <1>4, <1>8 DEF IInv, TypeOK
      <3>2. CASE row.version = t.new.version
        BY <3>1, <3>2, <1>2, <1>7, <2>1, NoneAssumption DEF IInv, TypeOK
      <3>3. CASE row.version # t.new.version
        BY <3>1, <3>3, <1>2, <1>3, <1>6, <2>1 DEF IInv, TypeOK, VersionRecorded, Live
      <3> QED
        BY <3>2, <3>3
    <2>2. CASE j # t.id
      <3>1. template'[j] = kept[j] /\ version'[j] = version[j]
        BY <2>2, <1>4, <1>8 DEF IInv, TypeOK
      <3> QED
        BY <3>1, <1>4 DEF IInv, VersionRecorded, Live
    <2> QED
      BY <2>1, <2>2
  <1>12. TxKnows'
    BY <1>8, <1>10, EndKeeps DEF IInv, TypeOK
  <1> QED
    BY <1>9, <1>10, <1>11, <1>12 DEF IInv

\* set_default_prompt_template changes no version.
LEMMA CommitSetDefaultKeeps ==
    ASSUME IInv, NEW w \in Workers, CommitSetDefault(w)
    PROVE  IInv' /\ Grows
  <1> DEFINE t == tx[w]
             kept == Demote(template, t.demoted)
             row == Flush(kept[t.id], t.old, t.new)
  <1>1. t \in Promotions
    BY DEF CommitSetDefault
  <1>2. t.id \in Ids /\ t.old \in Row /\ t.new \in Row
    BY <1>1 DEF Promotions
  <1>3. template[t.id] # None
    BY <1>1 DEF IInv, TxKnows, Knows
  <1>4. t.new.version = t.old.version
    BY <1>1 DEF IInv, TxKnows, Knows
  <1>5. /\ kept \in [Ids -> Row \cup {None}]
        /\ \A j \in Ids : kept[j] = None <=> template[j] = None
        /\ \A j \in Ids : template[j] # None => kept[j].version = template[j].version
    BY DemoteRows DEF IInv, TypeOK
  <1>6. kept[t.id] \in Row
    BY <1>2, <1>3, <1>5
  <1>7. row \in Row /\ row.version = template[t.id].version
    <2>1. row \in Row
      BY <1>2, <1>6, FlushRow
    <2>2. row.version = kept[t.id].version
      BY <1>2, <1>4, <1>6 DEF Flush, Row
    <2> QED
      BY <2>1, <2>2, <1>2, <1>3, <1>5
  <1>8. /\ template' = [kept EXCEPT ![t.id] = row]
        /\ version' = version
        /\ tx' = [tx EXCEPT ![w] = Idle]
        /\ starts' = starts
    BY <1>2, <1>5 DEF CommitSetDefault, Close
  <1> HIDE DEF t, kept, row
  <1>9. TypeOK'
    BY <1>2, <1>5, <1>7, <1>8 DEF IInv, TypeOK
  <1>10. /\ Grows
         /\ \A j \in Ids : template'[j] # None =>
                template[j] # None /\ template'[j].version = template[j].version
    BY <1>2, <1>3, <1>5, <1>7, <1>8, NoneAssumption DEF IInv, TypeOK, Grows
  <1>11. VersionRecorded'
    BY <1>8, <1>10 DEF IInv, VersionRecorded, Live
  <1>12. TxKnows'
    BY <1>8, <1>10, EndKeeps DEF IInv, TypeOK
  <1> QED
    BY <1>9, <1>10, <1>11, <1>12 DEF IInv

\* A delete finds a snapshot of its template and is refused, so it and a
\* rollback only close the session.
LEMMA CloseKeeps ==
    ASSUME IInv, NEW w \in Workers, EndDelete(w) \/ Rollback(w)
    PROVE  IInv' /\ Grows
  <1>1. template' = template /\ version' = version
    <2>1. CASE EndDelete(w)
      <3>1. tx[w].orphans # {}
        BY <2>1 DEF EndDelete, IInv, TxKnows, Knows
      <3> QED
        BY <2>1, <3>1 DEF EndDelete
    <2>2. CASE Rollback(w)
      BY <2>2 DEF Rollback
    <2> QED
      BY <2>1, <2>2
  <1>2. tx' = [tx EXCEPT ![w] = Idle] /\ starts' = starts
    BY DEF EndDelete, Rollback, Close
  <1>3. Grows
    BY <1>1 DEF Grows
  <1>4. TypeOK' /\ VersionRecorded'
    BY <1>1, <1>2 DEF IInv, TypeOK, VersionRecorded, Live
  <1>5. TxKnows'
    BY <1>2, <1>3, EndKeeps DEF IInv, TypeOK
  <1> QED
    BY <1>3, <1>4, <1>5 DEF IInv

\* Normalizing the flags loses no row.
LEMMA NormalizeRows ==
    ASSUME NEW tab \in [Ids -> Row \cup {None}], NEW map
    PROVE  /\ Normalize(tab, map) \in [Ids -> Row \cup {None}]
           /\ \A i \in Ids : tab[i] # None => Normalize(tab, map)[i] # None
  <1> SUFFICES ASSUME NEW i \in Ids
               PROVE  /\ Normalize(tab, map)[i] \in Row \cup {None}
                      /\ tab[i] # None => Normalize(tab, map)[i] # None
    BY DEF Normalize
  <1>1. CASE tab[i] = None
    BY <1>1 DEF Normalize
  <1>2. CASE tab[i] # None
    <2> DEFINE flag == tab[i].key = PreferredKey(map, tab[i].scene)
    <2>1. Normalize(tab, map)[i] = [tab[i] EXCEPT !.isDefault = flag]
      BY <1>2 DEF Normalize
    <2>2. tab[i] \in Row /\ flag \in BOOLEAN
      BY <1>2
    <2> HIDE DEF flag
    <2>3. [tab[i] EXCEPT !.isDefault = flag] \in Row
      BY <2>2 DEF Row
    <2> QED
      BY <2>1, <2>3, NoneAssumption
  <1> QED
    BY <1>1, <1>2

\* Resetting the built-in rows loses no row and inserts well-formed ones.
LEMMA ResetRows ==
    ASSUME TypeOK, NEW ids \in FreshIds
    PROVE  /\ Reset(ids) \in [Ids -> Row \cup {None}]
           /\ \A i \in Ids : template[i] # None => Reset(ids)[i] # None
  <1>1. \A k \in Builtin : Shipped[k] \in Row
    BY ShippedAssumption DEF Builtin
  <1>2. DOMAIN ids \subseteq Builtin
    BY DEF FreshIds, MissingKeys
  <1> SUFFICES ASSUME NEW i \in Ids
               PROVE  /\ Reset(ids)[i] \in Row \cup {None}
                      /\ template[i] # None => Reset(ids)[i] # None
    BY DEF Reset
  <1>3. CASE i \in Live
    <2>1. template[i] \in Row
      BY <1>3 DEF Live, TypeOK
    <2>2. CASE template[i].key \in Builtin
      <3> DEFINE row == Shipped[template[i].key]
                 flag == template[i].isDefault
      <3>1. row \in Row /\ flag \in BOOLEAN
        BY <2>1, <2>2, <1>1 DEF Row
      <3>2. Reset(ids)[i] = [row EXCEPT !.isDefault = flag]
        BY <1>3, <2>2 DEF Reset
      <3> HIDE DEF row, flag
      <3>3. [row EXCEPT !.isDefault = flag] \in Row
        BY <3>1 DEF Row
      <3> QED
        BY <3>2, <3>3, NoneAssumption
    <2>3. CASE template[i].key \notin Builtin
      BY <1>3, <2>1, <2>3, NoneAssumption DEF Reset
    <2> QED
      BY <2>2, <2>3
  <1>4. CASE i \notin Live /\ \E k \in DOMAIN ids : ids[k] = i
    <2>1. (CHOOSE k \in DOMAIN ids : ids[k] = i) \in DOMAIN ids
      BY <1>4
    <2>2. Reset(ids)[i] = Shipped[CHOOSE k \in DOMAIN ids : ids[k] = i]
      BY <1>4 DEF Reset
    <2> QED
      BY <2>1, <2>2, <1>1, <1>2, <1>4 DEF Live
  <1>5. CASE i \notin Live /\ ~\E k \in DOMAIN ids : ids[k] = i
    BY <1>5 DEF Reset, Live
  <1> QED
    BY <1>3, <1>4, <1>5

\* Bootstrap ends with a snapshot for every template, its closing loop, and
\* loses no row and no snapshot.
LEMMA RestartRecords ==
    ASSUME TypeOK, NEW ids \in FreshIds, RestartWith(ids)
    PROVE  TypeOK' /\ VersionRecorded' /\ Grows
  <1>1. PICK map \in SceneDefaultMaps :
            /\ template' = Normalize(Reset(ids), map)
            /\ version' = AddSnapshots(template')
    BY DEF RestartWith
  <1>2. /\ tx' = [w \in Workers |-> Idle]
        /\ starts' \in 0..MaxStarts
    BY BoundAssumption DEF RestartWith, TypeOK
  <1>3. /\ template' \in [Ids -> Row \cup {None}]
        /\ \A i \in Ids : template[i] # None => template'[i] # None
    BY <1>1, ResetRows, NormalizeRows
  <1>4. \A i \in Ids : template'[i] # None =>
            template'[i].version \in Versions /\ SnapOf(template'[i]) \in Snap
    BY <1>3, SnapOfRow DEF Row
  <1>5. /\ version' \in [Ids -> [Versions -> Snap \cup {None}]]
        /\ \A i \in Ids, v \in Versions : version[i][v] # None => version'[i][v] # None
        /\ \A i \in Ids : template'[i] # None => version'[i][template'[i].version] # None
    BY <1>1, <1>4, NoneAssumption DEF TypeOK, AddSnapshots
  <1> QED
    BY <1>2, <1>3, <1>5 DEF TypeOK, VersionRecorded, Live, Grows

\* The sessions that a start ends know nothing any more.
LEMMA RestartKeeps ==
    ASSUME IInv, Restart
    PROVE  IInv' /\ Grows
  <1>1. TypeOK' /\ VersionRecorded' /\ Grows
    BY RestartRecords DEF Restart, IInv
  <1>2. tx' = [w \in Workers |-> Idle]
    BY DEF Restart, RestartWith
  <1>3. TxKnows'
    BY <1>1, <1>2, EndKeeps
  <1> QED
    BY <1>1, <1>3 DEF IInv

\* Every step keeps the invariant and loses nothing.
LEMMA NextKeeps == IInv /\ [Next]_vars => IInv' /\ (Grows \/ UNCHANGED template)
  <1> SUFFICES ASSUME IInv, [Next]_vars PROVE IInv' /\ (Grows \/ UNCHANGED template)
    OBVIOUS
  <1>1. CASE Restart
    BY <1>1, RestartKeeps
  <1>2. ASSUME NEW w \in Workers, Request(w)
        PROVE  IInv' /\ (Grows \/ UNCHANGED template)
    <2>1. CASE BeginCreate(w) \/ BeginUpdate(w) \/ BeginSetDefault(w) \/ BeginDelete(w)
      <3>1. UNCHANGED template
        BY <2>1 DEF BeginCreate, BeginUpdate, BeginSetDefault, BeginDelete, Begin
      <3> QED
        BY <2>1, <3>1, BeginsKeep
    <2>2. CASE CommitCreate(w)
      BY <2>2, CommitCreateKeeps
    <2>3. CASE CommitUpdate(w)
      BY <2>3, CommitUpdateKeeps
    <2>4. CASE CommitSetDefault(w)
      BY <2>4, CommitSetDefaultKeeps
    <2>5. CASE EndDelete(w) \/ Rollback(w)
      BY <2>5, CloseKeeps
    <2> QED
      BY <1>2, <2>1, <2>2, <2>3, <2>4, <2>5 DEF Request
  <1>3. CASE UNCHANGED vars
    <2>1. TypeOK' /\ VersionRecorded'
      BY <1>3 DEF vars, IInv, TypeOK, VersionRecorded, Live
    <2>2. TxKnows'
      BY <1>3 DEF vars, IInv, TxKnows, Knows
    <2> QED
      BY <1>3, <2>1, <2>2 DEF vars, IInv
  <1> QED
    BY <1>1, <1>2, <1>3 DEF Next

\* The invariant holds in every state.
LEMMA Invariance == Spec => []IInv
  BY InitInv, NextKeeps, PTL DEF Spec

\* The tables and the sessions only ever hold well-formed rows, whatever
\* requests interleave (a merged row of two concurrent updates included).
THEOREM TypeCorrect == Spec => []TypeOK
  <1>1. IInv => TypeOK
    BY DEF IInv
  <1> QED
    BY <1>1, Invariance, PTL

\* The current version of every template can be looked up in
\* prompt_template_versions, under any interleaving and any restart.
THEOREM VersionsAreRecorded == Spec => []VersionRecorded
  <1>1. IInv => VersionRecorded
    BY DEF IInv
  <1> QED
    BY <1>1, Invariance, PTL

\* A step that adds a snapshot has the row it belongs to in hand.
LEMMA SnapshotsHaveOwner ==
    ASSUME IInv, [Next]_vars
    PROVE  \A i \in Ids, v \in Versions :
              version'[i][v] # None => version[i][v] # None \/ template'[i] # None
  <1> SUFFICES ASSUME NEW i \in Ids, NEW v \in Versions, version'[i][v] # None,
                      ~UNCHANGED version
               PROVE  version[i][v] # None \/ template'[i] # None
    OBVIOUS
  <1>1. CASE Restart
    BY <1>1 DEF Restart, RestartWith, AddSnapshots, IInv, TypeOK
  <1>2. ASSUME NEW w \in Workers, CommitCreate(w)
        PROVE  version[i][v] # None \/ template'[i] # None
    <2>1. PICK j \in Ids \ Live :
              /\ template' = [Demote(template, tx[w].demoted) EXCEPT ![j] = tx[w].new]
              /\ version' = [version EXCEPT ![j][tx[w].new.version] = SnapOf(tx[w].new)]
      BY <1>2 DEF CommitCreate
    <2>2. tx[w].new \in Row
      BY <1>2 DEF CommitCreate, Creates
    <2>3. CASE i = j
      BY <2>1, <2>2, <2>3, NoneAssumption DEF Demote
    <2>4. CASE i # j
      BY <2>1, <2>4 DEF IInv, TypeOK
    <2> QED
      BY <2>3, <2>4
  <1>3. ASSUME NEW w \in Workers, CommitUpdate(w)
        PROVE  version[i][v] # None \/ template'[i] # None
    <2>1. /\ tx[w] \in Updates /\ template[tx[w].id] # None
          /\ version' = [version EXCEPT ![tx[w].id][tx[w].new.version] =
                            SnapAfter(tx[w], version[tx[w].id][tx[w].new.version])]
      BY <1>3 DEF CommitUpdate, IInv, TxKnows, Knows
    <2>2. CASE i = tx[w].id
      <3>1. template'[i] # None
        BY <1>3, <2>1, <2>2, CommitUpdateKeeps DEF Grows
      <3> QED
        BY <3>1
    <2>3. CASE i # tx[w].id
      BY <2>1, <2>3 DEF IInv, TypeOK
    <2> QED
      BY <2>2, <2>3
  <1>4. ASSUME NEW w \in Workers, Request(w)
        PROVE  CommitCreate(w) \/ CommitUpdate(w)
    <2>1. ~(BeginCreate(w) \/ BeginUpdate(w) \/ BeginSetDefault(w) \/ BeginDelete(w))
      BY DEF BeginCreate, BeginUpdate, BeginSetDefault, BeginDelete, Begin
    <2>2. ~(CommitSetDefault(w) \/ EndDelete(w) \/ Rollback(w))
      BY DEF CommitSetDefault, EndDelete, Rollback
    <2> QED
      BY <1>4, <2>1, <2>2 DEF Request
  <1>5. Next
    BY DEF vars
  <1> QED
    BY <1>1, <1>2, <1>3, <1>4, <1>5 DEF Next

\* A delete takes its template and the history of it, or neither: as every
\* template has a snapshot, it takes neither.
THEOREM HistoriesHaveOwners == Spec => []HistoryHasOwner
  <1>1. Init => HistoryHasOwner
    BY DEF Init, HistoryHasOwner
  <1>2. IInv /\ HistoryHasOwner /\ [Next]_vars => HistoryHasOwner'
    BY NextKeeps, SnapshotsHaveOwner DEF Grows, HistoryHasOwner, Live
  <1> QED
    BY <1>1, <1>2, Invariance, PTL DEF Spec

-----------------------------------------------------------------------------
(* Why a start of the server leaves one default template per scene, however  *)
(* the requests before it interleaved.                                       *)

\* The bootstrap settles the flags by template_key, so the keys must tell the
\* templates apart; set-default writes no key, and a create or an update with
\* a taken key is refused at its commit.
PromotionsKeepKeys == \A w \in Workers : tx[w] \in Promotions => tx[w].new.key = tx[w].old.key

KeysInv == IInv /\ UniqueKeys(template) /\ PromotionsKeepKeys

\* A table whose rows are rows of another table, keys included, has no more
\* equal keys than that one.
LEMMA SameKeys ==
    ASSUME NEW a, NEW b, UniqueKeys(a),
           \A i \in Ids : b[i] # None => a[i] # None /\ b[i].key = a[i].key
    PROVE  UniqueKeys(b)
  BY DEF UniqueKeys

\* Taking the flag from other templates changes no key.
LEMMA DemoteKeys ==
    ASSUME NEW tab \in [Ids -> Row \cup {None}], NEW demoted
    PROVE  \A i \in Ids : Demote(tab, demoted)[i] # None =>
               tab[i] # None /\ Demote(tab, demoted)[i].key = tab[i].key
  <1>1. \A row \in Row : [row EXCEPT !.isDefault = FALSE].key = row.key
    BY DEF Row
  <1> QED
    BY <1>1 DEF Demote

\* The bootstrap keeps the key of every row and inserts only keys no row has.
LEMMA ResetKeys ==
    ASSUME NEW ids \in FreshIds, UniqueKeys(template)
    PROVE  UniqueKeys(Reset(ids))
  <1>1. DOMAIN ids = MissingKeys /\ MissingKeys \subseteq Builtin
    BY DEF FreshIds, MissingKeys
  <1>2. \A k \in Builtin : Shipped[k] \in Row /\ Shipped[k].key = k
    BY ShippedAssumption DEF Builtin
  <1>3. ASSUME NEW i \in Ids, Reset(ids)[i] # None
        PROVE  \/ i \in Live /\ Reset(ids)[i].key = template[i].key
               \/ Reset(ids)[i].key \in MissingKeys /\ ids[Reset(ids)[i].key] = i
    <2>1. CASE i \in Live /\ template[i].key \in Builtin
      <3> DEFINE row == Shipped[template[i].key]
                 flag == template[i].isDefault
      <3>1. row \in Row /\ row.key = template[i].key
        BY <2>1, <1>2
      <3>2. Reset(ids)[i] = [row EXCEPT !.isDefault = flag]
        BY <2>1 DEF Reset
      <3> HIDE DEF row, flag
      <3>3. [row EXCEPT !.isDefault = flag].key = row.key
        BY <3>1 DEF Row
      <3> QED
        BY <2>1, <3>1, <3>2, <3>3
    <2>2. CASE i \in Live /\ template[i].key \notin Builtin
      BY <2>2 DEF Reset
    <2>3. CASE i \notin Live
      <3> DEFINE k == CHOOSE k \in DOMAIN ids : ids[k] = i
      <3>1. \E l \in DOMAIN ids : ids[l] = i
        BY <1>3, <2>3 DEF Reset
      <3>2. k \in MissingKeys /\ ids[k] = i
        BY <3>1, <1>1
      <3>3. Reset(ids)[i] = Shipped[k]
        BY <2>3, <3>1 DEF Reset
      <3> QED
        BY <3>2, <3>3, <1>1, <1>2
    <2> QED
      BY <2>1, <2>2, <2>3
  <1> SUFFICES ASSUME NEW i \in Ids, NEW j \in Ids,
                      Reset(ids)[i] # None, Reset(ids)[j] # None,
                      Reset(ids)[i].key = Reset(ids)[j].key
               PROVE  i = j
    BY DEF UniqueKeys
  <1>4. \A l \in Live : l \in Ids /\ template[l] # None /\ template[l].key \notin MissingKeys
    BY DEF Live, MissingKeys, HasKey
  <1> QED
    BY <1>3, <1>4 DEF UniqueKeys

\* The flags change at the end of the bootstrap, the keys do not.
LEMMA NormalizeKeys ==
    ASSUME NEW tab \in [Ids -> Row \cup {None}], NEW map
    PROVE  \A i \in Ids : Normalize(tab, map)[i] # None =>
               /\ tab[i] # None
               /\ Normalize(tab, map)[i].key = tab[i].key
               /\ Normalize(tab, map)[i].scene = tab[i].scene
               /\ Normalize(tab, map)[i].isDefault <=>
                      tab[i].key = PreferredKey(map, tab[i].scene)
  <1> SUFFICES ASSUME NEW i \in Ids, Normalize(tab, map)[i] # None
               PROVE  /\ tab[i] # None
                      /\ Normalize(tab, map)[i].key = tab[i].key
                      /\ Normalize(tab, map)[i].scene = tab[i].scene
                      /\ Normalize(tab, map)[i].isDefault <=>
                             tab[i].key = PreferredKey(map, tab[i].scene)
    OBVIOUS
  <1> DEFINE flag == tab[i].key = PreferredKey(map, tab[i].scene)
  <1>1. tab[i] # None
    BY DEF Normalize
  <1>2. Normalize(tab, map)[i] = [tab[i] EXCEPT !.isDefault = flag]
    BY <1>1 DEF Normalize
  <1>3. tab[i] \in Row
    BY <1>1
  <1>4. \A row \in Row, f \in BOOLEAN :
            /\ [row EXCEPT !.isDefault = f].key = row.key
            /\ [row EXCEPT !.isDefault = f].scene = row.scene
            /\ [row EXCEPT !.isDefault = f].isDefault = f
    BY DEF Row
  <1>5. flag \in BOOLEAN
    OBVIOUS
  <1> HIDE DEF flag
  <1>6. /\ Normalize(tab, map)[i].key = tab[i].key
        /\ Normalize(tab, map)[i].scene = tab[i].scene
        /\ Normalize(tab, map)[i].isDefault = flag
    BY <1>2, <1>3, <1>4, <1>5
  <1> QED
    BY <1>1, <1>6 DEF flag

\* No commit of a request makes two templates share a key.
LEMMA RequestKeys ==
    ASSUME KeysInv, NEW w \in Workers, Request(w)
    PROVE  UniqueKeys(template')
  <1>1. template \in [Ids -> Row \cup {None}] /\ UniqueKeys(template)
    BY DEF KeysInv, IInv, TypeOK
  <1>2. CASE UNCHANGED template
    BY <1>1, <1>2
  <1>3. CASE CommitCreate(w)
    <2> DEFINE kept == Demote(template, tx[w].demoted)
               new == tx[w].new
    <2>1. PICK i \in Ids \ Live : template' = [kept EXCEPT ![i] = new]
      BY <1>3 DEF CommitCreate
    <2>2. kept \in [Ids -> Row \cup {None}]
      BY <1>1, DemoteRows
    <2>3. \A j \in Ids : kept[j] # None => template[j] # None /\ kept[j].key = template[j].key
      BY <1>1, DemoteKeys
    <2>4. \A j \in Ids : template[j] # None => template[j].key # new.key
      BY <1>3 DEF CommitCreate, HasKey
    <2> HIDE DEF kept, new
    <2>5. \A j \in Ids : template'[j] = IF j = i THEN new ELSE kept[j]
      BY <2>1, <2>2
    <2> QED
      BY <1>1, <2>3, <2>4, <2>5 DEF UniqueKeys
  <1>4. CASE CommitUpdate(w)
    BY <1>4 DEF CommitUpdate
  <1>5. CASE CommitSetDefault(w)
    <2> DEFINE t == tx[w]
               kept == Demote(template, t.demoted)
               row == Flush(kept[t.id], t.old, t.new)
    <2>1. t \in Promotions /\ t.id \in Ids /\ t.new.key = t.old.key /\ template[t.id] # None
      BY <1>5 DEF CommitSetDefault, KeysInv, PromotionsKeepKeys, IInv, TxKnows, Knows, Promotions
    <2>2. /\ kept \in [Ids -> Row \cup {None}]
          /\ \A j \in Ids : kept[j] = None <=> template[j] = None
      BY <1>1, DemoteRows
    <2>3. \A j \in Ids : kept[j] # None => template[j] # None /\ kept[j].key = template[j].key
      BY <1>1, DemoteKeys
    <2>4. template' = [kept EXCEPT ![t.id] = row]
      BY <1>5, <2>1, <2>2 DEF CommitSetDefault
    <2>5. kept[t.id] \in Row
      BY <2>1, <2>2
    <2>6. row.key = kept[t.id].key
      BY <2>1, <2>5 DEF Flush, Row
    <2> HIDE DEF t, kept, row
    <2>7. \A j \in Ids : template'[j] = IF j = t.id THEN row ELSE kept[j]
      BY <2>2, <2>4
    <2>8. \A j \in Ids : template'[j] # None =>
              template[j] # None /\ template'[j].key = template[j].key
      BY <2>1, <2>2, <2>3, <2>5, <2>6, <2>7
    <2> QED
      BY <1>1, <2>8, SameKeys
  <1>6. CASE EndDelete(w)
    <2>1. template' = template
      BY <1>6 DEF EndDelete, KeysInv, IInv, TxKnows, Knows
    <2> QED
      BY <1>1, <2>1
  <1>7. BeginCreate(w) \/ BeginUpdate(w) \/ BeginSetDefault(w) \/ BeginDelete(w) \/ Rollback(w)
            => UNCHANGED template
    BY DEF BeginCreate, BeginUpdate, BeginSetDefault, BeginDelete, Begin, Rollback
  <1> QED
    BY <1>2, <1>3, <1>4, <1>5, <1>6, <1>7 DEF Request

\* A request that sets a default wants the key it loaded.
LEMMA RequestPromotions ==
    ASSUME KeysInv, NEW w \in Workers, Request(w)
    PROVE  PromotionsKeepKeys'
  <1>0. tx \in [Workers -> Sessions] /\ PromotionsKeepKeys
    BY DEF KeysInv, IInv, TypeOK, Sessions
  <1>1. Idle \notin Promotions
    BY DEF Idle, Promotions
  <1>2. CASE BeginSetDefault(w)
    <2>1. PICK i \in Live :
              Begin(w, [op |-> "setDefault", id |-> i, old |-> template[i],
                        new |-> [template[i] EXCEPT !.isDefault = TRUE, !.status = "active"],
                        demoted |-> OtherDefaults(template[i].scene, i)])
      BY <1>2 DEF BeginSetDefault
    <2>2. template[i] \in Row
      BY DEF Live, KeysInv, IInv, TypeOK
    <2>3. [template[i] EXCEPT !.isDefault = TRUE, !.status = "active"].key = template[i].key
      BY <2>2 DEF Row
    <2>4. tx'[w].new.key = tx'[w].old.key /\ \A u \in Workers \ {w} : tx'[u] = tx[u]
      BY <1>0, <2>1, <2>3 DEF Begin
    <2> QED
      BY <1>0, <2>4 DEF PromotionsKeepKeys
  <1>3. CASE BeginCreate(w) \/ BeginUpdate(w) \/ BeginDelete(w)
    <2>1. tx'[w].op # "setDefault" /\ \A u \in Workers \ {w} : tx'[u] = tx[u]
      <3>1. CASE BeginCreate(w)
        BY <1>0, <3>1 DEF BeginCreate, Begin
      <3>2. CASE BeginUpdate(w)
        BY <1>0, <3>2 DEF BeginUpdate, Begin
      <3>3. CASE BeginDelete(w)
        BY <1>0, <3>3 DEF BeginDelete, Begin
      <3> QED
        BY <1>3, <3>1, <3>2, <3>3
    <2>2. tx'[w] \notin Promotions
      BY <2>1 DEF Promotions
    <2> QED
      BY <1>0, <2>1, <2>2 DEF PromotionsKeepKeys
  <1>4. CASE tx' = [tx EXCEPT ![w] = Idle]
    BY <1>0, <1>1, <1>4 DEF PromotionsKeepKeys
  <1>5. CommitCreate(w) \/ CommitUpdate(w) \/ CommitSetDefault(w) \/ EndDelete(w) \/ Rollback(w)
            => tx' = [tx EXCEPT ![w] = Idle]
    BY DEF CommitCreate, CommitUpdate, CommitSetDefault, EndDelete, Rollback, Close
  <1> QED
    BY <1>2, <1>3, <1>4, <1>5 DEF Request

\* A start gives every scene at most one default, the template with the key
\* the bootstrap prefers, and leaves the keys distinct.
LEMMA RestartSettles ==
    ASSUME TypeOK, UniqueKeys(template), NEW ids \in FreshIds, RestartWith(ids)
    PROVE  UniqueKeys(template') /\ OneDefaultPerScene'
  <1>1. PICK map \in SceneDefaultMaps : template' = Normalize(Reset(ids), map)
    BY DEF RestartWith
  <1> DEFINE tab == Reset(ids)
  <1>2. tab \in [Ids -> Row \cup {None}] /\ UniqueKeys(tab)
    BY ResetRows, ResetKeys
  <1> HIDE DEF tab
  <1>3. template' = Normalize(tab, map)
    BY <1>1 DEF tab
  <1>4. \A i \in Ids : template'[i] # None =>
            /\ tab[i] # None
            /\ template'[i].key = tab[i].key
            /\ template'[i].scene = tab[i].scene
            /\ template'[i].isDefault <=> tab[i].key = PreferredKey(map, tab[i].scene)
    BY <1>2, <1>3, NormalizeKeys
  <1>5. UniqueKeys(template')
    BY <1>2, <1>4, SameKeys
  <1>6. OneDefaultPerScene'
    <2> SUFFICES ASSUME NEW i \in Live', NEW j \in Live',
                        template'[i].isDefault, template'[j].isDefault,
                        template'[i].scene = template'[j].scene
                 PROVE  i = j
      BY DEF OneDefaultPerScene
    <2>1. i \in Ids /\ j \in Ids /\ template'[i] # None /\ template'[j] # None
      BY DEF Live
    <2>2. template'[i].key = template'[j].key
      BY <1>4, <2>1
    <2> QED
      BY <1>5, <2>1, <2>2 DEF UniqueKeys
  <1> QED
    BY <1>5, <1>6

\* The keys stay distinct in every step, and only a start counts as one.
LEMMA NextSettles ==
    ASSUME KeysInv, [Next]_vars
    PROVE  KeysInv' /\ (starts' # starts => OneDefaultPerScene')
  <1>1. IInv'
    BY NextKeeps DEF KeysInv
  <1>2. CASE Restart
    <2>1. PromotionsKeepKeys'
      BY <1>2 DEF Restart, RestartWith, PromotionsKeepKeys, Idle, Promotions
    <2>2. UniqueKeys(template') /\ OneDefaultPerScene'
      BY <1>2, RestartSettles DEF Restart, KeysInv, IInv
    <2> QED
      BY <1>1, <2>1, <2>2 DEF KeysInv
  <1>3. ASSUME NEW w \in Workers, Request(w)
        PROVE  KeysInv' /\ (starts' # starts => OneDefaultPerScene')
    <2>1. starts' = starts
      BY <1>3 DEF Request, BeginCreate, CommitCreate, BeginUpdate, CommitUpdate, BeginSetDefault,
                  CommitSetDefault, BeginDelete, EndDelete, Rollback, Begin, Close
    <2> QED
      BY <1>1, <1>3, <2>1, RequestKeys, RequestPromotions DEF KeysInv
  <1>4. CASE UNCHANGED vars
    BY <1>1, <1>4 DEF vars, KeysInv, PromotionsKeepKeys
  <1> QED
    BY <1>2, <1>3, <1>4 DEF Next

\* No interleaving of requests before a start, not even one that left a scene
\* two defaults, survives its bootstrap: afterwards each scene has at most one
\* default template (_seed_prompt_templates).
THEOREM BootstrapLeavesOneDefault == Spec => BootstrapNormalizes
  <1>1. Init => KeysInv
    <2>1. Init => UniqueKeys(template) /\ PromotionsKeepKeys
      BY DEF Init, UniqueKeys, PromotionsKeepKeys, Idle, Promotions
    <2> QED
      BY <2>1, InitInv DEF KeysInv
  <1>2. KeysInv /\ [Next]_vars => KeysInv' /\ [starts' # starts => OneDefaultPerScene']_vars
    BY NextSettles
  <1> QED
    BY <1>1, <1>2, PTL DEF Spec, BootstrapNormalizes

-----------------------------------------------------------------------------
(* One request at a time: what a request read is still so when it commits.   *)

Alone == \A v, w \in Workers : v = w

\* The rows and the snapshot an open request loaded are the committed ones.
Loaded(t) ==
    /\ t \in Updates => /\ t.old = template[t.id] /\ t.id \notin t.demoted
                        /\ t.snap = version[t.id][t.new.version]
    /\ t \in Promotions =>
           /\ t.id \notin t.demoted
           /\ t.new = [template[t.id] EXCEPT !.isDefault = TRUE, !.status = "active"]
           /\ t.old = template[t.id]

\* A request whose template becomes a default demotes all others of the scene.
Demotes(t) ==
    /\ t \in Creates /\ t.new.isDefault => t.demoted = OtherDefaults(t.new.scene, None)
    /\ t \in Updates \cup Promotions /\ t.new.isDefault =>
           t.demoted = OtherDefaults(t.new.scene, t.id)

TxLoaded == \A w \in Workers : Loaded(tx[w])
TxDemotes == \A w \in Workers : Demotes(tx[w])

HistoryInv == IInv /\ TxLoaded /\ SnapshotCurrent

FlagsInv == KeysInv /\ TxLoaded /\ TxDemotes /\ OneDefaultPerScene

\* No snapshot but the current one of the row that is saved changes.
Frozen ==
    \A i \in Ids, v \in Versions :
        version[i][v] # None /\ (template'[i] # None => template'[i].version # v)
        => version'[i][v] = version[i][v]

\* A commit writes one row as its request wants it, and either the snapshot of
\* the row's version or nothing that a snapshot holds.
Saves(id, new, demoted) ==
    /\ template' = [Demote(template, demoted) EXCEPT ![id] = new]
    /\ \/ version' = [version EXCEPT ![id][new.version] = SnapOf(new)]
       \/ /\ version' = version /\ template[id] # None
          /\ new.key = template[id].key /\ new.version = template[id].version
          /\ new.content = template[id].content

\* Losing the flag changes nothing else of a row.
LEMMA DemoteFields ==
    ASSUME NEW tab \in [Ids -> Row \cup {None}], NEW demoted, NEW i \in Ids, tab[i] # None
    PROVE  /\ Demote(tab, demoted)[i].key = tab[i].key
           /\ Demote(tab, demoted)[i].scene = tab[i].scene
           /\ Demote(tab, demoted)[i].content = tab[i].content
           /\ Demote(tab, demoted)[i].version = tab[i].version
           /\ Demote(tab, demoted)[i].isDefault => tab[i].isDefault /\ i \notin demoted
           /\ i \notin demoted => Demote(tab, demoted)[i] = tab[i]
  <1>1. \A row \in Row :
            LET plain == [row EXCEPT !.isDefault = FALSE]
            IN  /\ plain.key = row.key /\ plain.scene = row.scene /\ plain.content = row.content
                /\ plain.version = row.version /\ plain.isDefault = FALSE
    BY DEF Row
  <1>2. tab[i] \in Row
    OBVIOUS
  <1> QED
    BY <1>1, <1>2 DEF Demote

\* A flush into the row that was loaded makes it the row that is wanted.
LEMMA FlushLoaded ==
    ASSUME NEW old \in Row, NEW new \in Row
    PROVE  Flush(old, old, new) = new
  <1>1. \A a \in DOMAIN old : Flush(old, old, new)[a] = new[a]
    BY DEF Flush
  <1>2. DOMAIN Flush(old, old, new) = DOMAIN new
    BY DEF Flush, Row
  <1> QED
    BY <1>1, <1>2 DEF Flush, Row

\* The same for a snapshot.
LEMMA FlushLoadedSnap ==
    ASSUME NEW old \in Snap, NEW new \in Snap
    PROVE  Flush(old, old, new) = new
  <1>1. \A a \in DOMAIN old : Flush(old, old, new)[a] = new[a]
    BY DEF Flush
  <1>2. DOMAIN Flush(old, old, new) = DOMAIN new
    BY DEF Flush, Snap
  <1> QED
    BY <1>1, <1>2 DEF Flush, Snap

\* A request alone saves what it wants, and demotes the others it has to.
LEMMA CommitSaves ==
    ASSUME IInv, TxLoaded, NEW w \in Workers,
           CommitCreate(w) \/ CommitUpdate(w) \/ CommitSetDefault(w)
    PROVE  \E id \in Ids, new \in Row, demoted \in SUBSET Ids :
              /\ Saves(id, new, demoted)
              /\ TxDemotes /\ new.isDefault => OtherDefaults(new.scene, id) \subseteq demoted
  <1>1. PICK t : t = tx[w]
    OBVIOUS
  <1>2. template \in [Ids -> Row \cup {None}] /\ version \in [Ids -> [Versions -> Snap \cup {None}]]
    BY DEF IInv, TypeOK
  <1>3. Loaded(t) /\ Knows(t) /\ (TxDemotes => Demotes(t))
    BY <1>1 DEF TxLoaded, TxDemotes, IInv, TxKnows
  <1>4. CASE CommitCreate(w)
    <2>1. t \in Creates
      BY <1>1, <1>4 DEF CommitCreate
    <2>2. t.new \in Row /\ t.demoted \in SUBSET Ids
      BY <2>1 DEF Creates
    <2>3. PICK i \in Ids \ Live :
              /\ template' = [Demote(template, t.demoted) EXCEPT ![i] = t.new]
              /\ version' = [version EXCEPT ![i][t.new.version] = SnapOf(t.new)]
      BY <1>1, <1>4 DEF CommitCreate
    <2>4. Saves(i, t.new, t.demoted)
      BY <2>3 DEF Saves
    <2>5. TxDemotes /\ t.new.isDefault => OtherDefaults(t.new.scene, i) \subseteq t.demoted
      BY <1>3, <2>1, NoneAssumption DEF Demotes, OtherDefaults, Live
    <2> QED
      BY <2>2, <2>4, <2>5
  <1>5. CASE CommitUpdate(w)
    <2> DEFINE kept == Demote(template, t.demoted)
               cur == version[t.id][t.new.version]
    <2>1. t \in Updates
      BY <1>1, <1>5 DEF CommitUpdate
    <2>2. /\ t.id \in Ids /\ t.new \in Row /\ t.demoted \in SUBSET Ids
          /\ SnapOf(t.new) \in Snap /\ t.snap \in Snap \cup {None}
      BY <2>1, SnapOfRow DEF Updates
    <2>3. /\ template[t.id] # None /\ t.old = template[t.id] /\ t.id \notin t.demoted
          /\ t.snap = cur
      BY <1>3, <2>1 DEF Loaded, Knows
    <2>4. kept[t.id] = t.old /\ t.old \in Row
      BY <1>2, <2>2, <2>3, DemoteFields
    <2>5. Flush(kept[t.id], t.old, t.new) = t.new
      BY <2>2, <2>4, FlushLoaded
    <2>6. SnapAfter(t, cur) = SnapOf(t.new)
      BY <2>2, <2>3, FlushLoadedSnap DEF SnapAfter
    <2>7. /\ template' = [kept EXCEPT ![t.id] = Flush(kept[t.id], t.old, t.new)]
          /\ version' = [version EXCEPT ![t.id][t.new.version] = SnapAfter(t, cur)]
      BY <1>1, <1>5, <2>2 DEF CommitUpdate, Demote
    <2>8. Saves(t.id, t.new, t.demoted)
      BY <2>5, <2>6, <2>7 DEF Saves
    <2>9. TxDemotes /\ t.new.isDefault => OtherDefaults(t.new.scene, t.id) \subseteq t.demoted
      BY <1>3, <2>1 DEF Demotes
    <2> QED
      BY <2>2, <2>8, <2>9
  <1>6. CASE CommitSetDefault(w)
    <2> DEFINE kept == Demote(template, t.demoted)
    <2>1. t \in Promotions
      BY <1>1, <1>6 DEF CommitSetDefault
    <2>2. t.id \in Ids /\ t.new \in Row /\ t.demoted \in SUBSET Ids
      BY <2>1 DEF Promotions
    <2>3. /\ template[t.id] # None /\ t.old = template[t.id] /\ t.id \notin t.demoted
          /\ t.new = [t.old EXCEPT !.isDefault = TRUE, !.status = "active"]
      BY <1>3, <2>1 DEF Loaded, Knows
    <2>4. kept[t.id] = t.old /\ t.old \in Row
      BY <1>2, <2>2, <2>3, DemoteFields
    <2>5. Flush(kept[t.id], t.old, t.new) = t.new
      BY <2>2, <2>4, FlushLoaded
    <2>6. template' = [kept EXCEPT ![t.id] = Flush(kept[t.id], t.old, t.new)] /\ version' = version
      BY <1>1, <1>6, <2>2 DEF CommitSetDefault, Demote
    <2>7. /\ t.new.key = t.old.key /\ t.new.version = t.old.version
          /\ t.new.content = t.old.content
      BY <2>3, <2>4 DEF Row
    <2>8. Saves(t.id, t.new, t.demoted)
      BY <2>3, <2>5, <2>6, <2>7 DEF Saves
    <2>9. TxDemotes /\ t.new.isDefault => OtherDefaults(t.new.scene, t.id) \subseteq t.demoted
      BY <1>3, <2>1 DEF Demotes
    <2> QED
      BY <2>2, <2>8, <2>9
  <1> QED
    BY <1>4, <1>5, <1>6

\* The saved row has its snapshot, and those of all other versions stay.
LEMMA SaveHistory ==
    ASSUME IInv, SnapshotCurrent, NEW id \in Ids, NEW new \in Row, NEW demoted,
           Saves(id, new, demoted)
    PROVE  SnapshotCurrent' /\ Frozen
  <1> DEFINE kept == Demote(template, demoted)
  <1>1. template \in [Ids -> Row \cup {None}] /\ version \in [Ids -> [Versions -> Snap \cup {None}]]
    BY DEF IInv, TypeOK
  <1>2. /\ kept \in [Ids -> Row \cup {None}]
        /\ \A j \in Ids : kept[j] = None <=> template[j] = None
    BY <1>1, DemoteRows
  <1>3. \A j \in Ids : template[j] # None =>
            /\ kept[j].key = template[j].key /\ kept[j].content = template[j].content
            /\ kept[j].version = template[j].version
    BY <1>1, DemoteFields
  <1>4. /\ new.version \in Versions /\ new # None
        /\ SnapOf(new) # None /\ SnapOf(new).content = new.content
    BY SnapOfRow, NoneAssumption DEF SnapOf, Row
  <1> HIDE DEF kept
  <1>5. template' = [kept EXCEPT ![id] = new]
    BY DEF Saves, kept
  <1>6. \A j \in Ids : template'[j] = IF j = id THEN new ELSE kept[j]
    BY <1>2, <1>5
  <1>7. \A j \in Ids : template[j] # None /\ template[j].key \notin Builtin =>
            /\ version[j][template[j].version] # None
            /\ version[j][template[j].version].content = template[j].content
    BY DEF SnapshotCurrent, Live
  <1>8. CASE version' = [version EXCEPT ![id][new.version] = SnapOf(new)]
    <2>1. /\ version'[id][new.version] = SnapOf(new)
          /\ \A v \in Versions \ {new.version} : version'[id][v] = version[id][v]
          /\ \A j \in Ids \ {id} : version'[j] = version[j]
      BY <1>1, <1>4, <1>8
    <2>2. Frozen
      BY <1>4, <1>6, <2>1 DEF Frozen
    <2>3. ASSUME NEW j \in Ids, template'[j] # None, template'[j].key \notin Builtin
          PROVE  /\ version'[j][template'[j].version] # None
                 /\ version'[j][template'[j].version].content = template'[j].content
      <3>1. CASE j = id
        BY <1>4, <1>6, <2>1, <3>1
      <3>2. CASE j # id
        BY <1>2, <1>3, <1>6, <1>7, <2>1, <2>3, <3>2
      <3> QED
        BY <3>1, <3>2
    <2> QED
      BY <2>2, <2>3 DEF SnapshotCurrent, Live
  <1>9. CASE /\ version' = version /\ template[id] # None
             /\ new.key = template[id].key /\ new.version = template[id].version
             /\ new.content = template[id].content
    <2>1. Frozen
      BY <1>9 DEF Frozen
    <2>2. \A j \in Ids : template'[j] # None =>
              /\ template[j] # None /\ template'[j].key = template[j].key
              /\ template'[j].content = template[j].content
              /\ template'[j].version = template[j].version
      BY <1>2, <1>3, <1>6, <1>9
    <2> QED
      BY <1>7, <1>9, <2>1, <2>2 DEF SnapshotCurrent, Live
  <1> QED
    BY <1>8, <1>9 DEF Saves

\* The saved row is the only default of its scene.
LEMMA SaveFlags ==
    ASSUME IInv, OneDefaultPerScene, NEW id \in Ids, NEW new \in Row, NEW demoted,
           Saves(id, new, demoted),
           new.isDefault => OtherDefaults(new.scene, id) \subseteq demoted
    PROVE  OneDefaultPerScene'
  <1> DEFINE kept == Demote(template, demoted)
  <1>1. template \in [Ids -> Row \cup {None}]
    BY DEF IInv, TypeOK
  <1>2. /\ kept \in [Ids -> Row \cup {None}]
        /\ \A j \in Ids : kept[j] = None <=> template[j] = None
    BY <1>1, DemoteRows
  <1>3. \A j \in Ids : template[j] # None =>
            /\ kept[j].scene = template[j].scene
            /\ kept[j].isDefault => template[j].isDefault /\ j \notin demoted
    BY <1>1, DemoteFields
  <1> HIDE DEF kept
  <1>4. \A j \in Ids : template'[j] = IF j = id THEN new ELSE kept[j]
    BY <1>2 DEF Saves, kept
  <1>5. \A i, j \in Ids :
            template[i] # None /\ template[i].isDefault
            /\ template[j] # None /\ template[j].isDefault
            /\ template[i].scene = template[j].scene => i = j
    BY DEF OneDefaultPerScene, Live
  <1>6. ASSUME new.isDefault, NEW j \in Ids \ {id}, template[j] # None, template[j].isDefault,
               template[j].scene = new.scene
        PROVE  j \in demoted
    BY <1>6 DEF OtherDefaults, Live
  <1> SUFFICES ASSUME NEW i \in Ids, NEW j \in Ids, template'[i] # None, template'[j] # None,
                      template'[i].isDefault, template'[j].isDefault,
                      template'[i].scene = template'[j].scene
               PROVE  i = j
    BY DEF OneDefaultPerScene, Live
  <1>7. CASE i # id /\ j # id
    BY <1>2, <1>3, <1>4, <1>5, <1>7
  <1>8. CASE i = id /\ j # id
    BY <1>2, <1>3, <1>4, <1>6, <1>8
  <1>9. CASE i # id /\ j = id
    BY <1>2, <1>3, <1>4, <1>6, <1>9
  <1> QED
    BY <1>7, <1>8, <1>9

\* A start leaves the rows of other templates and all snapshots as they are.
LEMMA RestartHistory ==
    ASSUME IInv, SnapshotCurrent, Restart
    PROVE  SnapshotCurrent' /\ Frozen
  <1>1. PICK map \in SceneDefaultMaps, ids \in FreshIds :
            /\ template' = Normalize(Reset(ids), map)
            /\ version' = AddSnapshots(template')
    BY DEF Restart, RestartWith
  <1> DEFINE tab == Reset(ids)
  <1>2. /\ tab \in [Ids -> Row \cup {None}] /\ template \in [Ids -> Row \cup {None}]
        /\ version \in [Ids -> [Versions -> Snap \cup {None}]]
    BY ResetRows DEF IInv, TypeOK
  <1>3. ASSUME NEW i \in Ids, tab[i] # None, tab[i].key \notin Builtin
        PROVE  i \in Live /\ tab[i] = template[i]
    <2>1. CASE i \in Live /\ template[i].key \in Builtin
      <3> DEFINE row == Shipped[template[i].key]
                 flag == template[i].isDefault
      <3>1. row \in Row /\ row.key = template[i].key
        BY <2>1, ShippedAssumption DEF Builtin
      <3>2. tab[i] = [row EXCEPT !.isDefault = flag]
        BY <2>1 DEF Reset
      <3> HIDE DEF row, flag, tab
      <3>3. tab[i].key = row.key
        BY <3>1, <3>2 DEF Row
      <3> QED
        BY <1>3, <2>1, <3>1, <3>3
    <2>2. CASE i \in Live /\ template[i].key \notin Builtin
      BY <2>2 DEF Reset
    <2>3. CASE i \notin Live
      <3> DEFINE k == CHOOSE k \in DOMAIN ids : ids[k] = i
      <3>1. \E l \in DOMAIN ids : ids[l] = i
        BY <1>3, <2>3 DEF Reset
      <3>2. k \in Builtin
        BY <3>1 DEF FreshIds, MissingKeys
      <3>3. tab[i] = Shipped[k]
        BY <2>3, <3>1 DEF Reset
      <3>4. Shipped[k].key = k
        BY <3>2, ShippedAssumption DEF Builtin
      <3> QED
        BY <1>3, <3>2, <3>3, <3>4
    <2> QED
      BY <2>1, <2>2, <2>3
  <1> HIDE DEF tab
  <1>4. \A row \in Row, f \in BOOLEAN :
            /\ [row EXCEPT !.isDefault = f].content = row.content
            /\ [row EXCEPT !.isDefault = f].version = row.version
    BY DEF Row
  <1>5. template' = Normalize(tab, map)
    BY <1>1 DEF tab
  <1>6. \A i \in Ids : template'[i] # None => tab[i] # None /\ template'[i].key = tab[i].key
    BY <1>2, <1>5, NormalizeKeys
  <1>7. ASSUME NEW i \in Ids, template'[i] # None
        PROVE  template'[i].content = tab[i].content /\ template'[i].version = tab[i].version
    <2> DEFINE flag == tab[i].key = PreferredKey(map, tab[i].scene)
    <2>1. tab[i] \in Row /\ flag \in BOOLEAN
      BY <1>2, <1>6, <1>7
    <2>2. template'[i] = [tab[i] EXCEPT !.isDefault = flag]
      BY <1>5, <1>6, <1>7 DEF Normalize
    <2> HIDE DEF flag
    <2> QED
      BY <1>4, <2>1, <2>2
  <1>8. \A i \in Ids, v \in Versions : version[i][v] # None => version'[i][v] = version[i][v]
    BY <1>1 DEF AddSnapshots
  <1>9. Frozen
    BY <1>8 DEF Frozen
  <1>10. ASSUME NEW i \in Ids, template'[i] # None, template'[i].key \notin Builtin
         PROVE  /\ version'[i][template'[i].version] # None
                /\ version'[i][template'[i].version].content = template'[i].content
    <2>1. /\ i \in Live /\ template'[i].key = template[i].key
          /\ template'[i].version = template[i].version
          /\ template'[i].content = template[i].content
      BY <1>3, <1>6, <1>7, <1>10
    <2>2. /\ version[i][template[i].version] # None
          /\ version[i][template[i].version].content = template[i].content
      BY <1>10, <2>1 DEF SnapshotCurrent
    <2>3. template[i].version \in Versions
      BY <1>2, <2>1 DEF Live, Row
    <2> QED
      BY <1>8, <2>1, <2>2, <2>3
  <1> QED
    BY <1>9, <1>10 DEF SnapshotCurrent, Live

\* A session that is opened alone is the only one.
LEMMA OpenAlone ==
    ASSUME Alone, IInv, NEW w \in Workers, NEW t, Begin(w, t), Loaded(t)
    PROVE  TxLoaded' /\ (Demotes(t) => TxDemotes')
  <1>1. /\ template' = template /\ version' = version
        /\ \A u \in Workers : tx'[u] = t
    BY DEF Begin, IInv, TypeOK, Alone
  <1>2. TxLoaded'
    BY <1>1 DEF TxLoaded, Loaded
  <1>3. Demotes(t) => TxDemotes'
    BY <1>1 DEF TxDemotes, Demotes, OtherDefaults, Live
  <1> QED
    BY <1>2, <1>3

\* Sessions that are closed have nothing to hold to.
LEMMA ClosedSessions ==
    ASSUME \A u \in Workers : tx'[u] = Idle
    PROVE  TxLoaded' /\ TxDemotes'
  <1>1. Idle \notin Creates \cup Updates \cup Promotions
    BY DEF Idle, Creates, Updates, Promotions
  <1> QED
    BY <1>1 DEF TxLoaded, TxDemotes, Loaded, Demotes

\* What a request alone read is what is committed until it ends; if every
\* update says what becomes of the flag, it demotes all whom it has to.
LEMMA RequestReads ==
    ASSUME Alone, IInv, NEW w \in Workers, Request(w)
    PROVE  TxLoaded' /\ (~PartialUpdates => TxDemotes')
  <1>0. \A i \in Live : i \in Ids /\ template[i] \in Row
    BY DEF IInv, TypeOK, Live
  <1>1. CASE BeginCreate(w)
    <2>1. PICK row \in Row :
              Begin(w, [op |-> "create", new |-> row,
                        demoted |-> IF row.isDefault THEN OtherDefaults(row.scene, None) ELSE {}])
      BY <1>1 DEF BeginCreate
    <2> DEFINE t == [op |-> "create", new |-> row,
                     demoted |-> IF row.isDefault THEN OtherDefaults(row.scene, None) ELSE {}]
    <2>2. t \notin Updates \cup Promotions
      BY DEF Updates, Promotions
    <2>3. Loaded(t) /\ Demotes(t)
      BY <2>2 DEF Loaded, Demotes
    <2> QED
      BY <2>1, <2>3, OpenAlone
  <1>2. CASE BeginUpdate(w)
    <2>1. PICK i \in Live, fields \in Row, given \in BOOLEAN :
              LET old == template[i]
                  new == IF given THEN fields ELSE [fields EXCEPT !.isDefault = old.isDefault]
              IN  /\ given \/ PartialUpdates
                  /\ Begin(w, [op |-> "update", id |-> i, old |-> old, new |-> new,
                               demoted |-> IF given /\ new.isDefault
                                           THEN OtherDefaults(new.scene, i) ELSE {},
                               snap |-> version[i][new.version]])
      BY <1>2 DEF BeginUpdate
    <2> DEFINE old == template[i]
               new == IF given THEN fields ELSE [fields EXCEPT !.isDefault = old.isDefault]
               t == [op |-> "update", id |-> i, old |-> old, new |-> new,
                     demoted |-> IF given /\ new.isDefault
                                 THEN OtherDefaults(new.scene, i) ELSE {},
                     snap |-> version[i][new.version]]
    <2>2. t \notin Creates /\ t \notin Promotions
      BY DEF Creates, Promotions
    <2>3. i \notin t.demoted
      BY DEF OtherDefaults
    <2>4. t.old = template[t.id] /\ t.snap = version[t.id][t.new.version] /\ t.id = i
      OBVIOUS
    <2>5. Loaded(t)
      BY <2>2, <2>3, <2>4 DEF Loaded
    <2>6. ~PartialUpdates => Demotes(t)
      BY <2>1, <2>2 DEF Demotes
    <2> HIDE DEF t
    <2>7. Begin(w, t)
      BY <2>1 DEF t
    <2> QED
      BY <2>5, <2>6, <2>7, OpenAlone
  <1>3. CASE BeginSetDefault(w)
    <2>1. PICK i \in Live :
              Begin(w, [op |-> "setDefault", id |-> i, old |-> template[i],
                        new |-> [template[i] EXCEPT !.isDefault = TRUE, !.status = "active"],
                        demoted |-> OtherDefaults(template[i].scene, i)])
      BY <1>3 DEF BeginSetDefault
    <2> DEFINE new == [template[i] EXCEPT !.isDefault = TRUE, !.status = "active"]
               t == [op |-> "setDefault", id |-> i, old |-> template[i], new |-> new,
                     demoted |-> OtherDefaults(template[i].scene, i)]
    <2>2. new.scene = template[i].scene
      BY <1>0 DEF Row
    <2>3. t \notin Creates /\ t \notin Updates
      BY DEF Creates, Updates
    <2>4. i \notin t.demoted
      BY DEF OtherDefaults
    <2>5. Loaded(t)
      BY <2>3, <2>4 DEF Loaded
    <2> HIDE DEF new
    <2>6. Demotes(t)
      BY <2>2, <2>3 DEF Demotes
    <2> QED
      BY <2>1, <2>5, <2>6, OpenAlone DEF new
  <1>4. CASE BeginDelete(w)
    <2>1. PICK i \in Live :
              Begin(w, [op |-> "delete", id |-> i,
                        orphans |-> {v \in Versions : version[i][v] # None}])
      BY <1>4 DEF BeginDelete
    <2> DEFINE t == [op |-> "delete", id |-> i,
                     orphans |-> {v \in Versions : version[i][v] # None}]
    <2>2. t \notin Creates /\ t \notin Updates /\ t \notin Promotions
      BY DEF Creates, Updates, Promotions
    <2>3. Loaded(t) /\ Demotes(t)
      BY <2>2 DEF Loaded, Demotes
    <2> QED
      BY <2>1, <2>3, OpenAlone
  <1>5. CASE \/ CommitCreate(w) \/ CommitUpdate(w) \/ CommitSetDefault(w)
             \/ EndDelete(w) \/ Rollback(w)
    <2>1. tx' = [tx EXCEPT ![w] = Idle]
      BY <1>5 DEF CommitCreate, CommitUpdate, CommitSetDefault, EndDelete, Rollback, Close
    <2>2. \A u \in Workers : tx'[u] = Idle
      BY <2>1 DEF IInv, TypeOK, Alone
    <2> QED
      BY <2>2, ClosedSessions
  <1> QED
    BY <1>1, <1>2, <1>3, <1>4, <1>5 DEF Request

\* A request that saves nothing leaves the tables alone.
LEMMA QuietRequests ==
    ASSUME IInv, NEW w \in Workers, Request(w),
           ~(CommitCreate(w) \/ CommitUpdate(w) \/ CommitSetDefault(w))
    PROVE  UNCHANGED <<template, version>>
  <1>1. CASE EndDelete(w)
    BY <1>1 DEF EndDelete, IInv, TxKnows, Knows
  <1>2. BeginCreate(w) \/ BeginUpdate(w) \/ BeginSetDefault(w) \/ BeginDelete(w) \/ Rollback(w)
            => UNCHANGED <<template, version>>
    BY DEF BeginCreate, BeginUpdate, BeginSetDefault, BeginDelete, Begin, Rollback
  <1> QED
    BY <1>1, <1>2 DEF Request

\* No step of a server that takes one request at a time parts a template from
\* its snapshot or rewrites its past.
LEMMA NextHistory ==
    ASSUME Alone, HistoryInv, [Next]_vars
    PROVE  HistoryInv' /\ Frozen
  <1>0. IInv /\ TxLoaded /\ SnapshotCurrent /\ IInv'
    BY NextKeeps DEF HistoryInv
  <1>1. CASE Restart
    <2>1. \A u \in Workers : tx'[u] = Idle
      BY <1>1 DEF Restart, RestartWith
    <2> QED
      BY <1>0, <1>1, <2>1, RestartHistory, ClosedSessions DEF HistoryInv
  <1>2. ASSUME NEW w \in Workers, Request(w) PROVE HistoryInv' /\ Frozen
    <2>1. TxLoaded'
      BY <1>0, <1>2, RequestReads
    <2>2. CASE CommitCreate(w) \/ CommitUpdate(w) \/ CommitSetDefault(w)
      <3>1. PICK id \in Ids, new \in Row, demoted \in SUBSET Ids : Saves(id, new, demoted)
        BY <1>0, <2>2, CommitSaves
      <3> QED
        BY <1>0, <2>1, <3>1, SaveHistory DEF HistoryInv
    <2>3. CASE ~(CommitCreate(w) \/ CommitUpdate(w) \/ CommitSetDefault(w))
      <3>1. UNCHANGED <<template, version>>
        BY <1>0, <1>2, <2>3, QuietRequests
      <3> QED
        BY <1>0, <2>1, <3>1 DEF HistoryInv, SnapshotCurrent, Live, Frozen
    <2> QED
      BY <2>2, <2>3
  <1>3. CASE UNCHANGED vars
    BY <1>0, <1>3 DEF vars, HistoryInv, TxLoaded, Loaded, SnapshotCurrent, Live, Frozen
  <1> QED
    BY <1>1, <1>2, <1>3 DEF Next

\* Nor does it give a scene a second default, if every update says what becomes
\* of the flag.
LEMMA NextFlags ==
    ASSUME Alone, ~PartialUpdates, FlagsInv, [Next]_vars
    PROVE  FlagsInv'
  <1>0. /\ IInv /\ KeysInv /\ TxLoaded /\ TxDemotes /\ OneDefaultPerScene
        /\ KeysInv'
    BY NextSettles DEF FlagsInv, KeysInv
  <1>1. CASE Restart
    <2>1. \A u \in Workers : tx'[u] = Idle
      BY <1>1 DEF Restart, RestartWith
    <2>2. OneDefaultPerScene'
      BY <1>0, <1>1, RestartSettles DEF Restart, KeysInv, IInv
    <2> QED
      BY <1>0, <2>1, <2>2, ClosedSessions DEF FlagsInv
  <1>2. ASSUME NEW w \in Workers, Request(w) PROVE FlagsInv'
    <2>1. TxLoaded' /\ TxDemotes'
      BY <1>0, <1>2, RequestReads
    <2>2. CASE CommitCreate(w) \/ CommitUpdate(w) \/ CommitSetDefault(w)
      <3>1. PICK id \in Ids, new \in Row, demoted \in SUBSET Ids :
                /\ Saves(id, new, demoted)
                /\ new.isDefault => OtherDefaults(new.scene, id) \subseteq demoted
        BY <1>0, <2>2, CommitSaves
      <3>2. OneDefaultPerScene'
        BY <1>0, <3>1, SaveFlags
      <3> QED
        BY <1>0, <2>1, <3>2 DEF FlagsInv
    <2>3. CASE ~(CommitCreate(w) \/ CommitUpdate(w) \/ CommitSetDefault(w))
      <3>1. UNCHANGED template
        BY <1>0, <1>2, <2>3, QuietRequests
      <3>2. OneDefaultPerScene'
        BY <1>0, <3>1 DEF OneDefaultPerScene, Live
      <3> QED
        BY <1>0, <2>1, <3>2 DEF FlagsInv
    <2> QED
      BY <2>2, <2>3
  <1>3. CASE UNCHANGED vars
    <2>1. TxLoaded' /\ TxDemotes' /\ OneDefaultPerScene'
      BY <1>0, <1>3 DEF vars, TxLoaded, Loaded, TxDemotes, Demotes, OtherDefaults,
             OneDefaultPerScene, Live
    <2> QED
      BY <1>0, <2>1 DEF FlagsInv
  <1> QED
    BY <1>1, <1>2, <1>3 DEF Next

\* A server that takes one request at a time keeps every template that is not
\* built in equal to the snapshot of its version, for requests that leave out
\* is_default and for restarts as well (create, update, set-default, bootstrap).
THEOREM SnapshotsAreCurrent == Alone => (Spec => []SnapshotCurrent)
  <1> SUFFICES ASSUME Alone PROVE Spec => []SnapshotCurrent
    OBVIOUS
  <1>1. Init => HistoryInv
    BY InitInv DEF Init, HistoryInv, SnapshotCurrent, Live, TxLoaded, Loaded,
       Idle, Updates, Promotions
  <1>2. HistoryInv /\ [Next]_vars => HistoryInv'
    BY NextHistory
  <1>3. HistoryInv => SnapshotCurrent
    BY DEF HistoryInv
  <1> QED
    BY <1>1, <1>2, <1>3, PTL DEF Spec

\* Nor does it ever rewrite a snapshot of a version that a template had before.
THEOREM PastVersionsStay == Alone => (Spec => PastVersionsFrozen)
  <1> SUFFICES ASSUME Alone PROVE Spec => PastVersionsFrozen
    OBVIOUS
  <1>1. Init => HistoryInv
    BY InitInv DEF Init, HistoryInv, SnapshotCurrent, Live, TxLoaded, Loaded,
       Idle, Updates, Promotions
  <1>2. HistoryInv /\ [Next]_vars => HistoryInv' /\ [Frozen]_vars
    BY NextHistory
  <1> QED
    BY <1>1, <1>2, PTL DEF Spec, PastVersionsFrozen, Frozen

\* And if its clients always say what becomes of is_default, as the admin page
\* does, no scene ever has two defaults, not even between two starts ("Keep one
\* default template per scene.").
THEOREM OneDefaultIsKept == Alone /\ ~PartialUpdates => (Spec => []OneDefaultPerScene)
  <1> SUFFICES ASSUME Alone, ~PartialUpdates PROVE Spec => []OneDefaultPerScene
    OBVIOUS
  <1>1. Init => FlagsInv
    <2>1. Init => UniqueKeys(template) /\ PromotionsKeepKeys
      BY DEF Init, UniqueKeys, PromotionsKeepKeys, Idle, Promotions
    <2>2. Init => TxLoaded /\ TxDemotes /\ OneDefaultPerScene
      BY DEF Init, OneDefaultPerScene, Live, TxLoaded, Loaded, TxDemotes, Demotes,
         Idle, Creates, Updates, Promotions
    <2> QED
      BY <2>1, <2>2, InitInv DEF KeysInv, FlagsInv
  <1>2. FlagsInv /\ [Next]_vars => FlagsInv'
    BY NextFlags
  <1>3. FlagsInv => OneDefaultPerScene
    BY DEF FlagsInv
  <1> QED
    BY <1>1, <1>2, <1>3, PTL DEF Spec

\* And so resolve_prompt_template never finds two templates for a scene: it is
\* requests at the same time, or updates that keep a flag in silence, that make
\* it raise MultipleResultsFound.
THEOREM AnswersAreUnambiguous == Alone /\ ~PartialUpdates => (Spec => []SceneUnambiguous)
  <1> SUFFICES ASSUME Alone, ~PartialUpdates PROVE Spec => []SceneUnambiguous
    OBVIOUS
  <1>1. Spec => []OneDefaultPerScene
    BY OneDefaultIsKept
  <1>2. OneDefaultPerScene => SceneUnambiguous
    <2> SUFFICES ASSUME OneDefaultPerScene, NEW s \in Scenes
                 PROVE  Cardinality(ActiveDefaults(s)) <= 1
      BY DEF SceneUnambiguous
    <2>1. \A i, j \in ActiveDefaults(s) : i = j
      BY DEF OneDefaultPerScene, ActiveDefaults
    <2>2. ActiveDefaults(s) = {} \/ \E i : ActiveDefaults(s) = {i}
      BY <2>1
    <2>3. IsFiniteSet(ActiveDefaults(s))
      BY <2>2, FS_EmptySet, FS_Singleton
    <2> QED
      BY <2>1, <2>3, AtMostOne
  <1> QED
    BY <1>1, <1>2, PTL
=============================================================================
