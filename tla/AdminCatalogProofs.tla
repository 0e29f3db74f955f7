--------------------------- MODULE AdminCatalogProofs ---------------------------
(* What holds of the tables of the data sources, of the audit log and of the   *)
(* bindings of the tools for any number of assets, names, tools, templates,    *)
(* admins and starts.                                                          *)
EXTENDS AdminCatalog, PromptCatalogProofs, SequenceTheorems

\* The data sources and tables are those of assets, though of assets that may be
\* gone: seed_data.py takes them away and nobody takes their tables away.
TablesOfAssets ==
    /\ assets \subseteq known
    /\ sources \subseteq {SourceOf(a) : a \in known}
    /\ tables \subseteq {TableOf(a) : a \in known}

\* Tables are written by the start alone.
LEMMA TablesInitInv == CatalogInit => TablesOfAssets
  BY DEF CatalogInit, TablesOfAssets

\* A start adds a table for each asset that lacks one.
LEMMA StartTables ==
    ASSUME StartServer
    PROVE  /\ sources' = sources \cup {SourceOf(a) : a \in assets}
           /\ tables' = tables \cup {TableOf(a) : a \in assets}
           /\ assets' = assets /\ known' = known
  <1>1. /\ sources' = AllSources
        /\ tables' = tables \cup {TableOf(a) : a \in Unlisted}
        /\ assets' = assets /\ known' = known
    BY DEF StartServer
  <1>2. \A a \in assets : SourceOf(a) \in AllSources
    BY DEF AllSources, SourceOf
  <1>3. \A a \in assets : a \in Unlisted \/ TableOf(a) \in tables
    BY <1>2 DEF Unlisted
  <1>4. Unlisted \subseteq assets
    BY DEF Unlisted
  <1>5. tables' = tables \cup {TableOf(a) : a \in assets}
    BY <1>1, <1>3, <1>4
  <1>6. sources' = sources \cup {SourceOf(a) : a \in assets}
    BY <1>1 DEF AllSources, SourceOf
  <1> QED
    BY <1>1, <1>5, <1>6

\* Which steps are starts.
LEMMA StartsChange ==
    ASSUME [CatalogNext]_catalogVars, starts' # starts
    PROVE  StartServer \/ StartFails
  <1>1. CASE AdminRequest
    BY <1>1 DEF AdminRequest, TemplateRequest, BindingRequest, CreateBinding, UpdateBinding,
                DeleteBinding, Save, vars
  <1>2. CASE SourceChange
    BY <1>2 DEF SourceChange, AddAssets, RemoveAssets, UpdateTool, vars
  <1>3. CASE UNCHANGED catalogVars
    BY <1>3 DEF catalogVars, vars
  <1> QED
    BY <1>1, <1>2, <1>3 DEF CatalogNext

\* No step adds a table or a data source without an asset.
LEMMA TablesKept == TablesOfAssets /\ [CatalogNext]_catalogVars => TablesOfAssets'
  <1> SUFFICES ASSUME TablesOfAssets, [CatalogNext]_catalogVars PROVE TablesOfAssets'
    OBVIOUS
  <1>1. \A a : TableOf(a)' = TableOf(a) /\ SourceOf(a)' = SourceOf(a)
    BY DEF TableOf, SourceOf
  <1>2. CASE StartServer
    BY <1>1, <1>2, StartTables DEF TablesOfAssets
  <1>3. CASE sources' = sources /\ tables' = tables /\ known \subseteq known' /\ assets' \subseteq known'
    BY <1>1, <1>3 DEF TablesOfAssets
  <1>4. CASE StartFails
    BY <1>3, <1>4 DEF StartFails, sourceVars, TablesOfAssets
  <1>5. CASE AdminRequest
    BY <1>3, <1>5 DEF AdminRequest, sourceVars, TablesOfAssets
  <1>6. CASE SourceChange
    BY <1>3, <1>6 DEF SourceChange, AddAssets, RemoveAssets, UpdateTool, TablesOfAssets
  <1>7. CASE UNCHANGED catalogVars
    BY <1>3, <1>7 DEF catalogVars, sourceVars, TablesOfAssets
  <1> QED
    BY <1>2, <1>4, <1>5, <1>6, <1>7 DEF CatalogNext

\* In every state the tables are those of assets.
LEMMA TablesInvariant == CatalogSpec => []TablesOfAssets
  BY TablesInitInv, TablesKept, PTL DEF CatalogSpec

\* After a start the data sources list the tables of all assets and no table that
\* never was that of an asset (bootstrap_admin_catalog).
THEOREM TablesAreThoseOfAssets == CatalogSpec => TablesMatchAssets
  <1> DEFINE Match ==
        /\ \A a \in assets : \E table \in tables' :
              table[1] = Fold[SystemOf[a]] /\ table[2] = DomainOf[a] /\ table[3] = NameOf[a]
        /\ \A table \in tables' : \E a \in known :
              table[1] = Fold[SystemOf[a]] /\ table[2] = DomainOf[a] /\ table[3] = NameOf[a]
  <1>1. TablesOfAssets /\ [CatalogNext]_catalogVars => [starts' # starts /\ up' => Match]_catalogVars
    <2> SUFFICES ASSUME TablesOfAssets, [CatalogNext]_catalogVars, starts' # starts, up'
                 PROVE  Match
      OBVIOUS
    <2>1. StartServer
      BY StartsChange DEF StartFails
    <2>2. /\ tables' = tables \cup {TableOf(a) : a \in assets}
          /\ assets \subseteq known /\ tables \subseteq {TableOf(a) : a \in known}
      BY <2>1, StartTables DEF TablesOfAssets
    <2>3. ASSUME NEW a PROVE /\ TableOf(a)[1] = Fold[SystemOf[a]] /\ TableOf(a)[2] = DomainOf[a]
                             /\ TableOf(a)[3] = NameOf[a]
      BY DEF TableOf, SourceOf
    <2> QED
      BY <2>2, <2>3
  <1> QED
    BY <1>1, TablesInvariant, PTL DEF CatalogSpec, TablesMatchAssets

-----------------------------------------------------------------------------
\* The requests between the two commits of create_channel.
Pending == {c \in Clients : req[c].op = "audit"}

\* Requests work on ids that were given out; removals are counted per memory.
IdsKnown ==
    /\ IsFiniteSet(used) /\ IsFiniteSet(channels)
    /\ \A c \in Clients : req[c].op \in {"update", "delete"} => req[c].id \in used

Removals ==
    /\ \A m \in Memories : removals[m] <= audit["memory.deleted"]
    /\ \A m \in Memories \ used : memory[m] = Absent /\ removals[m] = 0

RecordsInv == RecordsTypeOK /\ IdsKnown /\ Removals /\ MemoriesAudited /\ ChannelsAudited

\* An empty database.
LEMMA RecordsInitInv == RecordsInit => RecordsInv
  <1> SUFFICES ASSUME RecordsInit PROVE RecordsInv
    OBVIOUS
  <1> USE DEF RecordsInit
  <1>1. RecordsTypeOK
    BY RecordsAssumption DEF RecordsTypeOK
  <1>2. IdsKnown
    BY FS_EmptySet DEF IdsKnown, Quiet
  <1>3. Removals
    BY DEF Removals, Actions
  <1>4. MemoriesAudited
    BY FS_EmptySet DEF MemoriesAudited, Actions
  <1>5. ChannelsAudited
    <2>1. Pending = {}
      BY DEF Pending, Quiet
    <2>2. Cardinality(Pending) = 0 /\ Cardinality(channels) = 0
      BY <2>1, FS_EmptySet
    <2>3. audit["channel.created"] = 0 /\ cut = 0
      BY DEF Actions
    <2> QED
      BY <2>2, <2>3 DEF ChannelsAudited, Pending
  <1> QED
    BY <1>1, <1>2, <1>3, <1>4, <1>5 DEF RecordsInv

\* The pending requests can be counted.
LEMMA PendingFinite == IsFiniteSet(Pending) /\ Cardinality(Pending) \in Nat
  <1>1. Pending \subseteq Clients
    BY DEF Pending
  <1>2. IsFiniteSet(Pending)
    BY <1>1, RecordsAssumption, FS_Subset
  <1> QED
    BY <1>2, FS_CardinalityType

\* Steps that leave channels, their audit records and the pending requests alone.
LEMMA ChannelsKeep ==
    ASSUME ChannelsAudited, UNCHANGED <<channels, cut>>, Pending' = Pending,
           audit'["channel.created"] = audit["channel.created"]
    PROVE  ChannelsAudited'
  BY DEF ChannelsAudited, Pending

\* create_memory: an id that was never used.
LEMMA CreateMemoryKeeps ==
    ASSUME RecordsInv, NEW c \in Clients, CreateMemory(c)
    PROVE  RecordsInv'
  <1>1. PICK m \in Memories \ used, text \in Texts :
            /\ memory' = [memory EXCEPT ![m] = text]
            /\ used' = used \cup {m}
            /\ audit["memory.created"] < MaxAudits
            /\ audit' = [audit EXCEPT !["memory.created"] = @ + 1]
            /\ UNCHANGED <<channels, removals, req, cut>>
    BY DEF CreateMemory, Audit
  <1>2. /\ audit \in [Actions -> 0..MaxAudits] /\ MaxAudits \in Nat /\ Absent \notin Texts
        /\ memory \in [Memories -> Texts \cup {Absent}] /\ used \subseteq Memories
        /\ removals \in [Memories -> 0..MaxAudits]
    BY RecordsAssumption DEF RecordsInv, RecordsTypeOK
  <1>3. /\ audit'["memory.created"] = audit["memory.created"] + 1
        /\ audit'["memory.deleted"] = audit["memory.deleted"]
        /\ audit'["channel.created"] = audit["channel.created"]
        /\ audit' \in [Actions -> 0..MaxAudits]
    BY <1>1, <1>2 DEF Actions
  <1>4. IsFiniteSet(used') /\ Cardinality(used') = Cardinality(used) + 1
    BY <1>1, FS_AddElement DEF RecordsInv, IdsKnown
  <1>5. RecordsTypeOK'
    BY <1>1, <1>2, <1>3 DEF RecordsInv, RecordsTypeOK
  <1>6. (IdsKnown /\ Removals)'
    BY <1>1, <1>3, <1>4 DEF RecordsInv, IdsKnown, Removals
  <1>7. MemoriesAudited'
    <2>1. memory'[m] # Absent /\ removals'[m] = 0
      BY <1>1, <1>2 DEF RecordsInv, Removals
    <2>2. \A n \in used : n # m /\ memory'[n] = memory[n] /\ removals'[n] = removals[n]
      BY <1>1, <1>2
    <2> QED
      BY <1>1, <1>3, <1>4, <2>1, <2>2 DEF RecordsInv, MemoriesAudited
  <1>8. ChannelsAudited'
    BY <1>1, <1>3, ChannelsKeep DEF RecordsInv, Pending
  <1> QED
    BY <1>5, <1>6, <1>7, <1>8 DEF RecordsInv

\* Reading a row changes nothing but the request.
LEMMA ReadMemoryKeeps ==
    ASSUME RecordsInv, NEW c \in Clients, ReadMemory(c)
    PROVE  RecordsInv'
  <1>1. PICK m \in Memories, text \in Texts :
            /\ req[c] = Quiet /\ memory[m] # Absent
            /\ \/ req' = [req EXCEPT ![c] = [op |-> "update", id |-> m, old |-> memory[m], new |-> text]]
               \/ req' = [req EXCEPT ![c] = [op |-> "delete", id |-> m]]
            /\ UNCHANGED <<memory, used, channels, audit, removals, cut>>
    BY DEF ReadMemory
  <1>2. m \in used /\ memory[m] \in Texts
    BY <1>1 DEF RecordsInv, RecordsTypeOK, Removals
  <1>3. PICK r \in Requests : /\ req' = [req EXCEPT ![c] = r]
                              /\ r.op \in {"update", "delete"} /\ r.id = m
    <2>1. /\ [op |-> "update", id |-> m, old |-> memory[m], new |-> text] \in Requests
          /\ [op |-> "delete", id |-> m] \in Requests
      BY <1>2 DEF Requests
    <2>2. CASE req' = [req EXCEPT ![c] = [op |-> "delete", id |-> m]]
      BY <2>1, <2>2
    <2>3. CASE req' = [req EXCEPT ![c] = [op |-> "update", id |-> m, old |-> memory[m], new |-> text]]
      BY <2>1, <2>3
    <2> QED
      BY <1>1, <2>2, <2>3
  <1>4. req \in [Clients -> {Quiet} \cup Requests]
    BY DEF RecordsInv, RecordsTypeOK
  <1>5. RecordsTypeOK'
    BY <1>1, <1>3, <1>4 DEF RecordsInv, RecordsTypeOK
  <1>6. IdsKnown'
    BY <1>1, <1>2, <1>3, <1>4 DEF RecordsInv, IdsKnown
  <1>7. (Removals /\ MemoriesAudited)'
    BY <1>1 DEF RecordsInv, Removals, MemoriesAudited
  <1>8. Pending' = Pending
    BY <1>1, <1>3, <1>4 DEF Pending, Quiet
  <1>9. ChannelsAudited'
    BY <1>1, <1>8, ChannelsKeep DEF RecordsInv
  <1> QED
    BY <1>5, <1>6, <1>7, <1>9 DEF RecordsInv

\* The fields of a request that has read its memory.
LEMMA MemoryRequest ==
    ASSUME RecordsInv, NEW c \in Clients, req[c].op \in {"update", "delete"}
    PROVE  /\ req[c].id \in used /\ used \subseteq Memories
           /\ req[c].op = "update" => req[c].old \in Texts /\ req[c].new \in Texts
           /\ req' = [req EXCEPT ![c] = Quiet] =>
                 Pending' = Pending /\ req' \in [Clients -> {Quiet} \cup Requests]
  <1>1. req \in [Clients -> {Quiet} \cup Requests]
    BY DEF RecordsInv, RecordsTypeOK
  <1>2. req[c] \in Requests
    BY <1>1 DEF Quiet
  <1>3. req[c].op = "update" => req[c].old \in Texts /\ req[c].new \in Texts
    BY <1>2 DEF Requests
  <1>4. req[c].id \in used /\ used \subseteq Memories
    BY DEF RecordsInv, IdsKnown, RecordsTypeOK
  <1>5. req' = [req EXCEPT ![c] = Quiet] =>
            Pending' = Pending /\ req' \in [Clients -> {Quiet} \cup Requests]
    BY <1>1 DEF Pending, Quiet
  <1> QED
    BY <1>3, <1>4, <1>5

\* The end of a request on a memory.
LEMMA IdsKeep ==
    ASSUME IdsKnown, RecordsTypeOK, UNCHANGED <<used, channels>>, NEW c \in Clients,
           req' = [req EXCEPT ![c] = Quiet]
    PROVE  IdsKnown'
  BY DEF IdsKnown, RecordsTypeOK, Quiet

\* update_memory: a row that is gone stays gone.
LEMMA UpdateMemoryKeeps ==
    ASSUME RecordsInv, NEW c \in Clients, UpdateMemory(c)
    PROVE  RecordsInv'
  <1> DEFINE r == req[c]
  <1>1. /\ r.op = "update" /\ req' = [req EXCEPT ![c] = Quiet]
        /\ UNCHANGED <<used, channels, removals, cut>>
        /\ \/ UNCHANGED <<memory, audit>>
           \/ /\ ~Stale(r)
              /\ memory' = IF r.new = r.old THEN memory ELSE [memory EXCEPT ![r.id] = r.new]
              /\ audit["memory.updated"] < MaxAudits
              /\ audit' = [audit EXCEPT !["memory.updated"] = @ + 1]
    BY DEF UpdateMemory, Finish, Audit
  <1>2. /\ r.id \in used /\ used \subseteq Memories /\ r.new \in Texts
        /\ Pending' = Pending /\ req' \in [Clients -> {Quiet} \cup Requests]
    BY <1>1, MemoryRequest
  <1>3. /\ audit \in [Actions -> 0..MaxAudits] /\ MaxAudits \in Nat /\ Absent \notin Texts
        /\ memory \in [Memories -> Texts \cup {Absent}]
    BY RecordsAssumption DEF RecordsInv, RecordsTypeOK
  <1>4. /\ audit' \in [Actions -> 0..MaxAudits]
        /\ audit'["memory.created"] = audit["memory.created"]
        /\ audit'["memory.deleted"] = audit["memory.deleted"]
        /\ audit'["channel.created"] = audit["channel.created"]
    BY <1>1, <1>3 DEF Actions
  <1>5. /\ memory' \in [Memories -> Texts \cup {Absent}]
        /\ \A m \in Memories : memory'[m] = Absent <=> memory[m] = Absent
        /\ \A m \in Memories \ used : memory'[m] = memory[m]
    <2>1. CASE memory' = memory
      BY <1>3, <2>1
    <2>2. CASE ~Stale(r) /\ r.new # r.old /\ memory' = [memory EXCEPT ![r.id] = r.new]
      <3>1. memory[r.id] # Absent
        BY <2>2 DEF Stale
      <3> QED
        BY <1>2, <1>3, <2>2, <3>1
    <2> QED
      BY <1>1, <2>1, <2>2
  <1>6. RecordsTypeOK'
    BY <1>1, <1>2, <1>4, <1>5 DEF RecordsInv, RecordsTypeOK
  <1>7. IdsKnown'
    BY <1>1, IdsKeep DEF RecordsInv
  <1>8. (Removals /\ MemoriesAudited)'
    BY <1>1, <1>2, <1>4, <1>5 DEF RecordsInv, Removals, MemoriesAudited
  <1>9. ChannelsAudited'
    BY <1>1, <1>2, <1>4, ChannelsKeep DEF RecordsInv
  <1> QED
    BY <1>6, <1>7, <1>8, <1>9 DEF RecordsInv

\* delete_memory: also a second removal is recorded.
LEMMA DeleteMemoryKeeps ==
    ASSUME RecordsInv, NEW c \in Clients, DeleteMemory(c)
    PROVE  RecordsInv'
  <1> DEFINE m == req[c].id
  <1>1. /\ req[c].op = "delete" /\ req' = [req EXCEPT ![c] = Quiet]
        /\ memory' = [memory EXCEPT ![m] = Absent]
        /\ removals' = [removals EXCEPT ![m] = @ + 1]
        /\ audit["memory.deleted"] < MaxAudits
        /\ audit' = [audit EXCEPT !["memory.deleted"] = @ + 1]
        /\ UNCHANGED <<used, channels, cut>>
    BY DEF DeleteMemory, Finish, Audit
  <1>2. /\ m \in used /\ used \subseteq Memories
        /\ Pending' = Pending /\ req' \in [Clients -> {Quiet} \cup Requests]
    BY <1>1, MemoryRequest
  <1>3. /\ audit \in [Actions -> 0..MaxAudits] /\ MaxAudits \in Nat
        /\ memory \in [Memories -> Texts \cup {Absent}]
        /\ removals \in [Memories -> 0..MaxAudits]
    BY RecordsAssumption DEF RecordsInv, RecordsTypeOK
  <1>4. /\ audit' \in [Actions -> 0..MaxAudits]
        /\ audit'["memory.created"] = audit["memory.created"]
        /\ audit'["memory.deleted"] = audit["memory.deleted"] + 1
        /\ audit'["channel.created"] = audit["channel.created"]
    BY <1>1, <1>3 DEF Actions
  <1> HIDE DEF m
  <1>5. /\ removals'[m] = removals[m] + 1 /\ memory'[m] = Absent
        /\ \A n \in Memories \ {m} : removals'[n] = removals[n] /\ memory'[n] = memory[n]
        /\ memory' \in [Memories -> Texts \cup {Absent}]
    BY <1>1, <1>2, <1>3
  <1>6. Removals'
    <2>1. audit["memory.deleted"] \in 0..MaxAudits
      BY <1>3 DEF Actions
    <2>2. ASSUME NEW n \in Memories PROVE removals'[n] <= audit'["memory.deleted"]
      BY <1>2, <1>3, <1>4, <1>5, <2>1 DEF RecordsInv, Removals
    <2> QED
      BY <1>1, <1>2, <1>5, <2>2 DEF RecordsInv, Removals
  <1>7. removals' \in [Memories -> 0..MaxAudits]
    <2>1. removals[m] + 1 \in 0..MaxAudits
      BY <1>1, <1>2, <1>3 DEF RecordsInv, Removals, Actions
    <2> QED
      BY <1>1, <1>2, <1>3, <2>1
  <1>8. RecordsTypeOK'
    BY <1>1, <1>2, <1>4, <1>5, <1>7 DEF RecordsInv, RecordsTypeOK
  <1>9. IdsKnown'
    BY <1>1, IdsKeep DEF RecordsInv
  <1>10. MemoriesAudited'
    <2>1. removals'[m] > 0
      BY <1>2, <1>3, <1>5
    <2>2. ASSUME NEW n \in used, n # m PROVE memory'[n] = Absent <=> removals'[n] > 0
      BY <1>2, <1>5, <2>2 DEF RecordsInv, MemoriesAudited
    <2> QED
      BY <1>1, <1>4, <1>5, <2>1, <2>2 DEF RecordsInv, MemoriesAudited
  <1>11. ChannelsAudited'
    BY <1>1, <1>2, <1>4, ChannelsKeep DEF RecordsInv
  <1> QED
    BY <1>6, <1>8, <1>9, <1>10, <1>11 DEF RecordsInv

\* The first commit of create_channel: a channel and a pending request.
LEMMA CreateChannelKeeps ==
    ASSUME RecordsInv, NEW c \in Clients, CreateChannel(c)
    PROVE  RecordsInv'
  <1>1. PICK ch \in Channels :
            /\ req[c] = Quiet /\ ch \notin channels /\ channels' = channels \cup {ch}
            /\ req' = [req EXCEPT ![c] = [op |-> "audit", id |-> ch]]
            /\ UNCHANGED <<memory, used, audit, removals, cut>>
    BY DEF CreateChannel, Fresh
  <1>2. /\ req \in [Clients -> {Quiet} \cup Requests] /\ [op |-> "audit", id |-> ch] \in Requests
        /\ channels \subseteq Channels
    BY DEF RecordsInv, RecordsTypeOK, Requests
  <1>3. Pending' = Pending \cup {c} /\ c \notin Pending
    BY <1>1, <1>2 DEF Pending, Quiet
  <1>4. RecordsTypeOK'
    BY <1>1, <1>2 DEF RecordsInv, RecordsTypeOK
  <1>5. /\ IsFiniteSet(channels') /\ Cardinality(channels') = Cardinality(channels) + 1
    BY <1>1, FS_AddElement DEF RecordsInv, IdsKnown
  <1>6. IdsKnown'
    BY <1>1, <1>2, <1>5 DEF RecordsInv, IdsKnown
  <1>7. (Removals /\ MemoriesAudited)'
    BY <1>1 DEF RecordsInv, Removals, MemoriesAudited
  <1>8. ChannelsAudited'
    <2>1. Cardinality(Pending') = Cardinality(Pending) + 1
      BY <1>3, PendingFinite, FS_AddElement
    <2>2. audit["channel.created"] \in Nat /\ cut \in Nat /\ Cardinality(Pending) \in Nat
      BY PendingFinite DEF RecordsInv, RecordsTypeOK, Actions
    <2>3. Cardinality(channels) = audit["channel.created"] + cut + Cardinality(Pending)
      BY DEF RecordsInv, ChannelsAudited, Pending
    <2>4. Cardinality(channels') = audit'["channel.created"] + cut' + Cardinality(Pending')
      BY <1>1, <1>5, <2>1, <2>2, <2>3
    <2> QED
      BY <2>4 DEF ChannelsAudited, Pending
  <1> QED
    BY <1>4, <1>6, <1>7, <1>8 DEF RecordsInv

\* Its second commit: the request is no longer pending, the record is there.
LEMMA AuditChannelKeeps ==
    ASSUME RecordsInv, NEW c \in Clients, AuditChannel(c)
    PROVE  RecordsInv'
  <1>1. /\ req[c].op = "audit" /\ req' = [req EXCEPT ![c] = Quiet]
        /\ audit["channel.created"] < MaxAudits
        /\ audit' = [audit EXCEPT !["channel.created"] = @ + 1]
        /\ UNCHANGED <<memory, used, channels, removals, cut>>
    BY DEF AuditChannel, Audit, Finish
  <1>2. /\ req \in [Clients -> {Quiet} \cup Requests]
        /\ audit \in [Actions -> 0..MaxAudits] /\ MaxAudits \in Nat
    BY RecordsAssumption DEF RecordsInv, RecordsTypeOK
  <1>3. /\ audit' \in [Actions -> 0..MaxAudits]
        /\ audit'["memory.created"] = audit["memory.created"]
        /\ audit'["memory.deleted"] = audit["memory.deleted"]
        /\ audit'["channel.created"] = audit["channel.created"] + 1
    BY <1>1, <1>2 DEF Actions
  <1>4. Pending' = Pending \ {c} /\ c \in Pending
    BY <1>1, <1>2 DEF Pending, Quiet
  <1>5. RecordsTypeOK'
    BY <1>1, <1>2, <1>3 DEF RecordsInv, RecordsTypeOK
  <1>6. IdsKnown'
    BY <1>1, IdsKeep DEF RecordsInv
  <1>7. (Removals /\ MemoriesAudited)'
    BY <1>1, <1>3 DEF RecordsInv, Removals, MemoriesAudited
  <1>8. ChannelsAudited'
    <2>1. Cardinality(Pending') = Cardinality(Pending) - 1
      BY <1>4, PendingFinite, FS_RemoveElement
    <2>2. audit["channel.created"] \in Nat /\ cut \in Nat /\ Cardinality(Pending) \in Nat
      BY PendingFinite DEF RecordsInv, RecordsTypeOK, Actions
    <2>3. Cardinality(channels) = audit["channel.created"] + cut + Cardinality(Pending)
      BY DEF RecordsInv, ChannelsAudited, Pending
    <2>4. Cardinality(channels') = audit'["channel.created"] + cut' + Cardinality(Pending')
      BY <1>1, <1>3, <2>1, <2>2, <2>3
    <2> QED
      BY <2>4 DEF ChannelsAudited, Pending
  <1> QED
    BY <1>5, <1>6, <1>7, <1>8 DEF RecordsInv

\* update_channel only adds an audit record.
LEMMA UpdateChannelKeeps ==
    ASSUME RecordsInv, NEW c \in Clients, UpdateChannel(c)
    PROVE  RecordsInv'
  <1>1. /\ audit["channel.updated"] < MaxAudits
        /\ audit' = [audit EXCEPT !["channel.updated"] = @ + 1]
        /\ UNCHANGED <<memory, used, channels, removals, req, cut>>
    BY DEF UpdateChannel, Audit
  <1>2. audit \in [Actions -> 0..MaxAudits] /\ MaxAudits \in Nat
    BY RecordsAssumption DEF RecordsInv, RecordsTypeOK
  <1>3. /\ audit' \in [Actions -> 0..MaxAudits]
        /\ audit'["memory.created"] = audit["memory.created"]
        /\ audit'["memory.deleted"] = audit["memory.deleted"]
        /\ audit'["channel.created"] = audit["channel.created"]
    BY <1>1, <1>2 DEF Actions
  <1>4. RecordsTypeOK'
    BY <1>1, <1>3 DEF RecordsInv, RecordsTypeOK
  <1>5. (IdsKnown /\ Removals /\ MemoriesAudited)'
    BY <1>1, <1>3 DEF RecordsInv, IdsKnown, Removals, MemoriesAudited
  <1>6. ChannelsAudited'
    BY <1>1, <1>3, ChannelsKeep DEF RecordsInv, Pending
  <1> QED
    BY <1>4, <1>5, <1>6 DEF RecordsInv

\* What a crash cuts off is what was pending.
LEMMA CrashKeeps ==
    ASSUME RecordsInv, LoseRequests
    PROVE  RecordsInv'
  <1>1. /\ req' = [c \in Clients |-> Quiet]
        /\ cut' = cut + Cardinality(Pending)
        /\ UNCHANGED <<memory, used, channels, audit, removals>>
    BY DEF LoseRequests, Pending
  <1>2. Cardinality(Pending) \in Nat /\ cut \in Nat /\ audit["channel.created"] \in Nat
    BY PendingFinite DEF RecordsInv, RecordsTypeOK, Actions
  <1>3. RecordsTypeOK'
    BY <1>1, <1>2 DEF RecordsInv, RecordsTypeOK
  <1>4. IdsKnown'
    BY <1>1 DEF RecordsInv, IdsKnown, Quiet
  <1>5. (Removals /\ MemoriesAudited)'
    BY <1>1 DEF RecordsInv, Removals, MemoriesAudited
  <1>6. ChannelsAudited'
    <2>1. Pending' = {}
      BY <1>1 DEF Pending, Quiet
    <2>2. Cardinality(Pending') = 0
      BY <2>1, FS_EmptySet
    <2>3. Cardinality(channels) = audit["channel.created"] + cut + Cardinality(Pending)
      BY DEF RecordsInv, ChannelsAudited, Pending
    <2>4. Cardinality(channels') = audit'["channel.created"] + cut' + Cardinality(Pending')
      BY <1>1, <1>2, <2>2, <2>3
    <2> QED
      BY <2>4 DEF ChannelsAudited, Pending
  <1> QED
    BY <1>3, <1>4, <1>5, <1>6 DEF RecordsInv

\* The invariant of the records holds in every state.
LEMMA RecordsInvariant == CatalogSpec => []RecordsInv
  <1>1. CatalogInit => RecordsInv
    BY RecordsInitInv DEF CatalogInit
  <1>2. RecordsInv /\ [CatalogNext]_catalogVars => RecordsInv'
    <2> SUFFICES ASSUME RecordsInv, [CatalogNext]_catalogVars PROVE RecordsInv'
      OBVIOUS
    <2>1. CASE LoseRequests
      BY <2>1, CrashKeeps
    <2>2. ASSUME NEW c \in Clients, RecordRequest(c) PROVE RecordsInv'
      BY <2>2, CreateMemoryKeeps, ReadMemoryKeeps, UpdateMemoryKeeps, DeleteMemoryKeeps,
         CreateChannelKeeps, AuditChannelKeeps, UpdateChannelKeeps DEF RecordRequest
    <2>3. CASE UNCHANGED recordVars
      BY <2>3 DEF recordVars, RecordsInv, RecordsTypeOK, IdsKnown, Removals, MemoriesAudited,
                  ChannelsAudited
    <2>4. LoseRequests \/ (\E c \in Clients : RecordRequest(c)) \/ UNCHANGED recordVars
      BY DEF CatalogNext, StartServer, StartFails, AdminRequest, SourceChange, AddAssets,
             RemoveAssets, UpdateTool, catalogVars
    <2> QED
      BY <2>1, <2>2, <2>3, <2>4
  <1> QED
    BY <1>1, <1>2, PTL DEF CatalogSpec

\* The audit log accounts for every memory that was made or removed, whatever
\* requests overlap (create_memory, update_memory, delete_memory).
THEOREM MemoriesAreAudited == CatalogSpec => []MemoriesAudited
  <1>1. RecordsInv => MemoriesAudited
    BY DEF RecordsInv
  <1> QED
    BY <1>1, RecordsInvariant, PTL

\* The channels without an audit record are those whose request a crash cut off
\* or that is under way (create_channel).
THEOREM ChannelsAreAudited == CatalogSpec => []ChannelsAudited
  <1>1. RecordsInv => ChannelsAudited
    BY DEF RecordsInv
  <1> QED
    BY <1>1, RecordsInvariant, PTL

-----------------------------------------------------------------------------
(* The bindings of the tools to the templates.                               *)

\* Row d is the one default of its tool and scene.
OnlyDefault(rows, t, s, d) == DefaultsOf(rows, t, s) = {d}

\* Every tool and scene with a binding has one default.
OneDefaultEach(rows) ==
    \A n \in DOMAIN rows : \E d \in DOMAIN rows : OnlyDefault(rows, rows[n].tool, rows[n].scene, d)

\* What a row says of the flag alone.
LEMMA FlagOnly ==
    ASSUME NEW row \in Binding, NEW flag \in BOOLEAN
    PROVE  /\ [row EXCEPT !.isDefault = flag] \in Binding
           /\ Same([row EXCEPT !.isDefault = flag], row)
           /\ [row EXCEPT !.isDefault = flag].isDefault = flag
           /\ [row EXCEPT !.isDefault = row.isDefault] = row
  BY DEF Binding, Same

\* The closing loop of _seed_tool_prompt_bindings changes flags only, leaves one
\* default to each tool and scene and keeps a single one.
LEMMA NormalizedRows ==
    ASSUME NEW rows \in Seq(Binding), NEW out, out = NormalizeBindings(rows)
    PROVE  /\ out \in Seq(Binding) /\ DOMAIN out = DOMAIN rows
           /\ \A n \in DOMAIN rows : Same(out[n], rows[n])
           /\ \A t, s : Group(out, t, s) = Group(rows, t, s)
           /\ \A t, s, d : OnlyDefault(rows, t, s, d) => OnlyDefault(out, t, s, d)
           /\ \A t, s : Group(rows, t, s) # {} => \E d \in DOMAIN rows : OnlyDefault(out, t, s, d)
           /\ OneDefaultEach(rows) => out = rows
  <1> DEFINE Settled(n) == \E d \in DOMAIN rows : OnlyDefault(rows, rows[n].tool, rows[n].scene, d)
             first(n) == \A m \in Group(rows, rows[n].tool, rows[n].scene) : n <= m
  <1>1. /\ DOMAIN rows = 1..Len(rows) /\ Len(rows) \in Nat
        /\ \A n \in DOMAIN rows : rows[n] \in Binding
    OBVIOUS
  <1>2. out = [n \in DOMAIN rows |->
                  IF Settled(n) THEN rows[n] ELSE [rows[n] EXCEPT !.isDefault = first(n)]]
    BY DEF NormalizeBindings, OnlyDefault
  <1>3. \A n : first(n) \in BOOLEAN
    OBVIOUS
  <1> HIDE DEF first, Settled
  <1>10. DOMAIN out = DOMAIN rows /\ out = [n \in DOMAIN rows |-> out[n]]
    BY <1>2
  <1>4. /\ DOMAIN out = DOMAIN rows
        /\ \A n \in DOMAIN rows : /\ out[n] \in Binding /\ Same(out[n], rows[n])
                                  /\ Settled(n) => out[n] = rows[n]
                                  /\ ~Settled(n) => (out[n].isDefault <=> first(n))
    <2> SUFFICES ASSUME NEW n \in DOMAIN rows
                 PROVE  /\ out[n] \in Binding /\ Same(out[n], rows[n])
                        /\ Settled(n) => out[n] = rows[n]
                        /\ ~Settled(n) => (out[n].isDefault <=> first(n))
      BY <1>10
    <2>1. out[n] = IF Settled(n) THEN rows[n] ELSE [rows[n] EXCEPT !.isDefault = first(n)]
      BY <1>2
    <2>2. rows[n] \in Binding /\ first(n) \in BOOLEAN
      BY <1>1, <1>3
    <2>3. CASE Settled(n)
      BY <2>1, <2>2, <2>3 DEF Same
    <2>4. CASE ~Settled(n)
      <3>1. out[n] = [rows[n] EXCEPT !.isDefault = first(n)]
        BY <2>1, <2>4
      <3>2. out[n] \in Binding /\ Same(out[n], rows[n]) /\ out[n].isDefault = first(n)
        BY <2>2, <3>1, FlagOnly
      <3> QED
        BY <2>4, <3>2
    <2> QED
      BY <2>3, <2>4
  <1>5. out \in Seq(Binding)
    <2>1. out \in [1..Len(rows) -> Binding]
      BY <1>1, <1>4, <1>10
    <2> QED
      BY <1>1, <2>1, SeqDef
  <1>6. \A t, s : Group(out, t, s) = Group(rows, t, s)
    BY <1>4 DEF Group, Same
  <1>7. ASSUME NEW t, NEW s, NEW d, OnlyDefault(rows, t, s, d)
        PROVE  OnlyDefault(out, t, s, d)
    <2>1. d \in DOMAIN rows /\ \A n \in Group(rows, t, s) : n \in DOMAIN rows /\ Settled(n)
      BY <1>7 DEF OnlyDefault, DefaultsOf, Group, Settled
    <2>2. \A n \in Group(rows, t, s) : out[n] = rows[n]
      BY <1>4, <2>1
    <2> QED
      BY <1>6, <1>7, <2>2 DEF OnlyDefault, DefaultsOf
  <1>8. ASSUME NEW t, NEW s, Group(rows, t, s) # {}
        PROVE  \E d \in DOMAIN rows : OnlyDefault(out, t, s, d)
    <2>1. Group(rows, t, s) \in SUBSET DOMAIN rows /\ Group(rows, t, s) \in SUBSET Nat
      BY <1>1 DEF Group
    <2>2. CASE \E d \in DOMAIN rows : OnlyDefault(rows, t, s, d)
      <3>1. PICK d \in DOMAIN rows : OnlyDefault(rows, t, s, d)
        BY <2>2
      <3>2. OnlyDefault(out, t, s, d)
        BY <1>7, <3>1
      <3> QED
        BY <3>2
    <2>3. CASE ~\E d \in DOMAIN rows : OnlyDefault(rows, t, s, d)
      <3>1. PICK least \in Group(rows, t, s) : \A m \in Group(rows, t, s) : least <= m
        BY <1>8, <2>1, Least
      <3>2. \A n \in Group(rows, t, s) : ~Settled(n) /\ (out[n].isDefault <=> first(n))
        BY <1>4, <2>1, <2>3 DEF Settled, Group
      <3>3. \A n \in Group(rows, t, s) : first(n) <=> \A m \in Group(rows, t, s) : n <= m
        BY DEF first, Group
      <3>4. \A n \in Group(rows, t, s) : out[n].isDefault <=> n = least
        BY <2>1, <3>1, <3>2, <3>3
      <3> QED
        BY <1>6, <2>1, <3>1, <3>4 DEF OnlyDefault, DefaultsOf
    <2> QED
      BY <2>2, <2>3
  <1>9. ASSUME \A n \in DOMAIN rows : Settled(n) PROVE out = rows
    BY <1>4, <1>5, <1>9
  <1> QED
    BY <1>4, <1>5, <1>6, <1>7, <1>8, <1>9 DEF Settled, OneDefaultEach

\* The binding for a pair names the last default of its scene.
LEMMA NewBinding ==
    ASSUME NEW tab, NEW n \in DOMAIN DefaultBindings, SceneDefaults(tab, DefaultBindings[n][2]) # {}
    PROVE  /\ BindingFor(tab, DefaultBindings[n]) \in Binding
           /\ BindingFor(tab, DefaultBindings[n]).template \in SceneDefaults(tab, DefaultBindings[n][2])
  <1> DEFINE pair == DefaultBindings[n]
             found == SceneDefaults(tab, pair[2])
             last == CHOOSE i \in found : \A j \in found : j <= i
  <1>1. pair \in Tools \X Scenes
    BY BindingAssumption
  <1>2. found \in (SUBSET Ids) \ {{}}
    <2>1. found \subseteq Ids
      BY DEF SceneDefaults
    <2> QED
      BY <2>1
  <1> HIDE DEF found
  <1>3. \E i \in found : \A j \in found : j <= i
    BY <1>2, BindingAssumption
  <1>4. last \in found /\ last \in Ids
    BY <1>2, <1>3
  <1>5. BindingFor(tab, pair) = [tool |-> pair[1], scene |-> pair[2], isDefault |-> TRUE, template |-> last]
    BY DEF BindingFor, found
  <1> HIDE DEF last, pair
  <1>6. pair[1] \in Tools /\ pair[2] \in Scenes
    BY <1>1
  <1>7. BindingFor(tab, pair) \in Binding /\ BindingFor(tab, pair).template = last
    BY <1>4, <1>5, <1>6 DEF Binding
  <1> QED
    BY <1>4, <1>7 DEF pair, found

\* The rows after the first n pairs: those of before and one for each pair that
\* wants one.
Added(tab, rows, n) ==
    /\ rows \in Seq(Binding) /\ Len(binding) <= Len(rows)
    /\ \A m \in DOMAIN binding : rows[m] = binding[m]
    /\ \A m \in Len(binding) + 1 .. Len(rows) : \E k \in 1..n :
          Wanted(tab, DefaultBindings[k]) /\ rows[m] = BindingFor(tab, DefaultBindings[k])
    /\ \A k \in 1..n : Wanted(tab, DefaultBindings[k]) =>
          \E m \in DOMAIN rows : rows[m] = BindingFor(tab, DefaultBindings[k])

\* One more pair.
LEMMA AddedNext ==
    ASSUME binding \in Seq(Binding), NEW tab, NEW n \in Nat, n + 1 <= Len(DefaultBindings),
           NEW rows, Added(tab, rows, n), NEW next,
           next = IF Wanted(tab, DefaultBindings[n + 1])
                  THEN Append(rows, BindingFor(tab, DefaultBindings[n + 1])) ELSE rows
    PROVE  Added(tab, next, n + 1)
  <1> DEFINE pair == DefaultBindings[n + 1]
             row == BindingFor(tab, pair)
  <1>1. n + 1 \in DOMAIN DefaultBindings
    BY BindingAssumption
  <1>2. /\ rows \in Seq(Binding) /\ Len(rows) \in Nat /\ Len(binding) \in Nat
        /\ Len(binding) <= Len(rows)
        /\ DOMAIN rows = 1..Len(rows) /\ DOMAIN binding = 1..Len(binding)
    BY DEF Added
  <1>3. CASE Wanted(tab, pair)
    <2>1. row \in Binding
      BY <1>1, <1>3, NewBinding DEF Wanted
    <2> HIDE DEF row
    <2>2. next = Append(rows, row)
      BY <1>3 DEF row
    <2>3. /\ next \in Seq(Binding) /\ Len(next) = Len(rows) + 1
          /\ \A m \in 1..Len(rows) : next[m] = rows[m]
          /\ next[Len(rows) + 1] = row /\ DOMAIN next = 1..(Len(rows) + 1)
      BY <1>2, <2>1, <2>2, AppendProperties
    <2> HIDE DEF pair
    <2>4. \A m \in DOMAIN binding : next[m] = binding[m]
      BY <1>2, <2>3 DEF Added
    <2>5. \A m \in Len(binding) + 1 .. Len(next) : \E k \in 1..(n + 1) :
              Wanted(tab, DefaultBindings[k]) /\ next[m] = BindingFor(tab, DefaultBindings[k])
      <3> SUFFICES ASSUME NEW m \in Len(binding) + 1 .. Len(next)
                   PROVE  \E k \in 1..(n + 1) : /\ Wanted(tab, DefaultBindings[k])
                                                /\ next[m] = BindingFor(tab, DefaultBindings[k])
        OBVIOUS
      <3>1. CASE m = Len(rows) + 1
        BY <1>3, <2>3, <3>1 DEF pair, row
      <3>2. CASE m # Len(rows) + 1
        <4>1. m \in Len(binding) + 1 .. Len(rows) /\ m \in 1..Len(rows)
          BY <1>2, <2>3, <3>2
        <4>2. PICK k \in 1..n : Wanted(tab, DefaultBindings[k]) /\ rows[m] = BindingFor(tab, DefaultBindings[k])
          BY <4>1 DEF Added
        <4>3. k \in 1..(n + 1) /\ next[m] = rows[m]
          BY <2>3, <4>1
        <4> QED
          BY <4>2, <4>3
      <3> QED
        BY <3>1, <3>2
    <2>6. ASSUME NEW k \in 1..(n + 1), Wanted(tab, DefaultBindings[k])
          PROVE  \E m \in DOMAIN next : next[m] = BindingFor(tab, DefaultBindings[k])
      <3>1. CASE k = n + 1
        BY <1>2, <2>3, <3>1 DEF pair, row
      <3>2. CASE k # n + 1
        <4>1. k \in 1..n
          BY <3>2
        <4>2. PICK m \in DOMAIN rows : rows[m] = BindingFor(tab, DefaultBindings[k])
          BY <2>6, <4>1 DEF Added
        <4>3. m \in DOMAIN next /\ next[m] = rows[m]
          BY <1>2, <2>3
        <4> QED
          BY <4>2, <4>3
      <3> QED
        BY <3>1, <3>2
    <2>7. Len(binding) <= Len(next)
      BY <1>2, <2>3
    <2> QED
      BY <2>3, <2>4, <2>5, <2>6, <2>7 DEF Added
  <1>4. CASE ~Wanted(tab, pair)
    <2>1. next = rows
      BY <1>4
    <2>2. \A k \in 1..(n + 1) : Wanted(tab, DefaultBindings[k]) => k \in 1..n
      BY <1>4
    <2>3. 1..n \subseteq 1..(n + 1)
      OBVIOUS
    <2> QED
      BY <2>1, <2>2, <2>3 DEF Added
  <1> QED
    BY <1>3, <1>4

\* The loop of the bootstrap over all pairs.
LEMMA AddedAll ==
    ASSUME binding \in Seq(Binding), NEW tab
    PROVE  Added(tab, AddMissing(tab), Len(DefaultBindings))
  <1> DEFINE L == Len(DefaultBindings)
             Rule(g, n) == /\ g[0] = binding
                           /\ \A m \in 1..n : g[m] =
                                 IF Wanted(tab, DefaultBindings[m])
                                 THEN Append(g[m - 1], BindingFor(tab, DefaultBindings[m])) ELSE g[m - 1]
             S == {n \in Nat : n <= L => \E g \in [0..n -> Seq(Binding)] :
                                            Rule(g, n) /\ \A m \in 0..n : Added(tab, g[m], m)}
  <1>0. L \in Nat
    BY BindingAssumption
  <1>1. 0 \in S
    <2> DEFINE g == [m \in 0..0 |-> binding]
    <2>1. g \in [0..0 -> Seq(Binding)] /\ Rule(g, 0)
      OBVIOUS
    <2>2. Added(tab, binding, 0)
      BY DEF Added
    <2>3. \A m \in 0..0 : m = 0 /\ g[m] = binding
      OBVIOUS
    <2> HIDE DEF g, Rule
    <2> QED
      BY <2>1, <2>2, <2>3
  <1>2. ASSUME NEW n \in Nat, n \in S PROVE n + 1 \in S
    <2> SUFFICES ASSUME n + 1 <= L
                 PROVE  \E g \in [0..(n + 1) -> Seq(Binding)] :
                            Rule(g, n + 1) /\ \A m \in 0..(n + 1) : Added(tab, g[m], m)
      OBVIOUS
    <2>1. n <= L
      BY <1>0
    <2>2. PICK g \in [0..n -> Seq(Binding)] : Rule(g, n) /\ \A m \in 0..n : Added(tab, g[m], m)
      BY <1>2, <2>1
    <2> DEFINE next == IF Wanted(tab, DefaultBindings[n + 1])
                       THEN Append(g[n], BindingFor(tab, DefaultBindings[n + 1])) ELSE g[n]
               h == [m \in 0..(n + 1) |-> IF m = n + 1 THEN next ELSE g[m]]
    <2>3. Added(tab, next, n + 1)
      <3>1. Added(tab, g[n], n)
        BY <2>2
      <3> HIDE DEF Rule
      <3> QED
        BY <3>1, AddedNext
    <2>4. next \in Seq(Binding)
      BY <2>3 DEF Added
    <2> HIDE DEF next
    <2>5. h \in [0..(n + 1) -> Seq(Binding)]
      BY <2>2, <2>4
    <2>6. \A m \in 0..n : h[m] = g[m]
      OBVIOUS
    <2>7. h[n + 1] = next
      OBVIOUS
    <2> HIDE DEF h
    <2>8. Rule(h, n + 1)
      <3>1. h[0] = binding
        BY <2>2, <2>6
      <3>2. ASSUME NEW m \in 1..(n + 1)
            PROVE  h[m] = IF Wanted(tab, DefaultBindings[m])
                          THEN Append(h[m - 1], BindingFor(tab, DefaultBindings[m])) ELSE h[m - 1]
        <4>1. m - 1 \in 0..n /\ h[m - 1] = g[m - 1]
          BY <2>6
        <4>2. CASE m = n + 1
          <5>1. h[m] = next /\ g[m - 1] = g[n]
            BY <2>7, <4>2
          <5> QED
            BY <4>1, <4>2, <5>1 DEF next
        <4>3. CASE m # n + 1
          <5>1. m \in 1..n /\ h[m] = g[m]
            BY <2>6, <4>3
          <5> QED
            BY <2>2, <4>1, <5>1
        <4> QED
          BY <4>2, <4>3
      <3> QED
        BY <3>1, <3>2
    <2>9. \A m \in 0..(n + 1) : Added(tab, h[m], m)
      <3>1. \A m \in 0..(n + 1) : m = n + 1 \/ m \in 0..n
        OBVIOUS
      <3> QED
        BY <2>2, <2>3, <2>6, <2>7, <3>1
    <2> HIDE DEF Rule
    <2> QED
      BY <2>5, <2>8, <2>9
  <1>3. L \in S
    <2> HIDE DEF S
    <2> QED
      BY <1>0, <1>1, <1>2, Induct
  <1>4. PICK g \in [0..L -> Seq(Binding)] : Rule(g, L) /\ \A m \in 0..L : Added(tab, g[m], m)
    BY <1>0, <1>3
  <1> DEFINE IsLoop(f) == f = [n \in 0..Len(DefaultBindings) |->
                                  IF n = 0 THEN binding
                                  ELSE IF Wanted(tab, DefaultBindings[n])
                                       THEN Append(f[n - 1], BindingFor(tab, DefaultBindings[n]))
                                       ELSE f[n - 1]]
             rows == CHOOSE f : IsLoop(f)
  <1>5. IsLoop(g)
    <2>1. ASSUME NEW n \in 0..L
          PROVE  g[n] = IF n = 0 THEN binding
                        ELSE IF Wanted(tab, DefaultBindings[n])
                             THEN Append(g[n - 1], BindingFor(tab, DefaultBindings[n]))
                             ELSE g[n - 1]
      <3>1. CASE n = 0
        BY <1>4, <3>1
      <3>2. CASE n # 0
        <4>1. n \in 1..L
          BY <1>0, <3>2
        <4> QED
          BY <1>4, <3>2, <4>1
      <3> QED
        BY <3>1, <3>2
    <2>2. g = [n \in 0..L |-> g[n]]
      BY <1>4
    <2> QED
      BY <2>1, <2>2
  <1>6. IsLoop(rows)
    <2> HIDE DEF IsLoop
    <2> QED
      BY <1>5, Zenon
  <1>7. AddMissing(tab) = rows[L]
    BY Zenon DEF AddMissing
  <1> HIDE DEF rows
  <1>8. Added(tab, rows[0], 0)
    <2>1. rows[0] = binding
      BY <1>0, <1>6
    <2> QED
      BY <2>1 DEF Added
  <1>9. ASSUME NEW n \in Nat, n + 1 <= L, Added(tab, rows[n], n) PROVE Added(tab, rows[n + 1], n + 1)
    <2>1. n + 1 \in 0..L /\ n + 1 # 0 /\ (n + 1) - 1 = n
      BY <1>0, <1>9
    <2>2. rows[n + 1] = IF Wanted(tab, DefaultBindings[n + 1])
                        THEN Append(rows[n], BindingFor(tab, DefaultBindings[n + 1])) ELSE rows[n]
      BY <1>6, <2>1
    <2> QED
      BY <1>9, <2>2, AddedNext
  <1> DEFINE T == {n \in Nat : n <= L => Added(tab, rows[n], n)}
  <1>10. 0 \in T
    BY <1>8
  <1>11. \A n \in Nat : n \in T => n + 1 \in T
    BY <1>0, <1>9
  <1>12. L \in T
    <2> HIDE DEF T
    <2> QED
      BY <1>0, <1>10, <1>11, Induct
  <1> QED
    BY <1>0, <1>7, <1>12

\* A template request commits at once: nobody keeps a session open.
AllIdle == tx = [w \in Workers |-> Idle]

\* The bootstrap decides by template_key, so the keys must tell the templates
\* apart; a snapshot left without its template could meet a row inserted later.
\* (That every template has its snapshot is true of Python's names only: a case
\* blind database may take the snapshot of another version for it.)
CatalogKeys == TypeOK /\ UniqueKeys(template) /\ HistoryHasOwner /\ AllIdle

\* A name is like itself.
LEMMA AlikeItself == \A x, y : x = y => Alike(x, y)
  BY DEF Alike

\* The snapshot that a request writes is that of a version.
LEMMA SnapshotFound ==
    ASSUME NEW i \in Ids, NEW v \in Versions
    PROVE  SnapshotOf(i, v) \in Versions
  <1> DEFINE there == {u \in Versions : version[i][u] # None /\ Alike(u, v)}
  <1>1. there # {} => (CHOOSE u \in there : TRUE) \in there
    OBVIOUS
  <1>2. SnapshotOf(i, v) = IF there = {} THEN v ELSE CHOOSE u \in there : TRUE
    BY DEF SnapshotOf
  <1> HIDE DEF there
  <1>3. there \subseteq Versions
    BY DEF there
  <1> QED
    BY <1>1, <1>2, <1>3

\* A request of the admin API saves a row under a key of its own, and a snapshot
\* of that row.
LEMMA TemplateRequestKeys ==
    ASSUME CatalogKeys, TemplateRequest
    PROVE  CatalogKeys'
  <1>1. PICK i \in Ids, row \in Row, demoted \in SUBSET Ids, v \in Versions :
            /\ \A j \in Live \ {i} : ~Alike(template[j].key, row.key)
            /\ template' = [Demote(template, demoted) EXCEPT ![i] = row]
            /\ \/ version' = [version EXCEPT ![i][v] = SnapOf(row)]
               \/ version' = version
            /\ UNCHANGED <<tx, starts>>
    <2>1. PICK i \in Ids, row \in Row, given \in BOOLEAN :
              LET v == SnapshotOf(i, row.version)
                  demoted == {j \in Live \ {i} : /\ given /\ row.isDefault
                                                 /\ Alike(template[j].scene, row.scene)}
              IN  /\ \A j \in Live \ {i} : ~Alike(template[j].key, row.key)
                  /\ template' = [Demote(template, demoted) EXCEPT ![i] = row]
                  /\ \/ version' = [version EXCEPT ![i][v] = SnapOf(row)]
                     \/ version[i][v] # None /\ UNCHANGED version
                  /\ UNCHANGED <<tx, starts>>
      BY DEF TemplateRequest
    <2> DEFINE demoted == {j \in Live \ {i} : /\ given /\ row.isDefault
                                              /\ Alike(template[j].scene, row.scene)}
    <2>2. demoted \in SUBSET Ids
      BY DEF Live
    <2>3. SnapshotOf(i, row.version) \in Versions
      BY SnapshotFound DEF Row
    <2> HIDE DEF demoted
    <2>4. template' = [Demote(template, demoted) EXCEPT ![i] = row]
      BY <2>1 DEF demoted
    <2> QED
      BY <2>1, <2>2, <2>3, <2>4
  <1> DEFINE kept == Demote(template, demoted)
  <1>2. /\ template \in [Ids -> Row \cup {None}] /\ UniqueKeys(template) /\ HistoryHasOwner
        /\ version \in [Ids -> [Versions -> Snap \cup {None}]] /\ TypeOK /\ AllIdle
    BY DEF CatalogKeys, TypeOK
  <1>3. SnapOf(row) \in Snap /\ row # None
    BY SnapOfRow, NoneAssumption
  <1>4. /\ kept \in [Ids -> Row \cup {None}]
        /\ \A j \in Ids : kept[j] = None <=> template[j] = None
        /\ \A j \in Ids : kept[j] # None => template[j] # None /\ kept[j].key = template[j].key
    BY <1>2, DemoteRows, DemoteKeys
  <1> HIDE DEF kept
  <1>5. template' = [kept EXCEPT ![i] = row]
    BY <1>1 DEF kept
  <1>6. \A j \in Ids : template'[j] = IF j = i THEN row ELSE kept[j]
    BY <1>4, <1>5
  <1>7. version' \in [Ids -> [Versions -> Snap \cup {None}]]
    BY <1>1, <1>2, <1>3
  <1>8. TypeOK'
    BY <1>1, <1>2, <1>4, <1>5, <1>7 DEF TypeOK
  <1>9. UniqueKeys(template')
    <2>1. \A j \in Ids \ {i} : template[j] # None => template[j].key # row.key
      BY <1>1, AlikeItself DEF Live
    <2> QED
      BY <1>2, <1>4, <1>6, <2>1 DEF UniqueKeys
  <1>10. HistoryHasOwner'
    <2>1. \A j \in Ids \ {i} : version'[j] = version[j]
      BY <1>1, <1>2
    <2> QED
      BY <1>2, <1>3, <1>4, <1>6, <2>1 DEF HistoryHasOwner, Live
  <1>11. AllIdle'
    BY <1>1, <1>2 DEF AllIdle
  <1> QED
    BY <1>8, <1>9, <1>10, <1>11 DEF CatalogKeys

\* What every start does to the templates.
LEMMA StartRestarts ==
    ASSUME StartServer
    PROVE  \E ids \in FreshIds : RestartWith(ids) /\ StartBindings(Reset(ids))
  BY DEF StartServer, NextIds

\* The start of the bootstrap's transaction finds the keys distinct and leaves
\* them so, with a snapshot and at most one default per scene.
LEMMA StartKeys ==
    ASSUME CatalogKeys, NEW ids \in FreshIds, RestartWith(ids)
    PROVE  CatalogKeys' /\ OneDefaultPerScene' /\ VersionRecorded'
  <1>1. TypeOK' /\ VersionRecorded' /\ Grows
    BY RestartRecords DEF CatalogKeys
  <1>2. UniqueKeys(template') /\ OneDefaultPerScene'
    BY RestartSettles DEF CatalogKeys
  <1>3. AllIdle'
    BY DEF RestartWith, AllIdle
  <1>4. HistoryHasOwner'
    <2>1. version' = AddSnapshots(template')
      BY DEF RestartWith
    <2>2. \A i \in Ids, v \in Versions :
              version'[i][v] # None => template'[i] # None \/ version[i][v] # None
      BY <2>1 DEF AddSnapshots
    <2> QED
      BY <1>1, <2>2 DEF CatalogKeys, HistoryHasOwner, Grows, Live
  <1> QED
    BY <1>1, <1>2, <1>3, <1>4 DEF CatalogKeys

\* No step gives two templates one key or a snapshot no template.
LEMMA CatalogKeysKept ==
    ASSUME CatalogKeys, [CatalogNext]_catalogVars
    PROVE  CatalogKeys'
  <1>1. CASE StartServer
    BY <1>1, StartRestarts, StartKeys
  <1>2. CASE StartFails
    <2>1. /\ starts < MaxStarts /\ starts' = starts + 1 /\ tx' = tx
          /\ UNCHANGED <<template, version>>
      BY <1>2 DEF StartFails, CatalogKeys, AllIdle
    <2>2. starts' \in 0..MaxStarts
      BY <2>1, BoundAssumption DEF CatalogKeys, TypeOK
    <2> QED
      BY <2>1, <2>2 DEF CatalogKeys, TypeOK, HistoryHasOwner, Live, AllIdle
  <1>3. CASE TemplateRequest
    BY <1>3, TemplateRequestKeys
  <1>4. CASE UNCHANGED vars
    BY <1>4 DEF vars, CatalogKeys, TypeOK, HistoryHasOwner, Live, AllIdle
  <1>5. StartServer \/ StartFails \/ TemplateRequest \/ UNCHANGED vars
    BY DEF CatalogNext, AdminRequest, BindingRequest, CreateBinding, UpdateBinding, DeleteBinding,
           Save, SourceChange, AddAssets, RemoveAssets, UpdateTool, catalogVars
  <1> QED
    BY <1>1, <1>2, <1>3, <1>4, <1>5

\* An empty database has no keys.
LEMMA CatalogKeysInit == CatalogInit => CatalogKeys
  <1> SUFFICES ASSUME CatalogInit PROVE CatalogKeys
    OBVIOUS
  <1>1. Init
    BY DEF CatalogInit
  <1>2. TypeOK
    BY <1>1, InitInv DEF IInv
  <1> QED
    BY <1>1, <1>2 DEF Init, UniqueKeys, AllIdle, HistoryHasOwner, CatalogKeys

\* What becomes of the row of a template before the flags are settled.
LEMMA ResetVersion ==
    ASSUME TypeOK, NEW ids \in FreshIds, NEW i \in Live
    PROVE  \/ Reset(ids)[i].version = template[i].version
           \/ /\ template[i].key \in Builtin
              /\ Reset(ids)[i].version = Shipped[template[i].key].version
  <1>1. CASE template[i].key \notin Builtin
    BY <1>1 DEF Reset, Live
  <1>2. CASE template[i].key \in Builtin
    <2>1. PICK own : own = Shipped[template[i].key]
      OBVIOUS
    <2>2. own \in Row
      BY <1>2, <2>1, ShippedAssumption DEF Builtin
    <2>3. Reset(ids)[i] = [own EXCEPT !.isDefault = template[i].isDefault]
      BY <1>2, <2>1 DEF Reset, Live
    <2>4. Reset(ids)[i].version = own.version
      BY <2>2, <2>3 DEF Row
    <2> QED
      BY <1>2, <2>1, <2>4
  <1> QED
    BY <1>1, <1>2

\* Names alone can keep the server from starting: those of two assets, or two
\* that differ for Python and not for the database (bootstrap_admin_catalog).
THEOREM StartsFailOnAlikesOnly == CatalogSpec => FailsOnlyOnAlikes
  <1> DEFINE
        Twins == \E a, b \in known : /\ a # b /\ SourceOf(a) = SourceOf(b)
                                     /\ Alike(DomainOf[a], DomainOf[b]) /\ Alike(NameOf[a], NameOf[b])
        Systems == \E a, b \in known : SourceOf(a) # SourceOf(b) /\ Alike(SourceOf(a), SourceOf(b))
        Templates == \E i \in Live, k \in Builtin : template[i].key # k /\ Alike(template[i].key, k)
        Histories ==
            \E i \in Live, u, v \in Versions :
                /\ version[i][v] # None /\ u # v /\ Alike(u, v)
                /\ \/ template[i].version = u
                   \/ template[i].key \in Builtin /\ Shipped[template[i].key].version = u
        Pairs ==
            \E m \in DOMAIN DefaultBindings, n \in DOMAIN binding :
                /\ binding[n].tool = DefaultBindings[m][1]
                /\ binding[n].scene # DefaultBindings[m][2]
                /\ Alike(binding[n].scene, DefaultBindings[m][2])
        Confused ==
            \/ Twins
            \/ Systems
            \/ Templates
            \/ Histories
            \/ Pairs
  <1>1. ASSUME TablesOfAssets, SourceClash PROVE Systems
    <2>1. PICK a \in assets, s \in sources : SourceOf(a) \notin sources /\ Alike(SourceOf(a), s)
      BY <1>1 DEF SourceClash
    <2>2. PICK b \in known : s = SourceOf(b)
      BY <1>1 DEF TablesOfAssets
    <2>3. a \in known
      BY <1>1 DEF TablesOfAssets
    <2> QED
      BY <2>1, <2>2, <2>3
  <1>2. ASSUME NEW a, NEW b, SameTable(TableOf(a), TableOf(b))
        PROVE  SourceOf(a) = SourceOf(b) /\ Alike(DomainOf[a], DomainOf[b]) /\ Alike(NameOf[a], NameOf[b])
    BY <1>2 DEF SameTable, TableOf
  <1>3. ASSUME TablesOfAssets, TableClash PROVE Twins
    <2>0. Unlisted \subseteq known
      BY <1>3 DEF Unlisted, TablesOfAssets
    <2>1. ASSUME NEW a \in Unlisted, NEW b \in Unlisted, a # b, SameTable(TableOf(a), TableOf(b))
          PROVE  Twins
      BY <1>2, <2>0, <2>1
    <2>2. ASSUME NEW a \in Unlisted, NEW table \in tables, SameTable(TableOf(a), table)
          PROVE  Twins
      <3>1. PICK b \in known : table = TableOf(b)
        BY <1>3 DEF TablesOfAssets
      <3>2. a \in known /\ a # b
        BY <2>0, <3>1 DEF Unlisted
      <3> QED
        BY <1>2, <2>2, <3>1, <3>2
    <2> QED
      BY <1>3, <2>1, <2>2 DEF TableClash
  <1>4. ASSUME KeyClash PROVE Templates
    <2>1. PICK i \in Live, k \in MissingKeys : Alike(template[i].key, k)
      BY <1>4 DEF KeyClash
    <2>2. k \in Builtin /\ template[i].key # k
      BY DEF MissingKeys, HasKey, Live
    <2> QED
      BY <2>1, <2>2
  <1>5. ASSUME CatalogKeys, NEW ids \in FreshIds, VersionClash(Reset(ids)) PROVE Histories
    <2>1. PICK i \in Ids, v \in Versions :
              /\ Reset(ids)[i] # None /\ version[i][Reset(ids)[i].version] = None
              /\ version[i][v] # None /\ Alike(Reset(ids)[i].version, v)
      BY <1>5 DEF VersionClash
    <2>2. i \in Live
      BY <1>5, <2>1 DEF CatalogKeys, HistoryHasOwner
    <2>3. Reset(ids)[i] \in Row
      BY <1>5, <2>1, ResetRows DEF CatalogKeys
    <2>4. PICK u \in Versions : u = Reset(ids)[i].version
      BY <2>3 DEF Row
    <2>5. template[i].version = u \/ (template[i].key \in Builtin /\ Shipped[template[i].key].version = u)
      BY <1>5, <2>2, <2>4, ResetVersion DEF CatalogKeys
    <2>6. u # v /\ Alike(u, v)
      BY <2>1, <2>4
    <2> QED
      BY <2>1, <2>2, <2>5, <2>6
  <1>6. ASSUME NEW tab, BindingClash(tab) PROVE Pairs
    <2>1. PICK m \in DOMAIN DefaultBindings, n \in DOMAIN binding :
              /\ Wanted(tab, DefaultBindings[m])
              /\ Excludes(BindingFor(tab, DefaultBindings[m]), binding[n])
      BY <1>6 DEF BindingClash
    <2>2. PICK row : row = BindingFor(tab, DefaultBindings[m])
      OBVIOUS
    <2>3. row.tool = DefaultBindings[m][1] /\ row.scene = DefaultBindings[m][2]
      BY <2>2 DEF BindingFor
    <2>4. /\ row.tool = binding[n].tool /\ row.template = binding[n].template
          /\ Alike(row.scene, binding[n].scene)
      BY <2>1, <2>2 DEF Excludes
    <2>5. ~Same(binding[n], row)
      BY <2>1, <2>2 DEF Wanted
    <2>6. binding[n].scene # DefaultBindings[m][2]
      BY <2>3, <2>4, <2>5 DEF Same
    <2>7. Alike(binding[n].scene, DefaultBindings[m][2])
      BY <2>3, <2>4 DEF Alike
    <2> QED
      BY <2>3, <2>4, <2>6, <2>7
  <1>7. CatalogKeys /\ TablesOfAssets /\ [CatalogNext]_catalogVars
            => [starts' # starts /\ ~up' => Confused]_catalogVars
    <2> SUFFICES ASSUME CatalogKeys, TablesOfAssets, [CatalogNext]_catalogVars, starts' # starts, ~up'
                 PROVE  Confused
      OBVIOUS
    <2>1. StartFails
      BY StartsChange DEF StartServer
    <2>2. PICK ids \in FreshIds : Clash(Reset(ids))
      BY <2>1 DEF StartFails, NextIds
    <2> HIDE DEF Twins, Systems, Templates, Histories, Pairs
    <2> QED
      BY <1>1, <1>3, <1>4, <1>5, <1>6, <2>2 DEF Clash
  <1>8. CatalogSpec => []CatalogKeys
    BY CatalogKeysInit, CatalogKeysKept, PTL DEF CatalogSpec
  <1> QED
    BY <1>7, <1>8, TablesInvariant, PTL DEF CatalogSpec, FailsOnlyOnAlikes

-----------------------------------------------------------------------------
(* The bindings, request by request.                                         *)

\* Taking the flag from the other bindings of the tool and scene of row n, and of
\* scenes that the database takes for the same.
LEMMA DemotedRows ==
    ASSUME NEW rows \in Seq(Binding), NEW n, NEW out, out = DemoteOthers(rows, n)
    PROVE  /\ out \in Seq(Binding) /\ DOMAIN out = DOMAIN rows
           /\ \A m \in DOMAIN rows :
                 /\ Same(out[m], rows[m]) /\ (out[m].isDefault => rows[m].isDefault)
                 /\ m # n /\ m \in Group(rows, rows[n].tool, rows[n].scene) => ~out[m].isDefault
  <1> DEFINE kept(m) == rows[m].isDefault /\ (m = n \/ rows[m].tool # rows[n].tool
                                                   \/ ~Alike(rows[m].scene, rows[n].scene))
  <1>0. \A row \in Binding : row.isDefault \in BOOLEAN
    BY DEF Binding
  <1>1. /\ DOMAIN rows = 1..Len(rows) /\ Len(rows) \in Nat
        /\ \A m \in DOMAIN rows : rows[m] \in Binding /\ rows[m].isDefault \in BOOLEAN
    BY <1>0
  <1>2. out = [m \in DOMAIN rows |-> [rows[m] EXCEPT !.isDefault = kept(m)]]
    BY DEF DemoteOthers
  <1>3. \A m \in DOMAIN rows : kept(m) \in BOOLEAN
    BY <1>1
  <1>4. \A m : kept(m) => rows[m].isDefault
    OBVIOUS
  <1>5. \A m : m # n /\ m \in Group(rows, rows[n].tool, rows[n].scene) => ~kept(m)
    BY AlikeItself DEF Group
  <1> HIDE DEF kept
  <1>6. DOMAIN out = DOMAIN rows /\ out = [m \in DOMAIN rows |-> out[m]]
    BY <1>2
  <1>7. ASSUME NEW m \in DOMAIN rows
        PROVE  out[m] \in Binding /\ Same(out[m], rows[m]) /\ out[m].isDefault = kept(m)
    <2>1. out[m] = [rows[m] EXCEPT !.isDefault = kept(m)]
      BY <1>2
    <2> QED
      BY <1>1, <1>3, <2>1, FlagOnly
  <1>8. out \in [1..Len(rows) -> Binding]
    BY <1>1, <1>6, <1>7
  <1>9. out \in Seq(Binding)
    BY <1>1, <1>8, SeqDef
  <1> QED
    BY <1>4, <1>5, <1>6, <1>7, <1>9

\* What create and update commit of the rows they have.
LEMMA SavedRows ==
    ASSUME NEW rows \in Seq(Binding), NEW n, NEW normalize \in BOOLEAN, Save(rows, n, normalize)
    PROVE  /\ binding' \in Seq(Binding) /\ DOMAIN binding' = DOMAIN rows /\ Edit
           /\ \A m \in DOMAIN rows :
                 /\ Same(binding'[m], rows[m]) /\ (binding'[m].isDefault => rows[m].isDefault)
                 /\ normalize /\ m # n /\ m \in Group(rows, rows[n].tool, rows[n].scene)
                        => ~binding'[m].isDefault
  <1>1. Edit /\ binding' = IF normalize THEN DemoteOthers(rows, n) ELSE rows
    BY DEF Save
  <1>2. CASE normalize
    BY <1>1, <1>2, DemotedRows
  <1>3. CASE ~normalize
    BY <1>1, <1>3 DEF Same
  <1> QED
    BY <1>2, <1>3

\* The place a row had before row n was deleted.
Was(m, n) == IF m < n THEN m ELSE m + 1

\* delete_tool_prompt_binding closes the gap.
LEMMA DeletedRows ==
    ASSUME binding \in Seq(Binding), NEW n \in DOMAIN binding, NEW out,
           out = SubSeq(binding, 1, n - 1) \o SubSeq(binding, n + 1, Len(binding))
    PROVE  /\ out \in Seq(Binding)
           /\ \A m \in DOMAIN out : Was(m, n) \in DOMAIN binding /\ out[m] = binding[Was(m, n)]
  <1> DEFINE front == SubSeq(binding, 1, n - 1)
             back == SubSeq(binding, n + 1, Len(binding))
  <1>1. /\ DOMAIN binding = 1..Len(binding) /\ Len(binding) \in Nat /\ n \in Nat /\ n >= 1
        /\ n <= Len(binding) /\ \A m \in DOMAIN binding : binding[m] \in Binding
    OBVIOUS
  <1>2. /\ front \in Seq(Binding) /\ Len(front) = n - 1
        /\ \A m \in 1..(n - 1) : front[m] = binding[m]
    <2>1. \A m \in 1..(n - 1) : binding[m] \in Binding
      BY <1>1
    <2>2. 1 \in Int /\ n - 1 \in Int
      BY <1>1
    <2>3. /\ front \in Seq(Binding)
          /\ Len(front) = IF 1 <= n - 1 THEN (n - 1) - 1 + 1 ELSE 0
          /\ \A m \in 1..((n - 1) - 1 + 1) : front[m] = binding[1 + m - 1]
      BY <2>1, <2>2, SubSeqProperties
    <2> QED
      BY <1>1, <2>3
  <1>3. /\ back \in Seq(Binding) /\ Len(back) = Len(binding) - n
        /\ \A m \in 1..(Len(binding) - n) : back[m] = binding[n + m]
    <2>1. \A m \in (n + 1)..Len(binding) : binding[m] \in Binding
      BY <1>1
    <2>2. n + 1 \in Int /\ Len(binding) \in Int
      BY <1>1
    <2>3. /\ back \in Seq(Binding)
          /\ Len(back) = IF n + 1 <= Len(binding) THEN Len(binding) - (n + 1) + 1 ELSE 0
          /\ \A m \in 1..(Len(binding) - (n + 1) + 1) : back[m] = binding[(n + 1) + m - 1]
      BY <2>1, <2>2, SubSeqProperties
    <2> QED
      BY <1>1, <2>3
  <1>4. out = front \o back /\ front \in Seq(Binding) /\ back \in Seq(Binding)
    BY <1>2, <1>3
  <1>5. DOMAIN binding = 1..Len(binding) /\ Len(binding) \in Nat /\ n \in 1..Len(binding)
    BY <1>1
  <1>6. Len(front) = n - 1 /\ Len(back) = Len(binding) - n
    BY <1>2, <1>3
  <1> HIDE DEF front, back
  <1>7. /\ out \in Seq(Binding) /\ Len(out) = Len(front) + Len(back)
        /\ \A m \in 1..(Len(front) + Len(back)) :
              out[m] = IF m <= Len(front) THEN front[m] ELSE back[m - Len(front)]
    BY <1>4, ConcatProperties
  <1>8. DOMAIN out = 1..(Len(binding) - 1) /\ Len(front) + Len(back) = Len(binding) - 1
    BY <1>5, <1>6, <1>7
  <1>9. ASSUME NEW m \in 1..(Len(binding) - 1)
        PROVE  Was(m, n) \in DOMAIN binding /\ out[m] = binding[Was(m, n)]
    <2>1. CASE m < n
      <3>1. m \in 1..(n - 1) /\ m <= n - 1 /\ Was(m, n) = m /\ m \in 1..Len(binding)
        BY <1>5, <2>1 DEF Was
      <3>2. out[m] = front[m]
        BY <1>6, <1>7, <1>8, <3>1
      <3> QED
        BY <1>2, <1>5, <3>1, <3>2
    <2>2. CASE ~(m < n)
      <3>1. PICK p \in Nat : p = m - (n - 1)
        BY <1>5, <2>2
      <3>2. /\ ~(m <= n - 1) /\ p \in 1..(Len(binding) - n)
            /\ n + p = m + 1 /\ Was(m, n) = m + 1 /\ m + 1 \in 1..Len(binding)
        BY <1>5, <2>2, <3>1 DEF Was
      <3>3. out[m] = back[p]
        BY <1>6, <1>7, <1>8, <3>1, <3>2
      <3> QED
        BY <1>3, <1>5, <3>2, <3>3
    <2> QED
      BY <2>1, <2>2, <1>5
  <1> QED
    BY <1>7, <1>8, <1>9

\* What a start makes of the bindings: it adds rows and settles the flags.
LEMMA StartRows ==
    ASSUME binding \in Seq(Binding), NEW tab, StartBindings(tab)
    PROVE  \E rows \in Seq(Binding) :
              /\ Added(tab, rows, Len(DefaultBindings)) /\ binding' = NormalizeBindings(rows)
  <1>1. \E rows \in {AddMissing(tab)} : binding' = NormalizeBindings(rows)
    BY DEF StartBindings
  <1>2. PICK rows : rows = AddMissing(tab) /\ binding' = NormalizeBindings(rows)
    BY <1>1
  <1>3. Added(tab, rows, Len(DefaultBindings))
    BY <1>2, AddedAll
  <1> QED
    BY <1>2, <1>3 DEF Added

\* What stays of the bindings when the server is started.
LEMMA StartSettles ==
    ASSUME binding \in Seq(Binding), StartServer
    PROVE  /\ binding' \in Seq(Binding)
           /\ \A t, s : Group(binding', t, s) # {} =>
                 \E d \in DOMAIN binding' : OnlyDefault(binding', t, s, d)
           /\ \A t, s, d : OnlyDefault(binding, t, s, d) /\ Group(binding', t, s) = Group(binding, t, s)
                           => OnlyDefault(binding', t, s, d)
  <1>0. PICK tab : StartBindings(tab)
    BY DEF StartServer
  <1>1. PICK rows \in Seq(Binding) :
            Added(tab, rows, Len(DefaultBindings)) /\ binding' = NormalizeBindings(rows)
    BY <1>0, StartRows
  <1>2. PICK out : out = binding'
    OBVIOUS
  <1>3. /\ out \in Seq(Binding) /\ DOMAIN out = DOMAIN rows
        /\ \A t, s : Group(out, t, s) = Group(rows, t, s)
        /\ \A t, s, d : OnlyDefault(rows, t, s, d) => OnlyDefault(out, t, s, d)
        /\ \A t, s : Group(rows, t, s) # {} => \E d \in DOMAIN rows : OnlyDefault(out, t, s, d)
    BY <1>1, <1>2, NormalizedRows
  <1>4. ASSUME NEW t, NEW s, NEW d, OnlyDefault(binding, t, s, d),
               Group(rows, t, s) = Group(binding, t, s)
        PROVE  OnlyDefault(rows, t, s, d)
    <2>1. \A n \in Group(binding, t, s) : rows[n] = binding[n]
      BY <1>1 DEF Added, Group
    <2> QED
      BY <1>4, <2>1 DEF OnlyDefault, DefaultsOf
  <1> QED
    BY <1>2, <1>3, <1>4

\* The bindings are rows, and the quiet starts are starts.
BindingsInv == BindingTypeOK /\ calm <= starts

\* The rows stay well-formed.
LEMMA BindingsKept ==
    ASSUME CatalogKeys, BindingsInv, [CatalogNext]_catalogVars
    PROVE  BindingsInv' /\ (calm' > calm => StartServer)
  <1>1. /\ binding \in Seq(Binding) /\ calm \in 0..MaxStarts /\ calm <= starts
        /\ starts \in 0..MaxStarts /\ MaxStarts \in Nat /\ MaxEdits \in Nat
        /\ caseBlind \in BOOLEAN /\ edits \in 0..MaxEdits
    BY BoundAssumption, BindingAssumption DEF BindingsInv, BindingTypeOK, CatalogKeys, TypeOK
  <1>2. starts' \in 0..MaxStarts
    BY CatalogKeysKept DEF CatalogKeys, TypeOK
  <1>3. CASE StartServer
    <2>1. calm' = calm + 1 /\ starts' = starts + 1 /\ caseBlind' = caseBlind /\ edits' = edits
      BY <1>3 DEF StartServer, StartBindings, RestartWith
    <2>2. binding' \in Seq(Binding)
      BY <1>1, <1>3, StartSettles
    <2>3. calm' \in 0..MaxStarts /\ calm' <= starts'
      BY <1>1, <1>2, <2>1
    <2> QED
      BY <1>1, <1>3, <2>1, <2>2, <2>3 DEF BindingsInv, BindingTypeOK
  <1>4. CASE binding' \in Seq(Binding) /\ Edit
    <2>1. calm' = 0 /\ caseBlind' = caseBlind /\ edits' = edits + 1 /\ edits < MaxEdits
      BY <1>4 DEF Edit
    <2>2. edits' \in 0..MaxEdits /\ 0 \in 0..MaxStarts /\ 0 <= starts'
      BY <1>1, <1>2, <2>1
    <2> QED
      BY <1>1, <1>4, <2>1, <2>2 DEF BindingsInv, BindingTypeOK
  <1>5. CASE CreateBinding
    <2>1. PICK b \in Binding : Save(Append(binding, b), Len(binding) + 1, b.isDefault)
      BY <1>5 DEF CreateBinding
    <2>2. Append(binding, b) \in Seq(Binding) /\ b.isDefault \in BOOLEAN
      BY <1>1, AppendProperties DEF Binding
    <2> QED
      BY <1>4, <2>1, <2>2, SavedRows
  <1>6. CASE UpdateBinding
    <2>1. PICK n \in DOMAIN binding, row \in Binding, given \in BOOLEAN :
              Save([binding EXCEPT ![n] = row], n, given /\ row.isDefault)
      BY <1>6 DEF UpdateBinding
    <2>2. [binding EXCEPT ![n] = row] \in Seq(Binding)
      BY <1>1, ExceptSeq
    <2> QED
      BY <1>4, <2>1, <2>2, SavedRows
  <1>7. CASE DeleteBinding
    <2>1. PICK n \in DOMAIN binding :
              /\ binding' = SubSeq(binding, 1, n - 1) \o SubSeq(binding, n + 1, Len(binding))
              /\ Edit
      BY <1>7 DEF DeleteBinding
    <2> QED
      BY <1>1, <1>4, <2>1, DeletedRows
  <1>8. CASE TemplateRequest
    BY <1>1, <1>4, <1>8 DEF TemplateRequest
  <1>9. CASE UNCHANGED bindingVars /\ starts' \in {starts, starts + 1}
    BY <1>1, <1>2, <1>9 DEF bindingVars, BindingsInv, BindingTypeOK
  <1>10. StartFails \/ SourceChange \/ (AdminRequest /\ topic = "records") \/ UNCHANGED catalogVars
             => UNCHANGED bindingVars /\ starts' \in {starts, starts + 1}
    BY DEF StartFails, SourceChange, AddAssets, RemoveAssets, UpdateTool, AdminRequest,
           TemplateRequest, BindingRequest, catalogVars, vars
  <1>11. AdminRequest /\ topic # "records" => TemplateRequest \/ BindingRequest
    BY DEF AdminRequest
  <1> QED
    BY <1>3, <1>5, <1>6, <1>7, <1>8, <1>9, <1>10, <1>11 DEF CatalogNext, BindingRequest

\* The invariant of the templates and the bindings holds in every state.
LEMMA BindingsInvariant == CatalogSpec => [](CatalogKeys /\ BindingsInv)
  <1>1. CatalogInit => BindingsInv
    BY BoundAssumption, BindingAssumption DEF CatalogInit, Init, BindingInit, BindingsInv, BindingTypeOK
  <1> QED
    BY <1>1, CatalogKeysInit, CatalogKeysKept, BindingsKept, PTL DEF CatalogSpec

\* After a start every tool and scene with a binding has exactly one default,
\* however many it had before (_seed_tool_prompt_bindings).
THEOREM StartsNormalizeBindings == CatalogSpec => BindingsNormalized
  <1> DEFINE A == \A t \in Tools, s \in Scenes : Group(binding', t, s) # {} =>
                      \E d \in DOMAIN binding' : DefaultsOf(binding', t, s) = {d}
  <1>1. CatalogKeys /\ BindingsInv /\ [CatalogNext]_catalogVars => [calm' > calm => A]_<<vars, bindingVars>>
    <2> SUFFICES ASSUME CatalogKeys, BindingsInv, [CatalogNext]_catalogVars, calm' > calm PROVE A
      OBVIOUS
    <2>1. StartServer
      BY BindingsKept
    <2> QED
      BY <2>1, StartSettles DEF OnlyDefault, BindingsInv, BindingTypeOK
  <1> QED
    BY <1>1, BindingsInvariant, PTL DEF CatalogSpec, BindingsNormalized

\* A start that adds nothing to a tool and scene keeps the one default that an
\* admin chose for it (_seed_tool_prompt_bindings).
THEOREM StartsKeepTheChosen == CatalogSpec => ChosenKept
  <1> DEFINE A == \A t \in Tools, s \in Scenes, d \in DOMAIN binding :
                      DefaultsOf(binding, t, s) = {d} /\ Group(binding', t, s) = Group(binding, t, s)
                      => DefaultsOf(binding', t, s) = {d}
  <1>1. CatalogKeys /\ BindingsInv /\ [CatalogNext]_catalogVars => [calm' > calm => A]_<<vars, bindingVars>>
    <2> SUFFICES ASSUME CatalogKeys, BindingsInv, [CatalogNext]_catalogVars, calm' > calm PROVE A
      OBVIOUS
    <2>1. StartServer
      BY BindingsKept
    <2> SUFFICES ASSUME NEW t \in Tools, NEW s \in Scenes, NEW d \in DOMAIN binding,
                        DefaultsOf(binding, t, s) = {d}, Group(binding', t, s) = Group(binding, t, s)
                 PROVE  DefaultsOf(binding', t, s) = {d}
      OBVIOUS
    <2>2. OnlyDefault(binding, t, s, d)
      BY DEF OnlyDefault
    <2>3. OnlyDefault(binding', t, s, d)
      BY <2>1, <2>2, StartSettles DEF BindingsInv, BindingTypeOK
    <2> QED
      BY <2>3 DEF OnlyDefault
  <1> QED
    BY <1>1, BindingsInvariant, PTL DEF CatalogSpec, ChosenKept

\* No two defaults of one tool and scene, without counting them.
AtMost(rows, t, s) == \A m, n \in DefaultsOf(rows, t, s) : m = n

\* The defaults of a tool and scene can be counted.
LEMMA DefaultsCounted ==
    ASSUME NEW rows \in Seq(Binding), NEW t, NEW s
    PROVE  /\ Cardinality(DefaultsOf(rows, t, s)) \in Nat
           /\ Cardinality(DefaultsOf(rows, t, s)) <= 1 <=> AtMost(rows, t, s)
  <1>1. DefaultsOf(rows, t, s) \subseteq 1..Len(rows)
    BY DEF DefaultsOf, Group
  <1>2. IsFiniteSet(DefaultsOf(rows, t, s))
    BY <1>1, FS_Interval, FS_Subset
  <1> QED
    BY <1>2, FS_CardinalityType, AtMostOne DEF AtMost

\* Rows among the defaults of before do not multiply.
LEMMA FewerDefaults ==
    ASSUME NEW rows, NEW more, NEW t, NEW s, AtMost(more, t, s),
           \A m \in DefaultsOf(rows, t, s) : m \in DefaultsOf(more, t, s)
    PROVE  AtMost(rows, t, s)
  BY DEF AtMost

\* A new default takes the flag from the others of its tool and scene, and from
\* nobody else.
LEMMA DefaultTakes ==
    ASSUME binding \in Seq(Binding), NEW rows \in Seq(Binding), NEW n \in DOMAIN rows,
           \A m \in DOMAIN rows : m # n => m \in DOMAIN binding /\ rows[m] = binding[m],
           Save(rows, n, TRUE), NEW t, NEW s, AtMost(binding, t, s)
    PROVE  AtMost(binding', t, s)
  <1>1. PICK out : out = binding'
    OBVIOUS
  <1>2. /\ DOMAIN out = DOMAIN rows
        /\ \A m \in DOMAIN rows :
              /\ Same(out[m], rows[m]) /\ (out[m].isDefault => rows[m].isDefault)
              /\ m # n /\ m \in Group(rows, rows[n].tool, rows[n].scene) => ~out[m].isDefault
    BY <1>1, SavedRows
  <1>3. CASE n \in Group(rows, t, s)
    <2>1. \A m \in DefaultsOf(out, t, s) : m = n
      BY <1>2, <1>3 DEF DefaultsOf, Group, Same
    <2> QED
      BY <1>1, <2>1 DEF AtMost
  <1>4. CASE n \notin Group(rows, t, s)
    <2>1. \A m \in DefaultsOf(out, t, s) : m \in DefaultsOf(binding, t, s)
      BY <1>2, <1>4 DEF DefaultsOf, Group, Same
    <2> QED
      BY <1>1, <2>1, FewerDefaults
  <1> QED
    BY <1>3, <1>4

\* A request that adds a second default to a tool and scene moved it there.
LEMMA SecondDefault ==
    ASSUME CatalogKeys, BindingsInv, [CatalogNext]_catalogVars, NEW t, NEW s,
           AtMost(binding, t, s), ~AtMost(binding', t, s)
    PROVE  \E n \in DOMAIN binding : /\ n \in DefaultsOf(binding', t, s)
                                     /\ binding[n].isDefault /\ binding[n].scene # s
  <1>1. binding \in Seq(Binding)
    BY DEF BindingsInv, BindingTypeOK
  <1>2. PICK out : out = binding'
    OBVIOUS
  <1>3. ~AtMost(out, t, s)
    BY <1>2
  <1>4. binding' # binding
    BY <1>2, <1>3
  <1>5. ~StartServer
    <2> SUFFICES ASSUME StartServer PROVE AtMost(out, t, s)
      BY <1>3
    <2>1. \A u, v : Group(out, u, v) # {} => \E d \in DOMAIN out : OnlyDefault(out, u, v, d)
      BY <1>1, <1>2, StartSettles
    <2>2. CASE Group(out, t, s) = {}
      BY <2>2 DEF AtMost, DefaultsOf
    <2>3. CASE Group(out, t, s) # {}
      BY <2>1, <2>3 DEF AtMost, OnlyDefault
    <2> QED
      BY <2>2, <2>3
  <1>6. CASE CreateBinding
    <2>1. PICK b \in Binding : Save(Append(binding, b), Len(binding) + 1, b.isDefault)
      BY <1>6 DEF CreateBinding
    <2>2. PICK rows : rows = Append(binding, b)
      OBVIOUS
    <2>3. /\ rows \in Seq(Binding) /\ DOMAIN rows = 1..(Len(binding) + 1) /\ Len(binding) \in Nat
          /\ \A m \in 1..Len(binding) : rows[m] = binding[m]
          /\ rows[Len(binding) + 1] = b
      BY <1>1, <2>2, AppendProperties
    <2>4. \A m \in DOMAIN rows : m # Len(binding) + 1 => m \in DOMAIN binding /\ rows[m] = binding[m]
      BY <1>1, <2>3
    <2>5. CASE b.isDefault
      <3>1. Save(rows, Len(binding) + 1, TRUE)
        BY <2>1, <2>2, <2>5 DEF Binding
      <3>2. Len(binding) + 1 \in DOMAIN rows
        BY <2>3
      <3>3. AtMost(binding', t, s)
        BY <1>1, <2>3, <2>4, <3>1, <3>2, DefaultTakes
      <3> QED
        BY <3>3
    <2>6. CASE ~b.isDefault
      <3>1. out = rows
        BY <1>2, <2>1, <2>2, <2>6 DEF Save
      <3>2. \A m \in DefaultsOf(rows, t, s) : m \in DefaultsOf(binding, t, s)
        BY <2>3, <2>4, <2>6 DEF DefaultsOf, Group
      <3> QED
        BY <1>3, <3>1, <3>2, FewerDefaults
    <2> QED
      BY <2>5, <2>6
  <1>7. CASE UpdateBinding
    <2>1. PICK n \in DOMAIN binding, row \in Binding, given \in BOOLEAN :
              /\ row.tool = binding[n].tool
              /\ given \/ row.isDefault = binding[n].isDefault
              /\ Save([binding EXCEPT ![n] = row], n, given /\ row.isDefault)
      BY <1>7 DEF UpdateBinding
    <2>2. PICK rows : rows = [binding EXCEPT ![n] = row]
      OBVIOUS
    <2>3. /\ rows \in Seq(Binding) /\ DOMAIN rows = DOMAIN binding /\ rows[n] = row
          /\ \A m \in DOMAIN rows : m # n => rows[m] = binding[m]
      BY <1>1, <2>2, ExceptSeq
    <2>4. CASE given /\ row.isDefault
      <3>1. Save(rows, n, TRUE)
        BY <2>1, <2>2, <2>4 DEF Binding
      <3>2. AtMost(binding', t, s)
        BY <1>1, <2>3, <3>1, DefaultTakes
      <3> QED
        BY <3>2
    <2>5. CASE ~(given /\ row.isDefault)
      <3>1. out = rows
        BY <1>2, <2>1, <2>2, <2>5 DEF Save
      <3>2. CASE n \in DefaultsOf(rows, t, s) \ DefaultsOf(binding, t, s)
        <4>1. row.isDefault /\ row.tool = t /\ row.scene = s /\ binding[n].isDefault
          BY <2>1, <2>3, <2>5, <3>2 DEF DefaultsOf, Group
        <4>2. binding[n].scene # s
          BY <2>1, <3>2, <4>1 DEF DefaultsOf, Group
        <4> QED
          BY <1>2, <3>1, <3>2, <4>1, <4>2
      <3>3. CASE n \notin DefaultsOf(rows, t, s) \ DefaultsOf(binding, t, s)
        <4>1. \A m \in DefaultsOf(rows, t, s) : m \in DefaultsOf(binding, t, s)
          BY <2>3, <3>3 DEF DefaultsOf, Group
        <4> QED
          BY <1>3, <3>1, <4>1, FewerDefaults
      <3> QED
        BY <3>2, <3>3
    <2> QED
      BY <2>4, <2>5
  <1>8. CASE DeleteBinding
    <2>1. PICK n \in DOMAIN binding :
              out = SubSeq(binding, 1, n - 1) \o SubSeq(binding, n + 1, Len(binding))
      BY <1>2, <1>8 DEF DeleteBinding
    <2>2. /\ out \in Seq(Binding)
          /\ \A m \in DOMAIN out : Was(m, n) \in DOMAIN binding /\ out[m] = binding[Was(m, n)]
      BY <1>1, <2>1, DeletedRows
    <2>3. \A m \in DefaultsOf(out, t, s) : m \in DOMAIN out /\ Was(m, n) \in DefaultsOf(binding, t, s)
      BY <2>2 DEF DefaultsOf, Group
    <2>4. DOMAIN out \subseteq Nat /\ n \in Nat
      BY <1>1, <2>2
    <2>5. \A k, m \in Nat : Was(k, n) = Was(m, n) => k = m
      BY <2>4 DEF Was
    <2>6. AtMost(out, t, s)
      BY <2>3, <2>4, <2>5 DEF AtMost
    <2> QED
      BY <1>3, <2>6
  <1>9. CreateBinding \/ UpdateBinding \/ DeleteBinding \/ StartServer \/ binding' = binding
    BY DEF CatalogNext, AdminRequest, BindingRequest, TemplateRequest, SourceChange, AddAssets,
           RemoveAssets, UpdateTool, StartFails, bindingVars, catalogVars
  <1> QED
    BY <1>4, <1>5, <1>6, <1>7, <1>8, <1>9

\* A tool and scene gets a second default in one way only: a default binding is
\* moved there without is_default in the payload (update_tool_prompt_binding).
THEOREM SecondDefaultsAreMoved == CatalogSpec => SecondDefaultMoved
  <1> DEFINE A == \A t \in Tools, s \in Scenes :
          Cardinality(DefaultsOf(binding, t, s)) <= 1
          /\ Cardinality(DefaultsOf(binding', t, s)) > 1 =>
              \E n \in DOMAIN binding : /\ n \in DefaultsOf(binding', t, s)
                                        /\ binding[n].isDefault /\ binding[n].scene # s
  <1>1. CatalogKeys /\ BindingsInv /\ [CatalogNext]_catalogVars => [A]_<<vars, bindingVars>>
    <2> SUFFICES ASSUME CatalogKeys, BindingsInv, [CatalogNext]_catalogVars,
                        NEW t \in Tools, NEW s \in Scenes,
                        Cardinality(DefaultsOf(binding, t, s)) <= 1,
                        Cardinality(DefaultsOf(binding', t, s)) > 1
                 PROVE  \E n \in DOMAIN binding : /\ n \in DefaultsOf(binding', t, s)
                                                  /\ binding[n].isDefault /\ binding[n].scene # s
      OBVIOUS
    <2>1. binding \in Seq(Binding) /\ binding' \in Seq(Binding)
      BY BindingsKept DEF BindingsInv, BindingTypeOK
    <2>2. AtMost(binding, t, s)
      BY <2>1, DefaultsCounted
    <2>3. ~AtMost(binding', t, s)
      <3>1. PICK out \in Seq(Binding) : out = binding'
        BY <2>1
      <3>2. Cardinality(DefaultsOf(out, t, s)) > 1
        BY <3>1
      <3>3. ~AtMost(out, t, s)
        BY <3>2, DefaultsCounted
      <3> QED
        BY <3>1, <3>3
    <2> QED
      BY <2>2, <2>3, SecondDefault
  <1> QED
    BY <1>1, BindingsInvariant, PTL DEF CatalogSpec, SecondDefaultMoved

-----------------------------------------------------------------------------
(* Quiet starts: what a start finds if nothing happened since the last one.  *)

\* A row that has the shipped value of every field but is_default.
AsShipped(row) == row = [Shipped[row.key] EXCEPT !.isDefault = row.isDefault]

\* Every built-in template is there as it was shipped.
Restored ==
    /\ \A k \in Builtin : HasKey(template, k)
    /\ \A i \in Live : template[i].key \in Builtin => AsShipped(template[i])

\* Every scene with a shipped default has a default.
Covered ==
    \A k \in Builtin : Shipped[k].isDefault =>
        \E i \in Live : template[i].isDefault /\ template[i].scene = Shipped[k].scene

\* One start brings back the built-in templates and settles the flags of the
\* bindings, a second one gives every scene its default, a third one binds it.
CalmInv ==
    /\ calm >= 1 => Restored /\ OneDefaultPerScene /\ VersionRecorded /\ OneDefaultEach(binding)
    /\ calm >= 2 => Covered
    /\ BindingsCatchUp

\* The flag of a template is a field of its own.
LEMMA TemplateFlag ==
    ASSUME NEW row \in Row, NEW flag \in BOOLEAN
    PROVE  /\ [row EXCEPT !.isDefault = flag] \in Row
           /\ [row EXCEPT !.isDefault = flag].key = row.key
           /\ [row EXCEPT !.isDefault = flag].scene = row.scene
           /\ [row EXCEPT !.isDefault = flag].isDefault = flag
           /\ \A f \in BOOLEAN :
                 [[row EXCEPT !.isDefault = flag] EXCEPT !.isDefault = f] = [row EXCEPT !.isDefault = f]
           /\ [row EXCEPT !.isDefault = row.isDefault] = row
  BY DEF Row

\* A shipped row with any flag is as it was shipped.
LEMMA ShippedWithFlag ==
    ASSUME NEW k \in Builtin, NEW flag \in BOOLEAN, NEW row,
           row = [Shipped[k] EXCEPT !.isDefault = flag]
    PROVE  row \in Row /\ row.key = k /\ row.scene = Shipped[k].scene /\ AsShipped(row)
  <1>1. PICK own : own = Shipped[k]
    OBVIOUS
  <1>2. own \in Row /\ own.key = k
    BY <1>1, ShippedAssumption DEF Builtin
  <1>3. row = [own EXCEPT !.isDefault = flag]
    BY <1>1
  <1>4. row \in Row /\ row.key = k /\ row.scene = own.scene /\ row.isDefault = flag
    BY <1>2, <1>3 DEF Row
  <1>5. row = [Shipped[row.key] EXCEPT !.isDefault = row.isDefault]
    BY <1>1, <1>3, <1>4
  <1> QED
    BY <1>1, <1>4, <1>5 DEF AsShipped

\* A shipped row is as it was shipped.
LEMMA ShippedItself ==
    ASSUME NEW k \in Builtin
    PROVE  Shipped[k] \in Row /\ Shipped[k].key = k /\ AsShipped(Shipped[k])
  <1>1. PICK own : own = Shipped[k]
    OBVIOUS
  <1>2. own \in Row /\ own.key = k
    BY <1>1, ShippedAssumption DEF Builtin
  <1>3. own.isDefault \in BOOLEAN
    BY <1>2 DEF Row
  <1>4. own = [own EXCEPT !.isDefault = own.isDefault]
    BY <1>2, <1>3, TemplateFlag
  <1>5. own = [Shipped[own.key] EXCEPT !.isDefault = own.isDefault]
    BY <1>1, <1>2, <1>4
  <1> QED
    BY <1>1, <1>2, <1>5 DEF AsShipped

\* What the bootstrap makes of the rows before it settles the flags.
LEMMA ResetRestores ==
    ASSUME TypeOK, NEW ids \in FreshIds, NEW tab, tab = Reset(ids)
    PROVE  /\ \A i \in Ids : tab[i] # None /\ tab[i].key \in Builtin => AsShipped(tab[i])
           /\ \A k \in Builtin : HasKey(tab, k)
           /\ Restored => tab = template
  <1>1. /\ template \in [Ids -> Row \cup {None}]
        /\ \A i \in Live : i \in Ids /\ template[i] \in Row /\ template[i].isDefault \in BOOLEAN
    BY DEF TypeOK, Live, Row
  <1>2. /\ ids \in [MissingKeys -> Ids \ Live] /\ MissingKeys \subseteq Builtin
        /\ \A k, l \in MissingKeys : ids[k] = ids[l] => k = l
    BY DEF FreshIds, MissingKeys
  <1>3. tab = [i \in Ids |->
                  IF i \in Live
                  THEN IF template[i].key \in Builtin
                       THEN [Shipped[template[i].key] EXCEPT !.isDefault = template[i].isDefault]
                       ELSE template[i]
                  ELSE IF \E k \in DOMAIN ids : ids[k] = i
                       THEN Shipped[CHOOSE k \in DOMAIN ids : ids[k] = i]
                       ELSE None]
    BY DEF Reset
  <1>4. ASSUME NEW i \in Live, template[i].key \in Builtin
        PROVE  /\ tab[i] = [Shipped[template[i].key] EXCEPT !.isDefault = template[i].isDefault]
               /\ tab[i] \in Row /\ tab[i].key = template[i].key /\ AsShipped(tab[i])
    <2>1. tab[i] = [Shipped[template[i].key] EXCEPT !.isDefault = template[i].isDefault]
      BY <1>1, <1>3, <1>4
    <2>2. template[i].isDefault \in BOOLEAN
      BY <1>1
    <2>3. PICK row : row = tab[i]
      OBVIOUS
    <2>4. row \in Row /\ row.key = template[i].key /\ AsShipped(row)
      BY <1>4, <2>1, <2>2, <2>3, ShippedWithFlag
    <2> QED
      BY <2>1, <2>3, <2>4
  <1>5. \A i \in Live : template[i].key \notin Builtin => tab[i] = template[i]
    BY <1>1, <1>3
  <1>6. ASSUME NEW i \in Ids \ Live, tab[i] # None
        PROVE  \E k \in MissingKeys : tab[i] = Shipped[k]
    <2> DEFINE k == CHOOSE k \in DOMAIN ids : ids[k] = i
    <2>1. \E l \in DOMAIN ids : ids[l] = i
      BY <1>3, <1>6
    <2>2. tab[i] = Shipped[k]
      BY <1>3, <2>1
    <2>3. k \in DOMAIN ids
      BY <2>1
    <2> HIDE DEF k
    <2> QED
      BY <1>2, <2>2, <2>3
  <1>7. ASSUME NEW k \in MissingKeys
        PROVE  ids[k] \in Ids /\ tab[ids[k]] = Shipped[k]
    <2> DEFINE found == CHOOSE l \in DOMAIN ids : ids[l] = ids[k]
    <2>1. k \in DOMAIN ids /\ ids[k] \in Ids \ Live
      BY <1>2
    <2>2. found \in DOMAIN ids /\ ids[found] = ids[k]
      BY <2>1
    <2>3. tab[ids[k]] = Shipped[found]
      BY <1>3, <2>1
    <2> HIDE DEF found
    <2>4. found = k
      BY <1>2, <2>1, <2>2
    <2> QED
      BY <2>1, <2>3, <2>4
  <1>8. ASSUME NEW i \in Ids, tab[i] # None, tab[i].key \in Builtin
        PROVE  AsShipped(tab[i])
    <2>1. CASE i \in Live
      BY <1>4, <1>5, <1>8, <2>1
    <2>2. CASE i \notin Live
      <3>1. PICK k \in MissingKeys : tab[i] = Shipped[k]
        BY <1>6, <1>8, <2>2
      <3>2. AsShipped(Shipped[k])
        BY <1>2, ShippedItself
      <3> QED
        BY <3>1, <3>2
    <2> QED
      BY <2>1, <2>2
  <1>9. ASSUME NEW k \in Builtin PROVE HasKey(tab, k)
    <2>1. CASE k \in MissingKeys
      <3>1. ids[k] \in Ids /\ tab[ids[k]] \in Row /\ tab[ids[k]].key = k
        BY <1>7, <2>1, ShippedItself
      <3> QED
        BY <3>1, NoneAssumption DEF HasKey
    <2>2. CASE k \notin MissingKeys
      <3>1. PICK i \in Ids : template[i] # None /\ template[i].key = k
        BY <2>2 DEF MissingKeys, HasKey
      <3>2. tab[i] \in Row /\ tab[i].key = k
        BY <1>4, <3>1 DEF Live
      <3> QED
        BY <3>2, NoneAssumption DEF HasKey
    <2> QED
      BY <2>1, <2>2
  <1>10. ASSUME Restored PROVE tab = template
    <2>1. MissingKeys = {}
      BY <1>10 DEF Restored, MissingKeys
    <2>2. \A i \in Live : tab[i] = template[i]
      BY <1>4, <1>5, <1>10 DEF Restored, AsShipped
    <2>3. \A i \in Ids \ Live : tab[i] = None /\ template[i] = None
      BY <1>6, <2>1 DEF Live
    <2>4. \A i \in Ids : tab[i] = template[i]
      BY <2>2, <2>3
    <2> QED
      BY <1>1, <1>3, <2>4
  <1> QED
    BY <1>8, <1>9, <1>10

\* The default templates of a scene.
Defaults(s) == {i \in Live : template[i].scene = s /\ template[i].isDefault}

\* Which template of a scene the bootstrap prefers: a default of before, else a
\* shipped one.
LEMMA Preferred ==
    ASSUME TypeOK, NEW map \in SceneDefaultMaps, NEW s \in Scenes
    PROVE  /\ Defaults(s) # {} =>
                 \E i \in Defaults(s) : PreferredKey(map, s) = template[i].key
           /\ Defaults(s) = {} =>
                 \/ /\ PreferredKey(map, s) \in Builtin
                    /\ Shipped[PreferredKey(map, s)].scene = s
                    /\ Shipped[PreferredKey(map, s)].isDefault
                 \/ /\ PreferredKey(map, s) = None
                    /\ ~\E k \in Builtin : Shipped[k].scene = s /\ Shipped[k].isDefault
  <1> DEFINE keys == {template[i].key : i \in Defaults(s)}
             shipped == {k \in Builtin : Shipped[k].scene = s /\ Shipped[k].isDefault}
  <1>1. IF keys = {} THEN map[s] = None ELSE map[s] \in keys
    BY DEF SceneDefaultMaps, Defaults
  <1>2. \A i \in Defaults(s) : template[i].key \in Keys /\ template[i].key # None
    BY NoneAssumption DEF Defaults, Live, TypeOK, Row
  <1>3. PreferredKey(map, s) = IF map[s] # None THEN map[s]
                               ELSE IF shipped # {} THEN CHOOSE k \in shipped : TRUE ELSE None
    BY DEF PreferredKey
  <1>4. CASE Defaults(s) # {}
    <2>1. map[s] \in keys
      BY <1>1, <1>4
    <2>2. PICK i \in Defaults(s) : map[s] = template[i].key
      BY <2>1
    <2>3. PreferredKey(map, s) = template[i].key
      BY <1>2, <1>3, <2>2
    <2> QED
      BY <1>4, <2>3
  <1>5. CASE Defaults(s) = {}
    <2>1. map[s] = None
      BY <1>1, <1>5
    <2>2. PreferredKey(map, s) = IF shipped # {} THEN CHOOSE k \in shipped : TRUE ELSE None
      BY <1>3, <2>1
    <2>3. shipped # {} => (CHOOSE k \in shipped : TRUE) \in shipped
      OBVIOUS
    <2>4. shipped # {} => PreferredKey(map, s) \in shipped
      BY <2>2, <2>3
    <2>5. shipped = {} => PreferredKey(map, s) = None
      BY <2>2
    <2> QED
      BY <1>5, <2>4, <2>5
  <1> QED
    BY <1>4, <1>5

\* After any start the built-in templates are as they were shipped.
LEMMA StartRestores ==
    ASSUME CatalogKeys, NEW ids \in FreshIds, RestartWith(ids)
    PROVE  Restored'
  <1>0. TypeOK
    BY DEF CatalogKeys
  <1>1. PICK map \in SceneDefaultMaps : template' = Normalize(Reset(ids), map)
    BY DEF RestartWith
  <1>2. PICK tab : tab = Reset(ids)
    OBVIOUS
  <1>3. /\ tab \in [Ids -> Row \cup {None}] /\ template' = Normalize(tab, map)
        /\ \A i \in Ids : tab[i] # None /\ tab[i].key \in Builtin => AsShipped(tab[i])
        /\ \A k \in Builtin : HasKey(tab, k)
    BY <1>0, <1>1, <1>2, ResetRows, ResetRestores
  <1>4. PICK far : far = template'
    OBVIOUS
  <1>5. \A i \in Ids : /\ tab[i] # None => far[i] # None
                       /\ far[i] # None => tab[i] # None /\ far[i].key = tab[i].key
    BY <1>3, <1>4, NormalizeRows, NormalizeKeys
  <1>6. \A k \in Builtin : HasKey(far, k)
    BY <1>3, <1>5 DEF HasKey
  <1>7. ASSUME NEW i \in Ids, far[i] # None, far[i].key \in Builtin
        PROVE  AsShipped(far[i])
    <2> DEFINE flag == tab[i].key = PreferredKey(map, tab[i].scene)
    <2>1. tab[i] \in Row /\ tab[i] # None /\ tab[i].key \in Builtin
      BY <1>3, <1>5, <1>7
    <2>2. far[i] = [tab[i] EXCEPT !.isDefault = flag]
      BY <1>3, <1>4, <2>1 DEF Normalize
    <2>3. tab[i] = [Shipped[tab[i].key] EXCEPT !.isDefault = tab[i].isDefault]
      BY <1>3, <2>1 DEF AsShipped
    <2>4. flag \in BOOLEAN /\ tab[i].isDefault \in BOOLEAN
      BY <2>1 DEF Row
    <2> HIDE DEF flag
    <2>5. PICK own : own = Shipped[tab[i].key]
      OBVIOUS
    <2>6. own \in Row
      BY <2>1, <2>5, ShippedItself
    <2>7. far[i] = [[own EXCEPT !.isDefault = tab[i].isDefault] EXCEPT !.isDefault = flag]
      BY <2>2, <2>3, <2>5
    <2>8. far[i] = [own EXCEPT !.isDefault = flag]
      BY <2>4, <2>6, <2>7, TemplateFlag
    <2> QED
      BY <2>1, <2>4, <2>5, <2>8, ShippedWithFlag
  <1> QED
    BY <1>4, <1>6, <1>7 DEF Restored, Live

\* From the second quiet start on only the flags can change.
LEMMA QuietStart ==
    ASSUME CatalogKeys, Restored, NEW ids \in FreshIds, RestartWith(ids)
    PROVE  \E map \in SceneDefaultMaps :
              /\ template' = Normalize(template, map)
              /\ version' = AddSnapshots(template')
  <1>1. PICK map \in SceneDefaultMaps :
            template' = Normalize(Reset(ids), map) /\ version' = AddSnapshots(template')
    BY DEF RestartWith
  <1>2. PICK tab : tab = Reset(ids)
    OBVIOUS
  <1>3. tab = template
    BY <1>2, ResetRestores DEF CatalogKeys
  <1> QED
    BY <1>1, <1>2, <1>3

\* The second quiet start gives every scene with a shipped default a default.
LEMMA StartCovers ==
    ASSUME CatalogKeys, Restored, NEW ids \in FreshIds, RestartWith(ids)
    PROVE  Covered'
  <1>0. TypeOK /\ template \in [Ids -> Row \cup {None}]
    BY DEF CatalogKeys, TypeOK
  <1>1. PICK map \in SceneDefaultMaps : template' = Normalize(template, map)
    BY QuietStart
  <1>2. PICK far : far = template'
    OBVIOUS
  <1>3. \A i \in Ids : /\ template[i] # None => far[i] # None
                       /\ far[i] # None =>
                              /\ far[i].scene = template[i].scene
                              /\ far[i].isDefault <=>
                                     template[i].key = PreferredKey(map, template[i].scene)
    BY <1>0, <1>1, <1>2, NormalizeRows, NormalizeKeys
  <1>4. ASSUME NEW k \in Builtin, Shipped[k].isDefault
        PROVE  \E i \in Ids : far[i] # None /\ far[i].isDefault /\ far[i].scene = Shipped[k].scene
    <2> DEFINE s == Shipped[k].scene
    <2>1. s \in Scenes
      BY ShippedItself DEF Row
    <2>2. \E i \in Live : template[i].scene = s /\ template[i].key = PreferredKey(map, s)
      <3>1. CASE Defaults(s) # {}
        <4>1. PICK i \in Defaults(s) : PreferredKey(map, s) = template[i].key
          BY <1>0, <2>1, <3>1, Preferred
        <4> QED
          BY <4>1 DEF Defaults
      <3>2. CASE Defaults(s) = {}
        <4>1. PICK l \in Builtin : PreferredKey(map, s) = l /\ Shipped[l].scene = s
          BY <1>0, <1>4, <2>1, <3>2, Preferred
        <4>2. PICK i \in Live : template[i].key = l
          BY DEF Restored, HasKey, Live
        <4>3. template[i] = [Shipped[l] EXCEPT !.isDefault = template[i].isDefault]
          BY <4>2 DEF Restored, AsShipped
        <4>4. template[i].isDefault \in BOOLEAN
          BY <1>0 DEF Live, Row
        <4>5. template[i].scene = s
          BY <4>1, <4>3, <4>4, ShippedWithFlag
        <4> QED
          BY <4>1, <4>2, <4>5
      <3> QED
        BY <3>1, <3>2
    <2>3. PICK i \in Live : template[i].scene = s /\ template[i].key = PreferredKey(map, s)
      BY <2>2
    <2> QED
      BY <1>3, <2>3 DEF Live
  <1> QED
    BY <1>2, <1>4 DEF Covered, Live

\* From the third quiet start on nothing of the templates changes.
LEMMA StartFinds ==
    ASSUME CatalogKeys, Restored, OneDefaultPerScene, VersionRecorded, Covered,
           NEW ids \in FreshIds, RestartWith(ids)
    PROVE  template' = template /\ version' = version
  <1>0. /\ TypeOK /\ template \in [Ids -> Row \cup {None}] /\ UniqueKeys(template)
        /\ version \in [Ids -> [Versions -> Snap \cup {None}]]
    BY DEF CatalogKeys, TypeOK
  <1>1. PICK map \in SceneDefaultMaps :
            template' = Normalize(template, map) /\ version' = AddSnapshots(template')
    BY QuietStart
  <1>2. ASSUME NEW i \in Live
        PROVE  template[i].isDefault <=> template[i].key = PreferredKey(map, template[i].scene)
    <2> DEFINE s == template[i].scene
    <2>1. s \in Scenes /\ template[i].key \in Keys /\ template[i].key # None
      BY <1>0, NoneAssumption DEF Live, Row
    <2>2. CASE Defaults(s) # {}
      <3>1. PICK j \in Defaults(s) : PreferredKey(map, s) = template[j].key
        BY <1>0, <2>1, <2>2, Preferred
      <3>2. template[i].isDefault => i = j
        BY <3>1 DEF OneDefaultPerScene, Defaults
      <3>3. template[i].key = template[j].key => i = j
        BY <1>0, <3>1 DEF UniqueKeys, Defaults, Live
      <3> QED
        BY <3>1, <3>2, <3>3 DEF Defaults
    <2>3. CASE Defaults(s) = {}
      <3>1. ~\E k \in Builtin : Shipped[k].scene = s /\ Shipped[k].isDefault
        BY <2>3 DEF Covered, Defaults
      <3>2. ~template[i].isDefault
        BY <2>3 DEF Defaults
      <3>3. ASSUME template[i].key = PreferredKey(map, s) PROVE FALSE
        <4>1. PreferredKey(map, s) = None
          BY <1>0, <2>1, <2>3, <3>1, Preferred
        <4> QED
          BY <2>1, <3>3, <4>1
      <3> QED
        BY <3>2, <3>3
    <2> QED
      BY <2>2, <2>3
  <1>3. ASSUME NEW i \in Ids PROVE Normalize(template, map)[i] = template[i]
    <2> DEFINE flag == template[i].key = PreferredKey(map, template[i].scene)
    <2>1. CASE template[i] = None
      BY <2>1 DEF Normalize
    <2>2. CASE template[i] # None
      <3>1. Normalize(template, map)[i] = [template[i] EXCEPT !.isDefault = flag]
        BY <2>2 DEF Normalize
      <3>2. template[i] \in Row /\ template[i].isDefault \in BOOLEAN
        BY <1>0, <2>2 DEF Row
      <3>3. flag = template[i].isDefault
        BY <1>2, <2>2, <3>2 DEF Live
      <3> HIDE DEF flag
      <3>4. Normalize(template, map)[i] = [template[i] EXCEPT !.isDefault = template[i].isDefault]
        BY <3>1, <3>3
      <3> QED
        BY <3>2, <3>4, TemplateFlag
    <2> QED
      BY <2>1, <2>2
  <1>4. template' = template
    <2>1. Normalize(template, map) \in [Ids -> Row \cup {None}]
      BY <1>0, NormalizeRows
    <2> QED
      BY <1>0, <1>1, <1>3, <2>1
  <1>5. ASSUME NEW i \in Ids, NEW v \in Versions
        PROVE  AddSnapshots(template)[i][v] = version[i][v]
    <2>1. template[i] # None /\ template[i].version = v => version[i][v] # None
      BY <1>0 DEF VersionRecorded, Live
    <2> QED
      BY <2>1 DEF AddSnapshots
  <1>6. AddSnapshots(template) = version
    <2>1. AddSnapshots(template) = [i \in Ids |-> [v \in Versions |-> AddSnapshots(template)[i][v]]]
      BY DEF AddSnapshots
    <2>2. version = [i \in Ids |-> [v \in Versions |-> version[i][v]]]
      BY <1>0
    <2> QED
      BY <1>5, <2>1, <2>2
  <1> QED
    BY <1>1, <1>4, <1>6

\* With the flags settled the bootstrap binds the one default of a scene.
LEMMA BindsTheDefault ==
    ASSUME OneDefaultPerScene, NEW n \in DOMAIN DefaultBindings
    PROVE  /\ \A i \in Live :
                 template[i].isDefault /\ template[i].scene = DefaultBindings[n][2] =>
                     /\ SceneDefaults(template, DefaultBindings[n][2]) # {}
                     /\ BindingFor(template, DefaultBindings[n]) =
                            [tool |-> DefaultBindings[n][1], scene |-> DefaultBindings[n][2],
                             isDefault |-> TRUE, template |-> i]
           /\ SceneDefaults(template, DefaultBindings[n][2]) # {} =>
                 \E i \in Live : template[i].isDefault /\ template[i].scene = DefaultBindings[n][2]
  <1> DEFINE pair == DefaultBindings[n]
             found == SceneDefaults(template, pair[2])
             last == CHOOSE i \in found : \A j \in found : j <= i
  <1>1. found = {i \in Live : template[i].isDefault /\ template[i].scene = pair[2]}
    BY DEF SceneDefaults, Live
  <1>2. BindingFor(template, pair) =
            [tool |-> pair[1], scene |-> pair[2], isDefault |-> TRUE, template |-> last]
    BY DEF BindingFor
  <1>3. ASSUME NEW i \in Live, template[i].isDefault, template[i].scene = pair[2]
        PROVE  found # {} /\ last = i
    <2>1. i \in found /\ \A j \in found : j = i
      BY <1>1, <1>3 DEF OneDefaultPerScene
    <2>2. i \in Ids /\ i <= i
      BY BindingAssumption DEF Live
    <2> HIDE DEF found
    <2> QED
      BY <2>1, <2>2
  <1> HIDE DEF last
  <1> QED
    BY <1>1, <1>2, <1>3

\* A start that finds the templates in order binds every default pair.
LEMMA StartBinds ==
    ASSUME BindingsInv, OneDefaultPerScene, StartBindings(template),
           NEW n \in DOMAIN DefaultBindings, NEW i \in Live,
           template[i].isDefault, template[i].scene = DefaultBindings[n][2]
    PROVE  \E m \in DOMAIN binding' :
              Same(binding'[m], [tool |-> DefaultBindings[n][1],
                                 scene |-> DefaultBindings[n][2], template |-> i])
  <1> DEFINE want == [tool |-> DefaultBindings[n][1], scene |-> DefaultBindings[n][2], template |-> i]
  <1>1. binding \in Seq(Binding)
    BY DEF BindingsInv, BindingTypeOK
  <1>2. PICK rows \in Seq(Binding) :
            Added(template, rows, Len(DefaultBindings)) /\ binding' = NormalizeBindings(rows)
    BY <1>1, StartRows
  <1>3. PICK row : row = BindingFor(template, DefaultBindings[n])
    OBVIOUS
  <1>4. /\ SceneDefaults(template, DefaultBindings[n][2]) # {}
        /\ row = [tool |-> DefaultBindings[n][1], scene |-> DefaultBindings[n][2],
                  isDefault |-> TRUE, template |-> i]
    BY <1>3, BindsTheDefault
  <1>5. \A b : Same(b, row) => Same(b, want)
    BY <1>4 DEF Same
  <1> HIDE DEF want
  <1>6. n \in 1..Len(DefaultBindings)
    BY BindingAssumption
  <1>7. \E m \in DOMAIN rows : Same(rows[m], row)
    <2>1. CASE Wanted(template, DefaultBindings[n])
      <3>1. \E m \in DOMAIN rows : rows[m] = row
        BY <1>2, <1>3, <1>6, <2>1 DEF Added
      <3> QED
        BY <3>1 DEF Same
    <2>2. CASE ~Wanted(template, DefaultBindings[n])
      <3>1. PICK m \in DOMAIN binding : Same(binding[m], row)
        BY <1>3, <1>4, <2>2 DEF Wanted
      <3>2. m \in DOMAIN rows /\ rows[m] = binding[m]
        BY <1>1, <1>2, <3>1 DEF Added
      <3> QED
        BY <3>1, <3>2
    <2> QED
      BY <2>1, <2>2
  <1>8. PICK m \in DOMAIN rows : Same(rows[m], row)
    BY <1>7
  <1>9. PICK out : out = binding'
    OBVIOUS
  <1>10. DOMAIN out = DOMAIN rows /\ Same(out[m], rows[m])
    BY <1>2, <1>9, NormalizedRows
  <1>11. Same(out[m], row)
    BY <1>8, <1>10 DEF Same
  <1>12. m \in DOMAIN out /\ Same(out[m], want)
    BY <1>5, <1>10, <1>11
  <1> QED
    BY <1>9, <1>12 DEF want

\* A start that finds everything bound changes no binding.
LEMMA StartBindsNothing ==
    ASSUME BindingsInv, OneDefaultPerScene, OneDefaultEach(binding),
           StartBindings(template), calm >= 3, BindingsCatchUp
    PROVE  binding' = binding
  <1>1. binding \in Seq(Binding)
    BY DEF BindingsInv, BindingTypeOK
  <1>2. PICK rows \in Seq(Binding) :
            Added(template, rows, Len(DefaultBindings)) /\ binding' = NormalizeBindings(rows)
    BY <1>1, StartRows
  <1>3. ASSUME NEW n \in 1..Len(DefaultBindings), Wanted(template, DefaultBindings[n])
        PROVE  FALSE
    <2>1. n \in DOMAIN DefaultBindings
      BY BindingAssumption
    <2>2. PICK row : row = BindingFor(template, DefaultBindings[n])
      OBVIOUS
    <2>3. PICK i \in Live : template[i].isDefault /\ template[i].scene = DefaultBindings[n][2]
      BY <1>3, <2>1, BindsTheDefault DEF Wanted
    <2>4. row = [tool |-> DefaultBindings[n][1], scene |-> DefaultBindings[n][2],
                 isDefault |-> TRUE, template |-> i]
      BY <2>1, <2>2, <2>3, BindsTheDefault
    <2>5. PICK m \in DOMAIN binding :
              Same(binding[m], [tool |-> DefaultBindings[n][1],
                                scene |-> DefaultBindings[n][2], template |-> i])
      BY <2>1, <2>3 DEF BindingsCatchUp
    <2>6. Same(binding[m], row)
      BY <2>4, <2>5 DEF Same
    <2> QED
      BY <1>3, <2>2, <2>6 DEF Wanted
  <1>4. Len(rows) = Len(binding) /\ \A m \in 1..Len(rows) : rows[m] = binding[m]
    <2>1. Len(binding) \in Nat /\ Len(rows) \in Nat /\ Len(binding) <= Len(rows)
      BY <1>1, <1>2 DEF Added
    <2>2. ~(Len(binding) < Len(rows))
      <3> SUFFICES ASSUME Len(binding) < Len(rows) PROVE FALSE
        OBVIOUS
      <3>1. Len(rows) \in Len(binding) + 1 .. Len(rows)
        BY <2>1
      <3> QED
        BY <1>2, <1>3, <3>1 DEF Added
    <2>3. DOMAIN binding = 1..Len(binding)
      BY <1>1
    <2> QED
      BY <1>2, <2>1, <2>2, <2>3 DEF Added
  <1>5. rows = binding
    BY <1>1, <1>2, <1>4, SeqEqual
  <1>6. PICK out : out = binding'
    OBVIOUS
  <1>7. out = NormalizeBindings(binding)
    BY <1>2, <1>5, <1>6
  <1>8. out = binding
    BY <1>1, <1>7, NormalizedRows
  <1> QED
    BY <1>6, <1>8

\* What the next start finds already done.
LEMMA StartCalms ==
    ASSUME CatalogKeys, BindingsInv, CalmInv, StartServer
    PROVE  /\ calm >= 2 => template' = template /\ version' = version
           /\ calm >= 3 => binding' = binding
  <1>1. calm \in Int
    BY DEF BindingsInv, BindingTypeOK
  <1>2. PICK ids \in FreshIds : RestartWith(ids) /\ StartBindings(Reset(ids))
    BY StartRestarts
  <1>3. ASSUME calm >= 2 PROVE template' = template /\ version' = version
    BY <1>1, <1>2, <1>3, StartFinds DEF CalmInv
  <1>4. ASSUME calm >= 1 PROVE StartBindings(template)
    <2>1. PICK tab : tab = Reset(ids)
      OBVIOUS
    <2>2. tab = template
      BY <1>4, <2>1, ResetRestores DEF CalmInv, CatalogKeys
    <2> QED
      BY <1>2, <2>1, <2>2
  <1>5. ASSUME calm >= 3 PROVE binding' = binding
    BY <1>1, <1>4, <1>5, StartBindsNothing DEF CalmInv
  <1> QED
    BY <1>3, <1>5

\* Every start does its part, and every request begins anew.
LEMMA CalmKept ==
    ASSUME CatalogKeys, BindingsInv, CalmInv, [CatalogNext]_catalogVars
    PROVE  CalmInv'
  <1>0. calm \in Nat /\ calm <= MaxStarts /\ BindingsInv'
    BY BindingsKept, BoundAssumption DEF BindingsInv, BindingTypeOK
  <1>1. CASE StartServer
    <2>1. PICK ids \in FreshIds : RestartWith(ids) /\ StartBindings(Reset(ids))
      BY <1>1, StartRestarts
    <2>0. calm' = calm + 1
      BY <2>1 DEF StartBindings
    <2>2. Restored' /\ OneDefaultPerScene' /\ VersionRecorded'
      BY <2>1, StartRestores, StartKeys
    <2>3. OneDefaultEach(binding')
      <3>1. PICK out : out = binding'
        OBVIOUS
      <3>2. \A t, s : Group(out, t, s) # {} => \E d \in DOMAIN out : OnlyDefault(out, t, s, d)
        BY <1>1, <3>1, StartSettles DEF BindingsInv, BindingTypeOK
      <3>3. \A n \in DOMAIN out : Group(out, out[n].tool, out[n].scene) # {}
        BY DEF Group
      <3> QED
        BY <3>1, <3>2, <3>3 DEF OneDefaultEach
    <2>4. calm' >= 2 => Covered'
      BY <1>0, <2>0, <2>1, StartCovers DEF CalmInv
    <2>5. BindingsCatchUp'
      <3> SUFFICES ASSUME calm >= 2 PROVE BindingsCatchUp'
        BY <1>0, <2>0 DEF BindingsCatchUp
      <3>1. template' = template /\ OneDefaultPerScene
        BY <1>0, <1>1, StartCalms DEF CalmInv
      <3>4. StartBindings(template)
        <4>1. PICK tab : tab = Reset(ids)
          OBVIOUS
        <4>2. tab = template
          BY <1>0, <4>1, ResetRestores DEF CalmInv, CatalogKeys
        <4> QED
          BY <2>1, <4>1, <4>2
      <3>2. Live' = Live
        BY <3>1 DEF Live
      <3>3. ASSUME NEW n \in DOMAIN DefaultBindings, NEW i \in Live,
                   template[i].isDefault, template[i].scene = DefaultBindings[n][2]
            PROVE  \E m \in DOMAIN binding' :
                      Same(binding'[m], [tool |-> DefaultBindings[n][1],
                                         scene |-> DefaultBindings[n][2], template |-> i])
        BY <3>1, <3>3, <3>4, StartBinds
      <3> QED
        BY <3>1, <3>2, <3>3 DEF BindingsCatchUp
    <2> QED
      BY <2>2, <2>3, <2>4, <2>5 DEF CalmInv
  <1>2. CASE calm' = 0
    BY <1>2 DEF CalmInv, BindingsCatchUp
  <1>3. CASE UNCHANGED <<template, version, binding, calm>>
    BY <1>3 DEF CalmInv, BindingsCatchUp, Restored, Covered, OneDefaultPerScene, VersionRecorded,
                Live, HasKey, AsShipped, OneDefaultEach
  <1>4. StartServer \/ calm' = 0 \/ UNCHANGED <<template, version, binding, calm>>
    BY DEF CatalogNext, AdminRequest, TemplateRequest, BindingRequest, CreateBinding, UpdateBinding,
           DeleteBinding, Save, Edit, StartFails, SourceChange, AddAssets, RemoveAssets, UpdateTool,
           catalogVars, bindingVars, vars
  <1> QED
    BY <1>1, <1>2, <1>3, <1>4

\* Before the first start no start was quiet.
LEMMA CalmInitInv == CatalogInit => CalmInv
  BY DEF CatalogInit, BindingInit, CalmInv, BindingsCatchUp

\* After quiet starts there is less and less to do.
LEMMA CalmInvariant == CatalogSpec => []CalmInv
  BY CalmInitInv, CalmKept, BindingsInvariant, PTL DEF CatalogSpec

\* After three starts in a row every default pair is bound to the default
\* template of its scene, whatever requests left behind before
\* (_seed_prompt_templates, _seed_tool_prompt_bindings).
THEOREM BindingsFollow == CatalogSpec => []BindingsCatchUp
  <1>1. CalmInv => BindingsCatchUp
    BY DEF CalmInv
  <1> QED
    BY <1>1, CalmInvariant, PTL

\* The bootstrap comes to rest: the third start in a row changes no template, the
\* fourth no binding, and neither does any after it (bootstrap_admin_catalog).
THEOREM BootstrapComesToRest == CatalogSpec => BootstrapSettles
  <1> DEFINE A == calm' > calm => /\ calm >= 2 => UNCHANGED <<template, version>>
                                  /\ calm >= 3 => UNCHANGED binding
  <1>1. CatalogKeys /\ BindingsInv /\ CalmInv /\ [CatalogNext]_catalogVars => [A]_<<vars, bindingVars>>
    BY BindingsKept, StartCalms
  <1> QED
    BY <1>1, BindingsInvariant, CalmInvariant, PTL DEF CatalogSpec, BootstrapSettles

-----------------------------------------------------------------------------
(* The templates after a start, with the rest of the catalog around them.    *)

\* Whatever keys, scenes, versions and flags requests left behind, between a
\* start that succeeds and the next request every scene has at most one default
\* template and every template its snapshot, and the built-in templates are as
\* they were shipped (_seed_prompt_templates in bootstrap_admin_catalog).
THEOREM StartsPutTemplatesInOrder ==
    CatalogSpec => [](calm >= 1 => OneDefaultPerScene /\ VersionRecorded /\ Restored)
  <1>1. CalmInv => (calm >= 1 => OneDefaultPerScene /\ VersionRecorded /\ Restored)
    BY DEF CalmInv
  <1> QED
    BY <1>1, CalmInvariant, PTL

\* Every table of the catalog only ever holds well-formed rows, and a server that
\* runs has all its tools.
THEOREM CatalogTypeCorrect == CatalogSpec => []CatalogTypeOK
  <1> DEFINE RestTypeOK ==
        /\ topic \in Topics
        /\ up \in BOOLEAN
        /\ assets \subseteq known /\ known \subseteq Assets
        /\ sources \subseteq {Fold[x] : x \in Names}
        /\ tables \subseteq sources \X Names \X Names
        /\ tool \in [Tools -> ToolRow \cup {None}]
        /\ up => tool \in [Tools -> ToolRow]
        /\ jobs \subseteq BasicJobs
  <1>1. CatalogInit => RestTypeOK
    BY DEF CatalogInit
  <1>2. RestTypeOK /\ [CatalogNext]_catalogVars => RestTypeOK'
    <2> SUFFICES ASSUME RestTypeOK, [CatalogNext]_catalogVars PROVE RestTypeOK'
      OBVIOUS
    <2>1. CASE StartServer
      <3>1. /\ UNCHANGED <<topic, assets, known>> /\ up' = TRUE /\ jobs' = jobs \cup BasicJobs
            /\ sources' = AllSources /\ tables' = tables \cup {TableOf(a) : a \in Unlisted}
            /\ StartTools
        BY <2>1 DEF StartServer
      <3>2. \A a \in assets : /\ SystemOf[a] \in Names /\ DomainOf[a] \in Names /\ NameOf[a] \in Names
                              /\ Fold[SystemOf[a]] \in AllSources
        BY DEF Names, AllSources
      <3>3. sources \subseteq AllSources /\ AllSources \subseteq {Fold[x] : x \in Names}
        BY <3>2 DEF AllSources
      <3>4. \A a \in Unlisted : TableOf(a) \in AllSources \X Names \X Names
        BY <3>2 DEF Unlisted, TableOf, SourceOf
      <3>5. tables' \subseteq AllSources \X Names \X Names
        BY <3>1, <3>3, <3>4
      <3>6. tool' \in [Tools -> ToolRow]
        <4>1. \A row \in ToolRow : /\ [row EXCEPT !.description = "registry"] \in ToolRow
                                   /\ [row EXCEPT !.description = row.description] \in ToolRow
          BY DEF ToolRow
        <4>2. [enabled |-> TRUE, description |-> "registry"] \in ToolRow
          BY DEF ToolRow
        <4>3. ASSUME NEW t \in Tools, tool[t] # None
              PROVE  [tool[t] EXCEPT !.description =
                         IF tool[t].description = "" THEN "registry" ELSE tool[t].description] \in ToolRow
          BY <4>1, <4>3
        <4> QED
          BY <3>1, <4>2, <4>3 DEF StartTools
      <3> QED
        BY <3>1, <3>3, <3>5, <3>6
    <2>2. CASE StartFails
      BY <2>2 DEF StartFails, sourceVars
    <2>3. CASE AdminRequest
      BY <2>3 DEF AdminRequest, sourceVars
    <2>4. CASE AddAssets \/ RemoveAssets
      BY <2>4, CatalogAssumption DEF AddAssets, RemoveAssets
    <2>5. CASE UpdateTool
      <3>1. PICK t \in Tools, enabled \in BOOLEAN, text \in {"", "edited"}, given \in BOOLEAN :
                /\ up
                /\ tool' = [tool EXCEPT ![t].enabled = enabled,
                                       ![t].description = IF given THEN text ELSE @]
                /\ UNCHANGED <<topic, up, assets, known, sources, tables, jobs>>
        BY <2>5 DEF UpdateTool
      <3>2. tool \in [Tools -> ToolRow] /\ tool[t] \in ToolRow
        BY <3>1
      <3>3. \A row \in ToolRow : \A words \in {text, row.description} :
                [row EXCEPT !.enabled = enabled, !.description = words] \in ToolRow
        BY DEF ToolRow
      <3>4. [tool[t] EXCEPT !.enabled = enabled,
                            !.description = IF given THEN text ELSE tool[t].description] \in ToolRow
        BY <3>2, <3>3
      <3>5. tool' \in [Tools -> ToolRow]
        BY <3>1, <3>2, <3>4 DEF ToolRow
      <3> QED
        BY <3>1, <3>5
    <2>6. CASE UNCHANGED catalogVars
      BY <2>6 DEF catalogVars, sourceVars
    <2> QED
      BY <2>1, <2>2, <2>3, <2>4, <2>5, <2>6 DEF CatalogNext, SourceChange
  <1>3. CatalogKeys /\ BindingsInv /\ RecordsInv /\ RestTypeOK => CatalogTypeOK
    BY DEF CatalogTypeOK, CatalogKeys, BindingsInv, RecordsInv
  <1> QED
    BY <1>1, <1>2, <1>3, BindingsInvariant, RecordsInvariant, PTL DEF CatalogSpec
=============================================================================
