---------------------------- MODULE ToolBindings ----------------------------
(***************************************************************************)
(* tool_prompt_bindings of app/services/admin_service.py: which templates  *)
(* a tool uses in which scene and which of them is the default.  Requests  *)
(* of the admin API come one at a time; the bootstrap adds the bindings    *)
(* that _default_tool_scene_bindings() asks for and leaves one default to  *)
(* a tool and scene.  Python compares names exactly; the database may not. *)
(***************************************************************************)
EXTENDS PromptCatalog, Sequences

CONSTANTS
    Tools,           \* tools of the registry
    DefaultBindings, \* the pairs <<tool, scene>> of _default_tool_scene_bindings()
    Collate,         \* Collate[x]: what the collation of MySQL makes of the name x
    MaxEdits         \* bound on the number of requests about templates and bindings

ASSUME BindingAssumption ==
    /\ Ids \subseteq Nat
    /\ \A ids \in (SUBSET Ids) \ {{}} : \E i \in ids : \A j \in ids : j <= i
    /\ DefaultBindings \in Seq(Tools \X Scenes)
    /\ \A m, n \in DOMAIN DefaultBindings : DefaultBindings[m] = DefaultBindings[n] => m = n
    /\ \A k, l \in Builtin : Collate[k] = Collate[l] => k = l
    /\ MaxEdits \in Nat

VARIABLES
    binding,   \* the rows in the order of their ids
    caseBlind, \* the database does not tell names apart that collate alike (MySQL)
    calm,      \* history: number of starts since the last request
    edits      \* number of requests so far

bindingVars == <<binding, caseBlind, calm, edits>>

Binding == [tool: Tools, scene: Scenes, template: Ids, isDefault: BOOLEAN]

BindingTypeOK ==
    /\ binding \in Seq(Binding)
    /\ caseBlind \in BOOLEAN
    /\ calm \in 0..MaxStarts
    /\ edits \in 0..MaxEdits

BindingInit ==
    /\ binding = <<>>
    /\ caseBlind \in BOOLEAN
    /\ calm = 0
    /\ edits = 0

\* How the database compares names, in conditions and in unique constraints.
Alike(x, y) == IF caseBlind THEN Collate[x] = Collate[y] ELSE x = y

Same(b, c) == b.tool = c.tool /\ b.scene = c.scene /\ b.template = c.template

Group(rows, t, s) == {n \in DOMAIN rows : rows[n].tool = t /\ rows[n].scene = s}

DefaultsOf(rows, t, s) == {n \in Group(rows, t, s) : rows[n].isDefault}

-----------------------------------------------------------------------------
(* The requests.                                                           *)

Edit ==
    /\ starts > 0
    /\ edits < MaxEdits
    /\ edits' = edits + 1
    /\ calm' = 0
    /\ UNCHANGED caseBlind

\* uq_tool_scene_template_binding.
Excludes(b, c) == b.tool = c.tool /\ b.template = c.template /\ Alike(b.scene, c.scene)

Conflict(rows, n) == \E m \in DOMAIN rows \ {n} : Excludes(rows[m], rows[n])

\* Mutant of DemoteOthers: the other bindings of the template lose the flag.
DemoteTemplate(rows, n) ==
    [m \in DOMAIN rows |-> [rows[m] EXCEPT
        !.isDefault = @ /\ (m = n \/ rows[m].template # rows[n].template)]]

\* _normalize_tool_scene_default; the database compares the scenes.
DemoteOthers(rows, n) ==
    [m \in DOMAIN rows |-> [rows[m] EXCEPT
        !.isDefault = @ /\ (m = n \/ rows[m].tool # rows[n].tool
                                 \/ ~Alike(rows[m].scene, rows[n].scene))]]

\* The rows as they are committed, or none: the flush or the commit finds the
\* conflict and the request is rolled back.
Save(rows, n, normalize) ==
    /\ Edit
    /\ ~Conflict(rows, n)
    /\ binding' = IF normalize THEN DemoteOthers(rows, n) ELSE rows
    /\ UNCHANGED vars

\* create_tool_prompt_binding.
CreateBinding == \E b \in Binding :
    /\ b.template \in Live
    /\ Save(Append(binding, b), Len(binding) + 1, b.isDefault)

\* update_tool_prompt_binding: without is_default in the payload the row keeps
\* the flag, also in another scene, and nothing is normalized.
UpdateBinding == \E n \in DOMAIN binding, row \in Binding, given \in BOOLEAN :
    /\ row.tool = binding[n].tool /\ row.template \in Live
    /\ given \/ row.isDefault = binding[n].isDefault
    /\ Save([binding EXCEPT ![n] = row], n, given /\ row.isDefault)

\* delete_tool_prompt_binding.
DeleteBinding == \E n \in DOMAIN binding :
    /\ Edit
    /\ binding' = SubSeq(binding, 1, n - 1) \o SubSeq(binding, n + 1, Len(binding))
    /\ UNCHANGED vars

-----------------------------------------------------------------------------
(* The bootstrap: _seed_tool_prompt_bindings, after _seed_prompt_templates *)
(* in the same transaction.  `tab` is the table of the templates that its   *)
(* SELECTs see: the rows put back or inserted are flushed, the flags given  *)
(* and taken by Normalize are not.                                         *)

SceneDefaults(tab, s) == {i \in Ids : tab[i] # None /\ tab[i].isDefault /\ tab[i].scene = s}

\* Of several defaults in one scene the last one read wins.
BindingFor(tab, pair) ==
    [tool |-> pair[1], scene |-> pair[2], isDefault |-> TRUE,
     template |-> CHOOSE i \in SceneDefaults(tab, pair[2]) :
                      \A j \in SceneDefaults(tab, pair[2]) : j <= i]

\* Mutant of Wanted: any binding of the pair is enough.
WantedScene(tab, pair) ==
    SceneDefaults(tab, pair[2]) # {} /\ Group(binding, pair[1], pair[2]) = {}

Wanted(tab, pair) ==
    /\ SceneDefaults(tab, pair[2]) # {}
    /\ \A n \in DOMAIN binding : ~Same(binding[n], BindingFor(tab, pair))

\* The loop over the pairs; no row it adds is the row of a later pair.
AddMissing(tab) ==
    LET rows[n \in 0..Len(DefaultBindings)] ==
            IF n = 0 THEN binding
            ELSE IF Wanted(tab, DefaultBindings[n])
                 THEN Append(rows[n - 1], BindingFor(tab, DefaultBindings[n]))
                 ELSE rows[n - 1]
    IN  rows[Len(DefaultBindings)]

\* Mutants of NormalizeBindings: a group without a default is left alone; the
\* oldest binding is the default in any case; of several defaults none stays.
NormalizeMany(rows) ==
    [n \in DOMAIN rows |->
        LET group == Group(rows, rows[n].tool, rows[n].scene)
            defaults == {m \in group : rows[m].isDefault}
        IN  IF Cardinality(defaults) <= 1 THEN rows[n]
            ELSE [rows[n] EXCEPT !.isDefault = \A m \in group : n <= m]]
OldestIsDefault(rows) ==
    [n \in DOMAIN rows |->
        [rows[n] EXCEPT !.isDefault =
            \A m \in Group(rows, rows[n].tool, rows[n].scene) : n <= m]]
ClearSeveral(rows) ==
    [n \in DOMAIN rows |->
        LET group == Group(rows, rows[n].tool, rows[n].scene)
            defaults == {m \in group : rows[m].isDefault}
        IN  IF Cardinality(defaults) = 1 THEN rows[n]
            ELSE [rows[n] EXCEPT !.isDefault = defaults = {} /\ \A m \in group : n <= m]]

\* "Normalize one default per tool + scene": without exactly one it is the
\* oldest binding.
NormalizeBindings(rows) ==
    [n \in DOMAIN rows |->
        LET t == rows[n].tool
            s == rows[n].scene
        IN  IF \E d \in DOMAIN rows : DefaultsOf(rows, t, s) = {d} THEN rows[n]
            ELSE [rows[n] EXCEPT !.isDefault = \A m \in Group(rows, t, s) : n <= m]]

\* Ids are given out upwards.
NextIds == {ids \in FreshIds : \A k \in MissingKeys, i \in Ids \ Live :
                i < ids[k] => \E l \in MissingKeys : ids[l] = i}

StartBindings(tab) ==
    /\ \E rows \in {AddMissing(tab)} : binding' = NormalizeBindings(rows)
    /\ calm' = calm + 1
    /\ UNCHANGED <<caseBlind, edits>>

-----------------------------------------------------------------------------
\* The snapshot that a SELECT for version v of template i finds, else v.
SnapshotOf(i, v) ==
    LET there == {u \in Versions : version[i][u] # None /\ Alike(u, v)}
    IN  IF there = {} THEN v ELSE CHOOSE u \in there : TRUE

\* What the requests of PromptCatalog leave behind, one row at a time: with
\* their races and with partial updates, any key, scene, version and flag.  A
\* request that sets is_default demotes the others of the scene.
TemplateRequest == \E i \in Ids, row \in Row, given \in BOOLEAN :
    LET v == SnapshotOf(i, row.version)
        demoted == {j \in Live \ {i} : given /\ row.isDefault /\ Alike(template[j].scene, row.scene)}
    IN  /\ Edit
        /\ i \in Live \/ \A j \in Ids \ Live : i <= j
        /\ \A j \in Live \ {i} : ~Alike(template[j].key, row.key)
        /\ template' = [Demote(template, demoted) EXCEPT ![i] = row]
        /\ \/ version' = [version EXCEPT ![i][v] = SnapOf(row)]
           \/ version[i][v] # None /\ UNCHANGED version
        /\ UNCHANGED <<tx, starts, binding>>

BindingRequest == CreateBinding \/ UpdateBinding \/ DeleteBinding

-----------------------------------------------------------------------------
(* Properties.                                                             *)

\* Whatever requests did to the flags, after a start every tool and scene with
\* a binding has exactly one default ("Normalize one default per tool + scene").
BindingsNormalized ==
    [][calm' > calm =>
          \A t \in Tools, s \in Scenes : Group(binding', t, s) # {} =>
              \E d \in DOMAIN binding' : DefaultsOf(binding', t, s) = {d}]_<<vars, bindingVars>>

\* A start that adds nothing to a tool and scene keeps the default an admin
\* chose for it.
ChosenKept ==
    [][calm' > calm =>
          \A t \in Tools, s \in Scenes, d \in DOMAIN binding :
              DefaultsOf(binding, t, s) = {d} /\ Group(binding', t, s) = Group(binding, t, s)
              => DefaultsOf(binding', t, s) = {d}]_<<vars, bindingVars>>

\* A request never leaves a tool and scene with two defaults, but for one way:
\* a default binding is moved there without is_default in the payload
\* (update_tool_prompt_binding), which the next start puts right.
SecondDefaultMoved ==
    [][\A t \in Tools, s \in Scenes :
          Cardinality(DefaultsOf(binding, t, s)) <= 1
          /\ Cardinality(DefaultsOf(binding', t, s)) > 1 =>
              \E n \in DOMAIN binding : /\ n \in DefaultsOf(binding', t, s)
                                        /\ binding[n].isDefault /\ binding[n].scene # s]_<<vars, bindingVars>>

\* The bindings lag behind the templates by two starts at most: the first may
\* leave a scene without a default, if the template that had it goes back to its
\* own scene, and the second gives it one but binds the defaults it found.  After
\* three starts in a row every default pair is bound to the default template of
\* its scene (_seed_prompt_templates, _seed_tool_prompt_bindings).
BindingsCatchUp ==
    calm >= 3 => \A n \in DOMAIN DefaultBindings, i \in Live :
        template[i].isDefault /\ template[i].scene = DefaultBindings[n][2] =>
            \E m \in DOMAIN binding :
                Same(binding[m], [tool |-> DefaultBindings[n][1],
                                  scene |-> DefaultBindings[n][2], template |-> i])

\* The bootstrap settles: from the third start in a row on it finds nothing to
\* change about the templates, from the fourth on nothing about the bindings.
BootstrapSettles ==
    [][calm' > calm => /\ calm >= 2 => UNCHANGED <<template, version>>
                       /\ calm >= 3 => UNCHANGED binding]_<<vars, bindingVars>>
=============================================================================
