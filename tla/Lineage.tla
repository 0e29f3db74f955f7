------------------------------- MODULE Lineage -------------------------------
(***************************************************************************)
(* AssetService._lineage of app/services/asset_service.py: a breadth-first *)
(* search over asset_dependencies with one SELECT for every asset it takes *)
(* from its queue, while other sessions commit changes of the table.       *)
(***************************************************************************)
EXTENDS RequestView, Naturals, Sequences

CONSTANTS
    Assets,        \* primary keys of assets
    Names,         \* what assets are called, in lower case
    Keys,          \* the names asked for
    Name,          \* Name[a]: the name of asset a
    QualifiedName, \* QualifiedName[a]: its qualified name
    Deps,          \* rows of asset_dependencies; several may join two assets
    Upstream,      \* Upstream[d], Downstream[d]: the assets row d joins
    Downstream,
    Contents,      \* sets of rows that may be active at a time
    MaxDepth,      \* how far from the root assets are expanded; 20 in the code
    MaxCommits     \* bound on the number of changes of the table

ASSUME LineageAssumption ==
    /\ Assets \subseteq Nat
    /\ {Name, QualifiedName} \subseteq [Assets -> Names]
    /\ {Upstream, Downstream} \subseteq [Deps -> Assets]
    /\ Contents \subseteq SUBSET Deps
    /\ MaxDepth \in Nat /\ MaxCommits \in Nat

VARIABLES
    active,    \* rows with is_active that are committed
    commits,   \* number of changes so far
    view,      \* the active rows that a SELECT of the request would see now
    steady,    \* history: the rows in every view of the request
    met,       \* history: the rows in some view of the request
    pc,        \* searching, answered
    root,      \* the asset asked for
    direction, \* "downstream" or "upstream"
    visited,   \* assets found, which are the nodes of the answer
    depth,     \* depth[a]: how far from the root a visited asset was found
    frontier,  \* the queue of assets to expand
    current,   \* the asset that is being expanded
    todo,      \* its rows that the loop has not looked at yet
    listed     \* listed[d]: how often row d is among the edges of the answer

tableVars == <<active, commits, view, steady, met>>
requestVars == <<root, direction>>
searchVars == <<pc, visited, depth, frontier, current, todo, listed>>
lineageVars == <<tableVars, requestVars, searchVars>>

From(d) == IF direction = "downstream" THEN Upstream[d] ELSE Downstream[d]
To(d) == IF direction = "downstream" THEN Downstream[d] ELSE Upstream[d]

LineageTypeOK ==
    /\ isolated \in BOOLEAN
    /\ commits \in 0..MaxCommits
    /\ active \subseteq Deps /\ view \subseteq Deps
    /\ steady \subseteq Deps /\ met \subseteq Deps
    /\ pc \in {"searching", "answered"}
    /\ root \in Assets
    /\ direction \in {"downstream", "upstream"}
    /\ visited \subseteq Assets
    /\ depth \in [Assets -> 0..MaxDepth]
    /\ frontier \in Seq(Assets)
    /\ current \in Assets
    /\ todo \subseteq Deps
    /\ listed \in [Deps -> Nat]

\* resolve_asset: a qualified name goes before the names, of which the oldest
\* asset has it.
Matches(key) ==
    LET qualified == {a \in Assets : QualifiedName[a] = key}
        named == {a \in Assets : Name[a] = key}
    IN  IF qualified # {} THEN qualified
        ELSE {a \in named : \A b \in named : a <= b}

\* A request for an asset that there is; all else is answered with 404.
LineageInit ==
    /\ isolated \in BOOLEAN
    /\ active \in Contents
    /\ commits = 0
    /\ view = active /\ steady = active /\ met = active
    /\ pc = "searching"
    /\ \E key \in Keys : root \in Matches(key)
    /\ direction \in {"downstream", "upstream"}
    /\ visited = {root}
    /\ depth = [a \in Assets |-> 0]
    /\ frontier = <<root>>
    /\ current = root
    /\ todo = {}
    /\ listed = [d \in Deps |-> 0]

-----------------------------------------------------------------------------
(* The table.                                                              *)

\* Another session commits: a sync adds rows, an operator turns some off.
Commit ==
    /\ commits < MaxCommits
    /\ commits' = commits + 1
    /\ active' \in Contents
    /\ view' = AfterCommit(view, active')
    /\ steady' = steady \cap view'
    /\ met' = met \cup view'
    /\ UNCHANGED <<requestVars, searchVars>>

-----------------------------------------------------------------------------
(* The search.                                                             *)

Idle == pc = "searching" /\ todo = {} /\ frontier # <<>>

\* "if depth == 20".
Deep(a) == depth[a] = MaxDepth

\* Mutant of Skip: the asset is taken from the queue after it is expanded only.
SkipInPlace == Idle /\ Deep(Head(frontier)) /\ UNCHANGED lineageVars

\* Too far away: the asset stays in the answer and is not expanded.
Skip ==
    /\ Idle
    /\ Deep(Head(frontier))
    /\ frontier' = Tail(frontier)
    /\ UNCHANGED <<tableVars, requestVars, pc, visited, depth, current, todo, listed>>

\* Mutant of Rows: rows that are turned off count as well.
AllRows(a) == {d \in Deps : From(d) = a}

Rows(a) == {d \in view : From(d) = a}

\* The SELECT for the asset at the head of the queue; every row it returns
\* becomes an edge of the answer.
Fetch ==
    /\ Idle
    /\ ~Deep(Head(frontier))
    /\ frontier' = Tail(frontier)
    /\ current' = Head(frontier)
    /\ todo' = Rows(Head(frontier))
    /\ listed' = [d \in Deps |-> IF d \in Rows(Head(frontier)) THEN listed[d] + 1 ELSE listed[d]]
    /\ UNCHANGED <<tableVars, requestVars, pc, visited, depth>>

\* Mutant of Found: the asset the search came from is not remembered.
FoundAgain(a) == a \notin {root, current}

Found(a) == a \notin visited

\* Mutant of Enqueue: the queue is a stack.
Push(a) == <<a>> \o frontier

Enqueue(a) == Append(frontier, a)

\* The loop over the rows: an asset seen for the first time joins the queue.
Visit == \E d \in todo :
    LET a == To(d)
    IN  /\ pc = "searching"
        /\ todo' = todo \ {d}
        /\ IF Found(a)
           THEN /\ visited' = visited \cup {a}
                /\ depth' = [depth EXCEPT ![a] = depth[current] + 1]
                /\ frontier' = Enqueue(a)
           ELSE UNCHANGED <<visited, depth, frontier>>
        /\ UNCHANGED <<tableVars, requestVars, pc, current, listed>>

Answer ==
    /\ pc = "searching" /\ todo = {} /\ frontier = <<>>
    /\ pc' = "answered"
    /\ UNCHANGED <<tableVars, requestVars, visited, depth, frontier, current, todo, listed>>

Search == Skip \/ Fetch \/ Visit \/ Answer

LineageNext == Commit \/ Search

LineageSpec == LineageInit /\ [][LineageNext /\ UNCHANGED isolated]_<<isolated, lineageVars>>

-----------------------------------------------------------------------------
(* Properties.                                                             *)

\* The assets at most MaxDepth rows of a set away from the root.
Within(rows) ==
    LET ball[n \in 0..MaxDepth] ==
            IF n = 0 THEN {root}
            ELSE ball[n - 1] \cup {To(d) : d \in {e \in rows : From(e) \in ball[n - 1]}}
    IN  ball[MaxDepth]

\* However the table changes during the search, an answer has every asset that
\* was in reach all the time and only assets that are in reach of the rows
\* seen: cycles, the order of the rows and the commits between two SELECTs
\* make no difference (_lineage).
AnswerBetween ==
    pc = "answered" => Within(steady) \subseteq visited /\ visited \subseteq Within(met)

\* The edges of an answer explain its nodes: each node but the root is reached
\* from a node closer to the root by an edge of the answer, even if no state of
\* the table connects the two.
NodesExplained ==
    \A a \in visited \ {root} :
        \E d \in Deps : /\ listed[d] > 0 /\ To(d) = a
                        /\ From(d) \in visited /\ depth[a] = depth[From(d)] + 1

\* The edges of an answer join its nodes, none is listed twice, and those that
\* lead on from a node before the depth limit are all there.
EdgesExact ==
    pc = "answered" => \A d \in Deps :
        /\ listed[d] <= 1
        /\ listed[d] = 1 => d \in met /\ From(d) \in visited /\ To(d) \in visited
        /\ d \in steady /\ From(d) \in visited /\ depth[From(d)] < MaxDepth => listed[d] = 1
=============================================================================
