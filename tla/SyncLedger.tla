----------------------------- MODULE SyncLedger -----------------------------
(***************************************************************************)
(* What a metadata sync promises, whatever runs next to it: it is recorded *)
(* as SUCCEEDED together with everything it listed, or as FAILED with no   *)
(* effect on the catalog, or it leaves no trace; a record is final, unless *)
(* the database hands the id of a rolled back job out again: then a        *)
(* failure may take the place of another record.                           *)
(***************************************************************************)
EXTENDS Naturals

CONSTANTS
    Syncs,      \* the syncs
    Assets,     \* resources of the data factory
    Payloads,   \* what the management API can say of a resource
    Refs,       \* Refs[a][p][b]: how often payload p of a refers to b
    None        \* no record, no payload

VARIABLES
    reused,     \* whether the ids of rolled back jobs are used again
    ledger,     \* ledger[s]: the recorded outcome of sync s, or None
    assets,     \* resources in the catalog
    versions,   \* <<resource, payload>> pairs in the version history
    edges,      \* dependencies in the catalog
    props       \* props[a]: the payload whose properties the catalog shows

vars == <<reused, ledger, assets, versions, edges, props>>

Listings == [Assets -> Payloads \cup {None}]

Listed(listing) == {a \in Assets : listing[a] # None}

\* A reference becomes a dependency if the resource it names was listed too.
EdgesOf(listing) ==
    {e \in Listed(listing) \X Listed(listing) : Refs[e[1]][listing[e[1]]][e[2]] > 0}

Init ==
    /\ reused \in BOOLEAN
    /\ ledger = [s \in Syncs |-> None]
    /\ assets = {} /\ versions = {} /\ edges = {}
    /\ props = [a \in Assets |-> None]

Succeed(s) ==
    /\ ledger[s] = None
    /\ \E listing \in Listings :
          /\ assets' = assets \cup Listed(listing)
          /\ versions' = versions \cup {<<a, listing[a]>> : a \in Listed(listing)}
          /\ edges' = edges \cup EdgesOf(listing)
          /\ props' = [a \in Assets |-> IF listing[a] # None THEN listing[a] ELSE props[a]]
    /\ ledger' = [ledger EXCEPT ![s] = "SUCCEEDED"]
    /\ UNCHANGED reused

Fail(s) ==
    /\ ledger[s] = None
    /\ \/ ledger' = [ledger EXCEPT ![s] = "FAILED"]
       \/ reused /\ \E u \in Syncs : ledger' = [ledger EXCEPT ![u] = None, ![s] = "FAILED"]
    /\ UNCHANGED <<reused, assets, versions, edges, props>>

Next == \E s \in Syncs : Succeed(s) \/ Fail(s)

Spec == Init /\ [][Next]_vars
=============================================================================
