---------------------------- MODULE AdminRecords ----------------------------
(***************************************************************************)
(* The memories and channels of app/services/admin_service.py and the      *)
(* audit_logs that go with them.  A request reads its row in one step and  *)
(* commits in a later one; a new channel is committed before its audit     *)
(* record, all else together with it.                                      *)
(***************************************************************************)
EXTENDS Integers, FiniteSets

CONSTANTS
    Memories,    \* primary keys of memories
    Texts,       \* what a memory says
    Channels,    \* values of channel_id
    Clients,     \* request threads
    MaxAudits,   \* bound on the number of audit records
    Absent       \* no row yet, or no row any more

ASSUME RecordsAssumption ==
    Absent \notin Texts /\ MaxAudits \in Nat /\ IsFiniteSet(Clients)

VARIABLES
    memory,    \* memory[m]: what the committed memory says
    used,      \* the ids that were given to memories
    channels,  \* the channels that are committed
    audit,     \* audit[a]: how often action a is in audit_logs
    removals,  \* removals[m]: how often the removal of memory m is in there
    req,       \* req[c]: what the request of client c has read and will write
    cut        \* history: how many requests a crash cut off

recordVars == <<memory, used, channels, audit, removals, req, cut>>

Actions == {"memory.created", "memory.updated", "memory.deleted",
            "channel.created", "channel.updated"}

Quiet == [op |-> "none"]
Requests ==
    [op: {"update"}, id: Memories, old: Texts, new: Texts]
        \cup [op: {"delete"}, id: Memories] \cup [op: {"audit"}, id: Channels]

RecordsTypeOK ==
    /\ memory \in [Memories -> Texts \cup {Absent}]
    /\ used \subseteq Memories
    /\ channels \subseteq Channels
    /\ audit \in [Actions -> 0..MaxAudits]
    /\ removals \in [Memories -> 0..MaxAudits]
    /\ req \in [Clients -> {Quiet} \cup Requests]
    /\ cut \in Nat

RecordsInit ==
    /\ memory = [m \in Memories |-> Absent]
    /\ used = {}
    /\ channels = {}
    /\ audit = [a \in Actions |-> 0]
    /\ removals = [m \in Memories |-> 0]
    /\ req = [c \in Clients |-> Quiet]
    /\ cut = 0

\* _add_audit_log.
Audit(action) ==
    /\ audit[action] < MaxAudits
    /\ audit' = [audit EXCEPT ![action] = @ + 1]

Finish(c) == req' = [req EXCEPT ![c] = Quiet]

-----------------------------------------------------------------------------
(* Memories.                                                               *)

\* create_memory.
CreateMemory(c) == \E m \in Memories \ used, text \in Texts :
    /\ req[c] = Quiet
    /\ memory' = [memory EXCEPT ![m] = text]
    /\ used' = used \cup {m}
    /\ Audit("memory.created")
    /\ UNCHANGED <<channels, removals, req, cut>>

\* update_memory and delete_memory read the row; without it they answer 404.
ReadMemory(c) == \E m \in Memories, text \in Texts :
    /\ req[c] = Quiet
    /\ memory[m] # Absent
    /\ \/ req' = [req EXCEPT ![c] = [op |-> "update", id |-> m, old |-> memory[m], new |-> text]]
       \/ req' = [req EXCEPT ![c] = [op |-> "delete", id |-> m]]
    /\ UNCHANGED <<memory, used, channels, audit, removals, cut>>

\* Mutant of Stale: the row is put back.
NeverStale(r) == FALSE

\* An UPDATE that finds no row raises StaleDataError; a text that is the same
\* is not written, and nothing is noticed.
Stale(r) == memory[r.id] = Absent /\ r.new # r.old

UpdateMemory(c) ==
    LET r == req[c]
    IN  /\ r.op = "update"
        /\ IF Stale(r) THEN UNCHANGED <<memory, audit>>
           ELSE /\ memory' = IF r.new = r.old THEN memory ELSE [memory EXCEPT ![r.id] = r.new]
                /\ Audit("memory.updated")
        /\ Finish(c)
        /\ UNCHANGED <<used, channels, removals, cut>>

\* A DELETE that finds no row is only a warning: the audit record of a second
\* removal is committed all the same.
DeleteMemory(c) ==
    LET m == req[c].id
    IN  /\ req[c].op = "delete"
        /\ memory' = [memory EXCEPT ![m] = Absent]
        /\ removals' = [removals EXCEPT ![m] = @ + 1]
        /\ Audit("memory.deleted")
        /\ Finish(c)
        /\ UNCHANGED <<used, channels, cut>>

-----------------------------------------------------------------------------
(* Channels.                                                               *)

\* Mutant of Fresh: the unique constraint is gone.
AnyChannel(c) == TRUE

\* channel_id is unique; a second one is refused.
Fresh(c) == c \notin channels

\* create_channel up to its first commit.
CreateChannel(c) == \E ch \in Channels :
    /\ req[c] = Quiet
    /\ Fresh(ch)
    /\ channels' = channels \cup {ch}
    /\ req' = [req EXCEPT ![c] = [op |-> "audit", id |-> ch]]
    /\ UNCHANGED <<memory, used, audit, removals, cut>>

\* Its second commit.
AuditChannel(c) ==
    /\ req[c].op = "audit"
    /\ Audit("channel.created")
    /\ Finish(c)
    /\ UNCHANGED <<memory, used, channels, removals, cut>>

\* update_channel: no channel is ever deleted, so it finds the row at its
\* commit; which fields it changes makes no difference here.
UpdateChannel(c) ==
    /\ req[c] = Quiet
    /\ channels # {}
    /\ Audit("channel.updated")
    /\ UNCHANGED <<memory, used, channels, removals, req, cut>>

\* The process dies with its requests.
LoseRequests ==
    /\ req' = [c \in Clients |-> Quiet]
    /\ cut' = cut + Cardinality({c \in Clients : req[c].op = "audit"})
    /\ UNCHANGED <<memory, used, channels, audit, removals>>

RecordRequest(c) ==
    \/ CreateMemory(c) \/ ReadMemory(c) \/ UpdateMemory(c) \/ DeleteMemory(c)
    \/ CreateChannel(c) \/ AuditChannel(c) \/ UpdateChannel(c)

-----------------------------------------------------------------------------
(* Properties.                                                             *)

\* The audit log accounts for the memories: one record for each that was made,
\* and at least one for the removal of each that is gone, also if several
\* requests change and remove it at the same time (update_memory,
\* delete_memory).
MemoriesAudited ==
    /\ audit["memory.created"] = Cardinality(used)
    /\ \A m \in used : memory[m] = Absent <=> removals[m] > 0

\* Every channel is audited but those whose request is between its two commits
\* or was cut off there by a crash (create_channel).
ChannelsAudited ==
    Cardinality(channels)
        = audit["channel.created"] + cut + Cardinality({c \in Clients : req[c].op = "audit"})
=============================================================================
