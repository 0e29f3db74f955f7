------------------------------ MODULE ChatTrace ------------------------------
(***************************************************************************)
(* POST /chat (app/api/chat.py): MetadataAgent.ask of                      *)
(* app/agent/llm_agent.py and record_chat_exchange of                      *)
(* app/services/admin_service.py, for the chats of one session key, under  *)
(* REPEATABLE READ.  All of a chat uses one database session.  Its         *)
(* snapshot is taken by the first query and again after each daily summary *)
(* the model asked for, which commits.  The exchange is recorded after the *)
(* answer; if that fails the answer is sent all the same.                  *)
(***************************************************************************)
EXTENDS DailyReport, Naturals, FiniteSetsExt

CONSTANTS
    Chats,         \* requests to POST /chat that send the same session_id
    MaxIterations, \* agent_max_iterations
    MaxCalls       \* bound on the tool calls of one turn

ASSUME ChatAssumption == MaxIterations \in Nat /\ MaxCalls \in Nat

ASSUME ChatNoneAssumption == None \notin Nat \cup [first: Nat, last: Nat]

VARIABLES
    exchange, \* exchange[x]: the message_order of the first and the last message
              \* recorded for chat x, or None; the session's row is there if
              \* one exchange is
    before,   \* before[x]: the exchanges recorded when x was asked
    chat      \* chat[x]: the request x

chatVars == <<exchange, before, chat>>

\* view is the largest message_order and seen says whether today's report was
\* there, both in the snapshot; a view of None is a transaction not yet begun.
Start == [pc |-> "new", turns |-> 0, pending |-> 0, calls |-> 0,
          view |-> None, seen |-> FALSE, broken |-> FALSE]

Requests == [pc: {"new", "asking", "recording", "answered", "failed"},
             turns: 0..MaxIterations, pending: 0..MaxCalls, calls: 0..(MaxIterations * MaxCalls),
             view: Nat \cup {None}, seen: BOOLEAN, broken: BOOLEAN]

ChatTypeOK ==
    /\ exchange \in [Chats -> [first: Nat, last: Nat] \cup {None}]
    /\ before \in [Chats -> SUBSET Chats]
    /\ chat \in [Chats -> Requests]

ChatInit ==
    /\ exchange = [x \in Chats |-> None]
    /\ before = [x \in Chats |-> {}]
    /\ chat = [x \in Chats |-> Start]

Recorded == {x \in Chats : exchange[x] # None}

\* Mutant of LastOrder: the tool messages are not counted.
LastAnswer == Max({0} \cup {exchange[x].first + 1 : x \in Recorded})

\* max(message_order) of the session, 0 for a session that is not there.
LastOrder == Max({0} \cup {exchange[x].last : x \in Recorded})

-----------------------------------------------------------------------------
(* The agent.                                                              *)

Busy(x, pc) == chat[x].pc = pc

Continue(x, c) == chat' = [chat EXCEPT ![x] = c]

End(x, pc) == Continue(x, [Start EXCEPT !.pc = pc])

\* The request after a query, which begins a transaction if none is open.
Querying(x) == IF chat[x].view # None THEN chat[x]
               ELSE [chat[x] EXCEPT !.view = LastOrder, !.seen = report]

\* resolve_prompt_template is the first query.
Ask(x) ==
    /\ Busy(x, "new")
    /\ Continue(x, [Querying(x) EXCEPT !.pc = "asking"])
    /\ before' = [before EXCEPT ![x] = Recorded]
    /\ UNCHANGED <<exchange, report>>

\* The model answers with tool calls.
Turn(x) == \E n \in 1..MaxCalls :
    /\ Busy(x, "asking") /\ chat[x].pending = 0
    /\ chat[x].turns < MaxIterations
    /\ Continue(x, [chat[x] EXCEPT !.turns = @ + 1, !.pending = n])
    /\ UNCHANGED <<exchange, before, report>>

\* Mutant of Query: a call that fails on a broken session is repeated.
RetriedQuery(x) == \E c \in {chat[x], Querying(x)} :
    /\ Busy(x, "asking") /\ chat[x].pending > 0
    /\ Continue(x, IF c.broken THEN c ELSE [c EXCEPT !.pending = @ - 1, !.calls = @ + 1])
    /\ UNCHANGED <<exchange, before, report>>

\* A tool that only reads, or does not even do that: an unknown tool, wrong
\* arguments, a session that is broken.  Each ends in an entry of the trace.
Query(x) == \E c \in {chat[x], Querying(x)} :
    /\ Busy(x, "asking") /\ chat[x].pending > 0
    /\ Continue(x, [c EXCEPT !.pending = @ - 1, !.calls = @ + 1])
    /\ UNCHANGED <<exchange, before, report>>

\* The tool generate_daily_summary: it commits, or breaks the session and is
\* one more error in the trace (_call_tool).
Summary(x) ==
    LET c == [Querying(x) EXCEPT !.pending = @ - 1, !.calls = @ + 1]
    IN  /\ Busy(x, "asking") /\ chat[x].pending > 0
        /\ ~c.broken
        /\ \/ Publish(c.seen) /\ Continue(x, [c EXCEPT !.view = None])
           \/ Conflict(c.seen) /\ Continue(x, [c EXCEPT !.broken = TRUE]) /\ UNCHANGED report
        /\ UNCHANGED <<exchange, before>>

-----------------------------------------------------------------------------
(* The record of the exchange.                                             *)

Recording(x) == {y \in Chats \ {x} : Busy(y, "recording")}

\* The loop is over: the model answered without tool calls, or the iterations
\* are used up.
Done(x) == Busy(x, "asking") /\ chat[x].pending = 0

\* A session that the snapshot lacks is inserted, which waits for another chat
\* that inserts it; the messages are inserted with orders after the snapshot's
\* largest, and share the session's row with those of other chats.
Insert(x) ==
    LET c == Querying(x)
    IN  /\ Done(x)
        /\ ~c.broken
        /\ c.view = 0 => LastOrder = 0 /\ Recording(x) = {}
        /\ Continue(x, [c EXCEPT !.pc = "recording"])
        /\ UNCHANGED <<exchange, before, report>>

\* The update of last_message_at needs the session's row alone, and commits.
Record(x) ==
    LET first == chat[x].view + 1
    IN  /\ Busy(x, "recording")
        /\ Recording(x) = {}
        /\ exchange' = [exchange EXCEPT ![x] = [first |-> first, last |-> first + 1 + chat[x].calls]]
        /\ End(x, "answered")
        /\ UNCHANGED <<before, report>>

\* "Chat response should still be returned even if admin trace persistence
\* fails": the session is broken, another chat has inserted the session row
\* since the snapshot, or holds a lock on it (timeout, deadlock).
Lose(x) ==
    LET c == Querying(x)
    IN  /\ \/ Done(x) /\ (c.broken \/ (c.view = 0 /\ (LastOrder # 0 \/ Recording(x) # {})))
           \/ Busy(x, "recording") /\ Recording(x) # {}
        /\ End(x, "answered")
        /\ UNCHANGED <<exchange, before, report>>

\* The database fails under the chat, or refuses what is to be recorded (a
\* session_key or a result too long for its column).  In a tool that is one
\* more error in the trace and a broken session; at the recording it is
\* swallowed like any other exception.
Fault(x) ==
    /\ \/ /\ Busy(x, "asking") /\ chat[x].pending > 0
          /\ Continue(x, [chat[x] EXCEPT !.pending = @ - 1, !.calls = @ + 1, !.broken = TRUE])
       \/ (Done(x) \/ Busy(x, "recording")) /\ End(x, "answered")
    /\ UNCHANGED <<exchange, before, report>>

\* The provider fails, the prompt template is ambiguous, the process dies, or
\* (while it is being recorded) only the last of these.
Fail(x) ==
    /\ Busy(x, "asking") \/ Busy(x, "recording")
    /\ End(x, "failed")
    /\ UNCHANGED <<exchange, before, report>>

ChatStep(x) ==
    Turn(x) \/ Query(x) \/ Summary(x) \/ Insert(x) \/ Record(x) \/ Lose(x)

ChatNext == \E x \in Chats : Ask(x) \/ ChatStep(x) \/ Fail(x)

-----------------------------------------------------------------------------
(* Properties.                                                             *)

\* An exchange asked after another was recorded follows it in message_order,
\* with all of its messages, whatever tools the chats used and whatever else
\* was recorded in between (record_chat_exchange).
OrderRespectsTime ==
    \A x \in Recorded : \A y \in before[x] : exchange[y].last < exchange[x].first
=============================================================================
