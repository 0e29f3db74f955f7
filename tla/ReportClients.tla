---------------------------- MODULE ReportClients ----------------------------
(***************************************************************************)
(* Job runs and chats on one database.  Both call generate_daily_summary,  *)
(* which commits in the middle of what they do and may break their session.*)
(***************************************************************************)
EXTENDS JobRuns, ChatTrace

VARIABLE disturbed  \* the chats during which something else was under way or a fault occurred

vars == <<report, jobVars, chatVars, disturbed>>

Active == {x \in Chats : chat[x].pc \in {"asking", "recording"}}
RunActive == \E r \in Runs : runner[r].pc \notin {"waiting", "ended"}

TypeOK == JobTypeOK /\ ChatTypeOK /\ report \in BOOLEAN /\ disturbed \subseteq Chats

Init == ReportInit /\ JobInit /\ ChatInit /\ disturbed = {}

\* A chat that is active after the step along with anything else.
Crowded == {x \in Active' : RunActive' \/ Active' # {x}}

Observe == disturbed' = disturbed \cup Crowded

Next ==
    \/ JobNext /\ UNCHANGED chatVars /\ Observe
    \/ ChatNext /\ UNCHANGED jobVars /\ Observe
    \/ \E x \in Chats :
          Fault(x) /\ UNCHANGED jobVars /\ disturbed' = disturbed \cup Crowded \cup {x}

Spec == Init /\ [][Next]_vars

\* Requests are threads, and every wait of theirs has a timeout: the client of
\* the model provider, the lock waits of the database.
FairSpec ==
    /\ Spec
    /\ \A r \in Runs : WF_vars(RunStep(r) /\ UNCHANGED chatVars /\ Observe)
    /\ \A x \in Chats : WF_vars(ChatStep(x) /\ UNCHANGED jobVars /\ Observe)

-----------------------------------------------------------------------------
(* Properties.                                                             *)

\* A chat that was answered while nothing else was under way is on record,
\* including its daily summaries: only another request or a fault of the
\* database can make record_chat_exchange lose an exchange, and nothing of the
\* chat's own commits and snapshots.
QuietChatsRecorded ==
    \A x \in Chats \ disturbed : chat[x].pc = "answered" => exchange[x] # None

\* Every run and every chat comes to an end: the tool loop is bounded and no
\* requests wait for each other for ever (run_job, MetadataAgent.ask).
RequestsEnd == <>[](~RunActive /\ Active = {})
=============================================================================
