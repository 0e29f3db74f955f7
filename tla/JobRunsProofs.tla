---------------------------- MODULE JobRunsProofs ----------------------------
(* What holds of jobs, runs and audit records for every number of jobs, runs *)
(* and chats next to them.                                                   *)
EXTENDS ReportClients, NaturalsLemmas

\* A run is on record only from the commit of its summary on, as RUNNING for
\* the job its request works on until the request ends.
RunsOwned ==
    \A r \in Runs : runs[r] # None =>
        \/ At(r, "ended")
        \/ At(r, "worked") /\ runs[r] = [job |-> runner[r].job, status |-> "RUNNING"]

\* Neither property is inductive by itself: Finish overwrites a run, so it must
\* be known what the run was.
JobInv == JobTypeOK /\ report \in BOOLEAN /\ RunsOwned /\ RunningJobHasRun /\ AuditMatchesRuns

\* The seeded jobs satisfy the invariant.
LEMMA JobInitInv == ReportInit /\ JobInit => JobInv
  <1> SUFFICES ASSUME ReportInit, JobInit PROVE JobInv
    OBVIOUS
  <1> USE RowAssumption DEF JobInit
  <1>1. JobTypeOK
    BY DEF JobTypeOK, Statuses, Runners, Waiting
  <1>2. RunsOwned
    BY DEF RunsOwned
  <1>3. RunningJobHasRun
    BY DEF RunningJobHasRun, Statuses
  <1>4. AuditMatchesRuns
    BY DEF AuditMatchesRuns
  <1> QED
    BY <1>1, <1>2, <1>3, <1>4 DEF JobInv, ReportInit

\* Steps that only move a request, without a record of its run, keep it.
LEMMA MoveKeeps ==
    ASSUME JobInv, NEW r \in Runs, NEW t \in Runners,
           UNCHANGED <<jobs, runs, audit, created, report>>, Become(r, t),
           t.pc = "ended" \/ runs[r] = None
    PROVE  JobInv'
  <1>1. JobTypeOK'
    BY DEF JobInv, JobTypeOK, Become
  <1>2. RunsOwned'
    BY DEF JobInv, JobTypeOK, RunsOwned, Become, At
  <1>3. RunningJobHasRun'
    BY DEF JobInv, RunningJobHasRun
  <1>4. AuditMatchesRuns'
    BY DEF JobInv, AuditMatchesRuns
  <1> QED
    BY <1>1, <1>2, <1>3, <1>4 DEF JobInv

\* A request that is waiting, loaded or running has no run on record.
LEMMA NoRunYet ==
    ASSUME JobInv, NEW r \in Runs, runner[r].pc \in {"waiting", "loaded", "running"}
    PROVE  runs[r] = None
  BY DEF JobInv, RunsOwned, At

\* The fields of a request that is under way.
LEMMA RunnerFields ==
    ASSUME JobInv, NEW r \in Runs, runner[r].pc \in {"loaded", "running", "worked"}
    PROVE  runner[r] \in [pc: {"loaded", "running", "worked"}, job: Jobs, saw: Statuses,
                          seen: BOOLEAN, lock: {"X", "S", None}, status: Outcomes]
  BY DEF JobInv, JobTypeOK, Runners, Waiting, Ended

\* create_job and its audit record.
LEMMA CreateKeeps ==
    ASSUME JobInv, NEW j \in Jobs, Create(j) \/ AuditCreate(j)
    PROVE  JobInv'
  <1>1. CASE Create(j)
    <2>1. JobTypeOK'
      BY <1>1 DEF JobInv, JobTypeOK, Create, Statuses
    <2>2. RunsOwned'
      BY <1>1 DEF JobInv, RunsOwned, Create, At
    <2>3. RunningJobHasRun'
      BY <1>1 DEF JobInv, JobTypeOK, RunningJobHasRun, Create
    <2>4. AuditMatchesRuns'
      BY <1>1 DEF JobInv, AuditMatchesRuns, Create
    <2> QED
      BY <1>1, <2>1, <2>2, <2>3, <2>4 DEF JobInv, Create
  <1>2. CASE AuditCreate(j)
    <2> DEFINE row == [action |-> "job.created", job |-> j]
    <2>1. JobTypeOK'
      <3>1. row \in AuditRow
        BY DEF AuditRow
      <3> QED
        BY <1>2, <3>1 DEF JobInv, JobTypeOK, AuditCreate
    <2>2. RunsOwned'
      BY <1>2 DEF JobInv, RunsOwned, AuditCreate, At
    <2>3. RunningJobHasRun'
      BY <1>2 DEF JobInv, RunningJobHasRun, AuditCreate
    <2>4. AuditMatchesRuns'
      <3>1. ASSUME NEW q \in Runs, NEW status \in Outcomes
            PROVE  [action |-> "job.run", run |-> q, status |-> status] # row
        <4>1. [action |-> "job.run", run |-> q, status |-> status].action # row.action
          OBVIOUS
        <4> QED
          BY <4>1
      <3> QED
        BY <1>2, <3>1 DEF JobInv, AuditMatchesRuns, AuditCreate
    <2> QED
      BY <1>2, <2>1, <2>2, <2>3, <2>4 DEF JobInv, AuditCreate
  <1> QED
    BY <1>1, <1>2

\* The commit of the summary puts the run on record.
LEMMA SummarizeKeeps ==
    ASSUME JobInv, NEW r \in Runs, Summarize(r)
    PROVE  JobInv'
  <1> DEFINE t == runner[r]
             row == [job |-> t.job, status |-> "RUNNING"]
             moved == [t EXCEPT !.pc = "worked", !.lock = None]
  <1>1. t.pc = "running"
    BY DEF Summarize, At
  <1>2. t \in [pc: {"loaded", "running", "worked"}, job: Jobs, saw: Statuses,
               seen: BOOLEAN, lock: {"X", "S", None}, status: Outcomes]
    BY <1>1, RunnerFields
  <1>3. runs[r] = None
    BY <1>1, NoRunYet
  <1>4. /\ runs' = [runs EXCEPT ![r] = row]
        /\ runner' = [runner EXCEPT ![r] = moved]
        /\ jobs' = IF t.lock = "X" THEN [jobs EXCEPT ![t.job] = "RUNNING"] ELSE jobs
        /\ audit' = audit /\ created' = created /\ report' = TRUE
    BY DEF Summarize, Become, Publish
  <1>5. row \in RunRow /\ moved \in Runners
    BY <1>2 DEF RunRow, Runners
  <1>6. JobTypeOK'
    BY <1>2, <1>4, <1>5 DEF JobInv, JobTypeOK, Statuses
  <1>7. RunsOwned'
    <2> SUFFICES ASSUME NEW q \in Runs, runs'[q] # None
                 PROVE  \/ runner'[q].pc = "ended"
                        \/ runner'[q].pc = "worked"
                           /\ runs'[q] = [job |-> runner'[q].job, status |-> "RUNNING"]
      BY DEF RunsOwned, At
    <2>1. CASE q = r
      BY <2>1, <1>2, <1>4 DEF JobInv, JobTypeOK
    <2>2. CASE q # r
      BY <2>2, <1>4 DEF JobInv, JobTypeOK, RunsOwned, At
    <2> QED
      BY <2>1, <2>2
  <1>8. RunningJobHasRun'
    <2> SUFFICES ASSUME NEW j \in Jobs, jobs'[j] = "RUNNING"
                 PROVE  \E q \in Runs : runs'[q] = [job |-> j, status |-> "RUNNING"]
      BY DEF RunningJobHasRun
    <2>1. CASE jobs[j] = "RUNNING"
      <3>1. PICK q \in Runs : runs[q] = [job |-> j, status |-> "RUNNING"]
        BY <2>1 DEF JobInv, RunningJobHasRun
      <3>2. q # r
        BY <1>3, <3>1, RowAssumption DEF RunRow, Outcomes
      <3> QED
        BY <1>4, <3>1, <3>2 DEF JobInv, JobTypeOK
    <2>2. CASE jobs[j] # "RUNNING"
      <3>1. j = t.job
        BY <2>2, <1>4 DEF JobInv, JobTypeOK
      <3>2. runs'[r] = [job |-> j, status |-> "RUNNING"]
        BY <1>4, <3>1 DEF JobInv, JobTypeOK
      <3> QED
        BY <3>2
    <2> QED
      BY <2>1, <2>2
  <1>9. AuditMatchesRuns'
    <2> SUFFICES ASSUME NEW q \in Runs, NEW status \in Outcomes
                 PROVE  [action |-> "job.run", run |-> q, status |-> status] \in audit
                        <=> runs'[q] # None /\ runs'[q].status = status
      BY <1>4 DEF AuditMatchesRuns
    <2>1. CASE q = r
      <3>1. runs'[r] = row /\ row.status = "RUNNING"
        BY <1>4 DEF JobInv, JobTypeOK
      <3>2. status # "RUNNING"
        BY DEF Outcomes
      <3> QED
        BY <2>1, <1>3, <3>1, <3>2 DEF JobInv, AuditMatchesRuns
    <2>2. CASE q # r
      BY <2>2, <1>4 DEF JobInv, JobTypeOK, AuditMatchesRuns
    <2> QED
      BY <2>1, <2>2
  <1> QED
    BY <1>4, <1>6, <1>7, <1>8, <1>9 DEF JobInv

\* The end of a run rewrites it, its job and the audit log together.
LEMMA FinishKeeps ==
    ASSUME JobInv, NEW r \in Runs, Finish(r)
    PROVE  JobInv'
  <1> DEFINE t == runner[r]
             row == [job |-> t.job, status |-> t.status]
             entry == [action |-> "job.run", run |-> r, status |-> t.status]
  <1>1. t.pc = "worked"
    BY DEF Finish, At
  <1>2. t.job \in Jobs /\ t.status \in Outcomes
    BY <1>1, RunnerFields
  <1>3. runs[r] = None \/ runs[r] = [job |-> t.job, status |-> "RUNNING"]
    BY <1>1 DEF JobInv, RunsOwned, At
  <1>4. /\ runs' = [runs EXCEPT ![r] = row]
        /\ runner' = [runner EXCEPT ![r] = Ended]
        /\ jobs' = [jobs EXCEPT ![t.job] = Shown(r)]
        /\ audit' = audit \cup {entry} /\ created' = created /\ report' = report
    BY DEF Finish, Become
  <1>5. row \in RunRow /\ entry \in AuditRow /\ Shown(r) \in Statuses \ {"RUNNING"}
    BY <1>2 DEF RunRow, AuditRow, Shown, Statuses
  <1>6. JobTypeOK'
    BY <1>2, <1>4, <1>5 DEF JobInv, JobTypeOK, Runners
  <1>7. RunsOwned'
    BY <1>4 DEF JobInv, JobTypeOK, RunsOwned, At, Ended
  <1>8. RunningJobHasRun'
    <2> SUFFICES ASSUME NEW j \in Jobs, jobs'[j] = "RUNNING"
                 PROVE  \E q \in Runs : runs'[q] = [job |-> j, status |-> "RUNNING"]
      BY DEF RunningJobHasRun
    <2>1. j # t.job /\ jobs[j] = "RUNNING"
      BY <1>4, <1>5 DEF JobInv, JobTypeOK
    <2>2. PICK q \in Runs : runs[q] = [job |-> j, status |-> "RUNNING"]
      BY <2>1 DEF JobInv, RunningJobHasRun
    <2>3. q # r
      <3>1. [job |-> j, status |-> "RUNNING"] # None
        BY RowAssumption DEF RunRow
      <3>2. [job |-> j, status |-> "RUNNING"].job # [job |-> t.job, status |-> "RUNNING"].job
        BY <2>1
      <3> QED
        BY <1>3, <2>2, <3>1, <3>2
    <2> QED
      BY <1>4, <2>2, <2>3 DEF JobInv, JobTypeOK
  <1>9. AuditMatchesRuns'
    <2> SUFFICES ASSUME NEW q \in Runs, NEW status \in Outcomes
                 PROVE  [action |-> "job.run", run |-> q, status |-> status] \in audit'
                        <=> runs'[q] # None /\ runs'[q].status = status
      BY DEF AuditMatchesRuns
    <2> DEFINE wanted == [action |-> "job.run", run |-> q, status |-> status]
    <2>1. wanted = entry <=> q = r /\ status = t.status
      <3>1. wanted = entry => wanted.run = entry.run /\ wanted.status = entry.status
        OBVIOUS
      <3> QED
        BY <3>1
    <2>2. wanted \in audit <=> runs[q] # None /\ runs[q].status = status
      BY DEF JobInv, AuditMatchesRuns
    <2>3. CASE q = r
      <3>1. wanted \notin audit
        <4>1. status # "RUNNING"
          BY DEF Outcomes
        <4> QED
          BY <2>2, <2>3, <1>3, <4>1
      <3>2. runs'[q] = row /\ row # None /\ row.status = t.status
        BY <2>3, <1>4, <1>5, RowAssumption DEF JobInv, JobTypeOK
      <3> QED
        BY <1>4, <2>1, <2>3, <3>1, <3>2
    <2>4. CASE q # r
      BY <1>4, <2>1, <2>2, <2>4 DEF JobInv, JobTypeOK
    <2> QED
      BY <2>3, <2>4
  <1> QED
    BY <1>4, <1>6, <1>7, <1>8, <1>9 DEF JobInv

\* Reading the job, flushing, working, failing and ending.
LEMMA MovesKeep ==
    ASSUME JobInv, NEW r \in Runs,
           Load(r) \/ Begin(r) \/ Work(r) \/ Undo(r) \/ Refuse(r) \/ Die(r)
    PROVE  JobInv'
  <1> DEFINE Underway == [pc: {"loaded", "running", "worked"}, job: Jobs, saw: Statuses,
                          seen: BOOLEAN, lock: {"X", "S", None}, status: Outcomes]
  <1>0. Ended \in Runners /\ Ended.pc = "ended" /\ Underway \subseteq Runners
    BY DEF Runners, Ended
  <1>1. CASE Load(r)
    <2>1. PICK j \in Jobs :
             /\ At(r, "waiting")
             /\ jobs[j] # None
             /\ Become(r, [pc |-> "loaded", job |-> j, saw |-> jobs[j], seen |-> report,
                           lock |-> None, status |-> "SUCCESS"])
             /\ UNCHANGED <<jobs, runs, audit, created, report>>
      BY <1>1 DEF Load
    <2>2. runs[r] = None
      BY <2>1, NoRunYet DEF At
    <2>3. [pc |-> "loaded", job |-> j, saw |-> jobs[j], seen |-> report,
           lock |-> None, status |-> "SUCCESS"] \in Underway
      BY <2>1 DEF JobInv, JobTypeOK, Outcomes
    <2> QED
      BY <1>0, <2>1, <2>2, <2>3, MoveKeeps
  <1>2. CASE Begin(r)
    <2>1. runner[r].pc = "loaded"
      BY <1>2 DEF Begin, At
    <2>2. [runner[r] EXCEPT !.pc = "running", !.lock = Wanted(r)] \in Underway
      BY <2>1, RunnerFields DEF Wanted
    <2>3. runs[r] = None
      BY <2>1, NoRunYet
    <2> QED
      BY <1>0, <1>2, <2>2, <2>3, MoveKeeps DEF Begin
  <1>3. CASE Work(r)
    <2>1. runner[r].pc = "running"
      BY <1>3 DEF Work, At
    <2>2. PICK status \in Outcomes :
             Become(r, [runner[r] EXCEPT !.pc = "worked", !.status = status])
      BY <1>3 DEF Work
    <2>3. [runner[r] EXCEPT !.pc = "worked", !.status = status] \in Underway
      BY <2>1, RunnerFields
    <2>4. runs[r] = None
      BY <2>1, NoRunYet
    <2>5. UNCHANGED <<jobs, runs, audit, created, report>>
      BY <1>3 DEF Work
    <2> QED
      BY <1>0, <2>2, <2>3, <2>4, <2>5, MoveKeeps
  <1>4. CASE Undo(r) \/ Refuse(r) \/ Die(r)
    <2>1. Become(r, Ended) /\ UNCHANGED <<jobs, runs, audit, created, report>>
      BY <1>4 DEF Undo, Refuse, Die
    <2> QED
      BY <1>0, <2>1, MoveKeeps
  <1> QED
    BY <1>1, <1>2, <1>3, <1>4

\* Every step of create_job and run_job.
LEMMA JobNextKeeps == ASSUME JobInv, JobNext PROVE JobInv'
  BY CreateKeeps, SummarizeKeeps, FinishKeeps, MovesKeep DEF JobNext, RunStep

\* Chats touch the report only, and leave a report there.
LEMMA ChatKeeps == ASSUME JobInv, ChatNext, UNCHANGED jobVars PROVE JobInv'
  <1>1. report' \in BOOLEAN
    <2>1. PICK x \in Chats : Ask(x) \/ ChatStep(x) \/ Fail(x)
      BY DEF ChatNext
    <2>2. report' = report \/ report' = TRUE
      BY <2>1 DEF Ask, ChatStep, Turn, Query, Summary, Publish, Insert, Record, Lose, Fail
    <2> QED
      BY <2>2 DEF JobInv
  <1> QED
    BY <1>1 DEF JobInv, jobVars, JobTypeOK, RunsOwned, RunningJobHasRun, AuditMatchesRuns, At

\* A fault under a chat leaves even the report alone.
LEMMA FaultKeeps == ASSUME JobInv, NEW x \in Chats, Fault(x), UNCHANGED jobVars PROVE JobInv'
  BY DEF Fault, JobInv, jobVars, JobTypeOK, RunsOwned, RunningJobHasRun, AuditMatchesRuns, At

\* The invariant holds in every state of jobs and chats together.
LEMMA Invariance == Spec => []JobInv
  <1>1. Init => JobInv
    BY JobInitInv DEF Init
  <1>2. JobInv /\ [Next]_vars => JobInv'
    <2> SUFFICES ASSUME JobInv, [Next]_vars PROVE JobInv'
      OBVIOUS
    <2>1. CASE JobNext
      BY <2>1, JobNextKeeps
    <2>2. CASE ChatNext /\ UNCHANGED jobVars
      BY <2>2, ChatKeeps
    <2>4. CASE \E x \in Chats : Fault(x) /\ UNCHANGED jobVars
      BY <2>4, FaultKeeps
    <2>3. CASE UNCHANGED vars
      BY <2>3 DEF vars, jobVars, JobInv, JobTypeOK, RunsOwned, RunningJobHasRun,
                  AuditMatchesRuns, At
    <2> QED
      BY <2>1, <2>2, <2>3, <2>4 DEF Next
  <1> QED
    BY <1>1, <1>2, PTL DEF Spec

\* A job that shows RUNNING has a run that shows RUNNING, however many runs of
\* it overlap, fail or die, and whatever the chats do with the report
\* (run_job and the commit in generate_daily_summary).
THEOREM RunningJobsHaveRuns == Spec => []RunningJobHasRun
  <1>1. JobInv => RunningJobHasRun
    BY DEF JobInv
  <1> QED
    BY <1>1, Invariance, PTL

\* The audit log and the runs never disagree about which runs ended and how
\* (run_job commits the two together).
THEOREM AuditIsTruthful == Spec => []AuditMatchesRuns
  <1>1. JobInv => AuditMatchesRuns
    BY DEF JobInv
  <1> QED
    BY <1>1, Invariance, PTL

-----------------------------------------------------------------------------
(* The message_order of the chats.                                         *)

\* A bounded set of numbers has a largest one, and Max finds it.
LEMMA MaxBounded ==
    ASSUME NEW S \in SUBSET Nat, S # {}, NEW m \in Nat, \A s \in S : s <= m
    PROVE  Max(S) \in S /\ \A s \in S : s <= Max(S)
  <1> DEFINE bounds == {b \in Nat : \A s \in S : s <= b}
  <1>1. bounds \in SUBSET Nat /\ bounds # {}
    OBVIOUS
  <1> HIDE DEF bounds
  <1>2. PICK n \in bounds : \A b \in bounds : n <= b
    BY <1>1, Least
  <1>3. n \in S
    <2> SUFFICES ASSUME n \notin S PROVE FALSE
      OBVIOUS
    <2>1. n \in Nat /\ \A s \in S : s <= n
      BY <1>2 DEF bounds
    <2>2. \A s \in S : s < n
      BY <2>1
    <2>3. n # 0
      <3>1. PICK s \in S : TRUE
        OBVIOUS
      <3>2. s \in Nat /\ s < n
        BY <2>2, <3>1
      <3> QED
        BY <3>2
    <2>4. n - 1 \in Nat /\ \A s \in S : s <= n - 1
      BY <2>1, <2>2, <2>3
    <2>5. n - 1 \in bounds
      BY <2>4 DEF bounds
    <2> QED
      BY <1>2, <2>1, <2>5
  <1>4. n \in S /\ \A s \in S : n >= s
    BY <1>2, <1>3 DEF bounds
  <1>5. Max(S) \in S /\ \A s \in S : Max(S) >= s
    BY <1>4 DEF Max
  <1> QED
    BY <1>5

\* A chat's snapshot is taken after the exchanges it must follow were recorded,
\* and what is recorded stays.
ViewsFollow ==
    /\ \A x \in Recorded : chat[x].pc = "answered"
    /\ \A x \in Chats : before[x] \subseteq Recorded
    /\ \A x \in Chats : chat[x].pc = "new" => chat[x] = Start
    /\ \A x \in Chats : chat[x].pc = "recording" => chat[x].view # None
    /\ \A x \in Chats : chat[x].view # None =>
          \A y \in before[x] : exchange[y].last <= chat[x].view

\* However many chats there are, the messages of finitely many are numbered.
OrdersBounded == \E m \in Nat : \A x \in Recorded : exchange[x].last <= m

\* No turn makes more than MaxCalls calls.
CallsBounded == \A x \in Chats : chat[x].calls + chat[x].pending <= chat[x].turns * MaxCalls

ChatInv == ChatTypeOK /\ CallsBounded /\ OrdersBounded /\ ViewsFollow /\ OrderRespectsTime

\* max(message_order) is a number no recorded message exceeds.
LEMMA LastOrderBounds ==
    ASSUME ChatInv
    PROVE  LastOrder \in Nat /\ \A x \in Recorded : exchange[x].last <= LastOrder
  <1> DEFINE S == {0} \cup {exchange[x].last : x \in Recorded}
  <1>1. \A x \in Recorded : exchange[x].last \in Nat
    BY DEF ChatInv, ChatTypeOK, Recorded
  <1>2. S \in SUBSET Nat /\ S # {}
    BY <1>1
  <1>3. PICK m \in Nat : \A x \in Recorded : exchange[x].last <= m
    BY DEF ChatInv, OrdersBounded
  <1>4. \A s \in S : s <= m
    BY <1>3
  <1>5. Max(S) \in S /\ \A s \in S : s <= Max(S)
    BY <1>2, <1>4, MaxBounded
  <1>6. LastOrder = Max(S)
    BY DEF LastOrder
  <1> QED
    BY <1>2, <1>5, <1>6

\* A query keeps the request but for its snapshot, which holds all it must.
LEMMA QueryView ==
    ASSUME ChatInv, report \in BOOLEAN, NEW x \in Chats
    PROVE  /\ Querying(x) \in Requests
           /\ Querying(x).view \in Nat
           /\ \A y \in before[x] : exchange[y].last <= Querying(x).view
           /\ Querying(x).pc = chat[x].pc
           /\ Querying(x).turns = chat[x].turns
           /\ Querying(x).pending = chat[x].pending
           /\ Querying(x).calls = chat[x].calls
           /\ Querying(x).broken = chat[x].broken
  <1>1. chat[x] \in Requests
    BY DEF ChatInv, ChatTypeOK
  <1>2. CASE chat[x].view # None
    <2>1. chat[x].view \in Nat
      BY <1>1, <1>2 DEF Requests
    <2>2. \A y \in before[x] : exchange[y].last <= chat[x].view
      BY <1>2 DEF ChatInv, ViewsFollow
    <2>3. Querying(x) = chat[x]
      BY <1>2 DEF Querying
    <2> QED
      BY <1>1, <2>1, <2>2, <2>3
  <1>3. CASE chat[x].view = None
    <2>1. Querying(x) = [chat[x] EXCEPT !.view = LastOrder, !.seen = report]
      BY <1>3 DEF Querying
    <2>2. LastOrder \in Nat /\ \A y \in before[x] : exchange[y].last <= LastOrder
      BY LastOrderBounds DEF ChatInv, ViewsFollow
    <2>3. /\ Querying(x) \in Requests /\ Querying(x).view = LastOrder
          /\ Querying(x).pc = chat[x].pc /\ Querying(x).turns = chat[x].turns
          /\ Querying(x).pending = chat[x].pending /\ Querying(x).calls = chat[x].calls
          /\ Querying(x).broken = chat[x].broken
      BY <1>1, <2>1, <2>2 DEF Requests
    <2> QED
      BY <2>2, <2>3
  <1> QED
    BY <1>2, <1>3

\* A product grows by one factor when the other grows by one.
LEMMA TimesNext == ASSUME NEW a \in Nat, NEW b \in Nat PROVE (a + 1) * b = a * b + b
  OBVIOUS

\* Products of numbers are monotonic.
LEMMA TimesMonotonic ==
    ASSUME NEW a \in Nat, NEW b \in Nat, NEW c \in Nat, a <= c
    PROVE  a * b \in Nat /\ c * b \in Nat /\ a * b <= c * b
  OBVIOUS

\* A step that moves a chat and records nothing.
LEMMA ContinueKeeps ==
    ASSUME ChatInv, NEW x \in Chats, NEW c \in Requests, Continue(x, c),
           exchange' = exchange, before' = before, chat[x].pc \notin {"answered"},
           c.calls + c.pending <= c.turns * MaxCalls,
           c.pc # "new",
           c.pc = "recording" => c.view # None,
           c.view # None => \A y \in before[x] : exchange[y].last <= c.view
    PROVE  ChatInv'
  <1> USE DEF ChatInv
  <1>1. chat' = [chat EXCEPT ![x] = c]
    BY DEF Continue
  <1>2. chat'[x] = c /\ \A y \in Chats \ {x} : chat'[y] = chat[y]
    BY <1>1 DEF ChatTypeOK
  <1>3. Recorded' = Recorded
    BY DEF Recorded
  <1>4. ChatTypeOK'
    BY <1>1 DEF ChatTypeOK
  <1>5. CallsBounded'
    BY <1>2 DEF CallsBounded
  <1>6. OrdersBounded'
    BY <1>3 DEF OrdersBounded
  <1>7. x \notin Recorded
    BY DEF ViewsFollow
  <1>8. ViewsFollow'
    <2>1. \A y \in Recorded' : chat'[y].pc = "answered"
      BY <1>2, <1>3, <1>7 DEF ViewsFollow, Recorded
    <2>2. \A y \in Chats : before'[y] \subseteq Recorded'
      BY <1>3 DEF ViewsFollow
    <2>3. \A y \in Chats : chat'[y].pc = "new" => chat'[y] = Start
      BY <1>2 DEF ViewsFollow
    <2>4. \A y \in Chats : chat'[y].pc = "recording" => chat'[y].view # None
      BY <1>2 DEF ViewsFollow
    <2>5. \A y \in Chats : chat'[y].view # None =>
             \A z \in before'[y] : exchange'[z].last <= chat'[y].view
      BY <1>2 DEF ViewsFollow
    <2> QED
      BY <2>1, <2>2, <2>3, <2>4, <2>5 DEF ViewsFollow
  <1>9. OrderRespectsTime'
    BY <1>3 DEF OrderRespectsTime
  <1> QED
    BY <1>4, <1>5, <1>6, <1>8, <1>9

\* A request that is over or not yet begun.
LEMMA StartFields ==
    ASSUME NEW pc \in {"new", "answered", "failed"}
    PROVE  /\ Start \in Requests /\ [Start EXCEPT !.pc = pc] \in Requests
           /\ Start.pc = "new" /\ [Start EXCEPT !.pc = pc].pc = pc
           /\ [Start EXCEPT !.pc = pc].turns = 0 /\ [Start EXCEPT !.pc = pc].pending = 0
           /\ [Start EXCEPT !.pc = pc].calls = 0 /\ [Start EXCEPT !.pc = pc].view = None
           /\ Start.view = None /\ Start.turns = 0 /\ Start.pending = 0 /\ Start.calls = 0
  <1>1. 0 \in 0..MaxIterations /\ 0 \in 0..MaxCalls /\ 0 \in 0..(MaxIterations * MaxCalls)
    BY ChatAssumption, TimesMonotonic
  <1>2. Start \in Requests /\ Start.view = None /\ Start.turns = 0 /\ Start.pending = 0
        /\ Start.calls = 0 /\ Start.pc = "new"
    BY <1>1 DEF Start, Requests
  <1> QED
    BY <1>2 DEF Requests

\* POST /chat begins.
LEMMA AskKeeps == ASSUME ChatInv, report \in BOOLEAN, NEW x \in Chats, Ask(x) PROVE ChatInv'
  <1> USE DEF ChatInv
  <1> DEFINE c == [Querying(x) EXCEPT !.pc = "asking"]
  <1>1. /\ chat[x].pc = "new" /\ chat' = [chat EXCEPT ![x] = c]
        /\ before' = [before EXCEPT ![x] = Recorded] /\ exchange' = exchange
    BY DEF Ask, Busy, Continue
  <1>2. chat[x] = Start
    BY <1>1 DEF ViewsFollow
  <1>3. Querying(x) = [Start EXCEPT !.view = LastOrder, !.seen = report]
    BY <1>2, StartFields DEF Querying
  <1>4. LastOrder \in Nat /\ \A y \in Recorded : exchange[y].last <= LastOrder
    BY LastOrderBounds
  <1>5. Querying(x).view = LastOrder
    BY <1>3, StartFields DEF Requests
  <1>6. /\ c \in Requests /\ c.pc = "asking" /\ c.view = LastOrder
        /\ c.turns = 0 /\ c.pending = 0 /\ c.calls = 0
    <2>1. Querying(x) \in Requests /\ Querying(x).turns = 0 /\ Querying(x).pending = 0
          /\ Querying(x).calls = 0
      BY <1>2, QueryView, StartFields
    <2> QED
      BY <1>5, <2>1 DEF Requests
  <1> HIDE DEF c
  <1>7. chat'[x] = c /\ \A y \in Chats \ {x} : chat'[y] = chat[y]
    BY <1>1 DEF ChatTypeOK
  <1>8. before'[x] = Recorded /\ \A y \in Chats \ {x} : before'[y] = before[y]
    BY <1>1 DEF ChatTypeOK
  <1>9. Recorded' = Recorded
    BY <1>1 DEF Recorded
  <1>10. ChatTypeOK'
    BY <1>1, <1>6 DEF ChatTypeOK, Recorded
  <1>11. CallsBounded'
    BY <1>6, <1>7, ChatAssumption DEF CallsBounded
  <1>12. OrdersBounded'
    BY <1>1, <1>9 DEF OrdersBounded
  <1>13. x \notin Recorded
    BY <1>1 DEF ViewsFollow
  <1>14. ViewsFollow'
    <2>1. \A y \in Recorded' : chat'[y].pc = "answered"
      BY <1>7, <1>9, <1>13 DEF ViewsFollow, Recorded
    <2>2. \A y \in Chats : before'[y] \subseteq Recorded'
      BY <1>8, <1>9 DEF ViewsFollow
    <2>3. \A y \in Chats : /\ chat'[y].pc = "new" => chat'[y] = Start
                           /\ chat'[y].pc = "recording" => chat'[y].view # None
      BY <1>6, <1>7 DEF ViewsFollow
    <2>4. \A y \in Chats : chat'[y].view # None =>
             \A z \in before'[y] : exchange'[z].last <= chat'[y].view
      BY <1>1, <1>4, <1>6, <1>7, <1>8 DEF ViewsFollow
    <2> QED
      BY <2>1, <2>2, <2>3, <2>4 DEF ViewsFollow
  <1>15. OrderRespectsTime'
    BY <1>1, <1>8, <1>9, <1>13 DEF OrderRespectsTime
  <1> QED
    BY <1>10, <1>11, <1>12, <1>14, <1>15

\* A chat that is over waits for nothing and has no transaction.
LEMMA EndKeeps ==
    ASSUME ChatInv, NEW x \in Chats, NEW pc \in {"answered", "failed"}, End(x, pc),
           chat[x].pc \in {"asking", "recording"}, exchange' = exchange, before' = before
    PROVE  ChatInv'
  <1> DEFINE c == [Start EXCEPT !.pc = pc]
  <1>1. c \in Requests /\ c.pc = pc /\ c.view = None
    BY StartFields
  <1>2. c.calls + c.pending <= c.turns * MaxCalls
    BY StartFields, ChatAssumption
  <1>3. Continue(x, c)
    BY DEF End
  <1> HIDE DEF c
  <1> QED
    BY <1>1, <1>2, <1>3, ContinueKeeps

\* The request after one more turn.
LEMMA TurnFields ==
    ASSUME NEW c \in Requests, NEW n \in 1..MaxCalls, c.turns + 1 \in 0..MaxIterations
    PROVE  LET d == [c EXCEPT !.turns = @ + 1, !.pending = n]
           IN  /\ d \in Requests /\ d.pc = c.pc /\ d.turns = c.turns + 1 /\ d.pending = n
               /\ d.calls = c.calls /\ d.view = c.view
  <1>1. n \in 0..MaxCalls
    BY ChatAssumption
  <1> QED
    BY <1>1 DEF Requests

\* The request after one more call of a tool.
LEMMA CallFields ==
    ASSUME NEW c \in Requests, c.pending - 1 \in 0..MaxCalls,
           c.calls + 1 \in 0..(MaxIterations * MaxCalls)
    PROVE  LET d == [c EXCEPT !.pending = @ - 1, !.calls = @ + 1]
           IN  /\ d \in Requests /\ d.pc = c.pc /\ d.turns = c.turns /\ d.broken = c.broken
               /\ d.pending = c.pending - 1 /\ d.calls = c.calls + 1 /\ d.view = c.view
  BY DEF Requests

\* The model's turns and the tools it calls.
LEMMA ToolsKeep ==
    ASSUME ChatInv, report \in BOOLEAN, NEW x \in Chats, Turn(x) \/ Query(x) \/ Summary(x)
    PROVE  ChatInv'
  <1> USE DEF Busy
  <1>0. /\ chat[x] \in Requests /\ Querying(x) \in Requests
        /\ chat[x].calls + chat[x].pending <= chat[x].turns * MaxCalls
    BY QueryView DEF ChatInv, ChatTypeOK, CallsBounded
  <1>1. MaxIterations \in Nat /\ MaxCalls \in Nat
    BY ChatAssumption
  <1>2. /\ chat[x].turns \in Nat /\ chat[x].turns <= MaxIterations
        /\ chat[x].pending \in 0..MaxCalls /\ chat[x].calls \in Nat
    <2>1. MaxIterations * MaxCalls \in Nat
      BY <1>1, TimesMonotonic
    <2> QED
      BY <1>0, <1>1, <2>1 DEF Requests
  <1>3. /\ chat[x].turns * MaxCalls \in Nat /\ MaxIterations * MaxCalls \in Nat
        /\ chat[x].turns * MaxCalls <= MaxIterations * MaxCalls
    BY <1>1, <1>2, TimesMonotonic
  <1>4. CASE Turn(x)
    <2>1. PICK n \in 1..MaxCalls :
            /\ chat[x].pc = "asking" /\ chat[x].pending = 0 /\ chat[x].turns < MaxIterations
            /\ Continue(x, [chat[x] EXCEPT !.turns = @ + 1, !.pending = n])
            /\ UNCHANGED <<exchange, before, report>>
      BY <1>4, Zenon DEF Turn
    <2> DEFINE c == [chat[x] EXCEPT !.turns = @ + 1, !.pending = n]
    <2>2. chat[x].turns + 1 \in 0..MaxIterations
      BY <1>1, <1>2, <2>1
    <2>3. /\ c \in Requests /\ c.pc = "asking" /\ c.turns = chat[x].turns + 1 /\ c.pending = n
          /\ c.calls = chat[x].calls /\ c.view = chat[x].view
      BY <1>0, <2>1, <2>2, TurnFields, Zenon
    <2> HIDE DEF c
    <2>4. c.turns * MaxCalls = chat[x].turns * MaxCalls + MaxCalls
      BY <1>1, <1>2, <2>3, TimesNext
    <2>5. c.calls + c.pending <= c.turns * MaxCalls
      BY <1>0, <1>1, <1>2, <1>3, <2>1, <2>3, <2>4
    <2>6. c.view # None => \A y \in before[x] : exchange[y].last <= c.view
      BY <2>3 DEF ChatInv, ViewsFollow
    <2> QED
      BY <2>1, <2>3, <2>5, <2>6, ContinueKeeps DEF c
  <1>5. ASSUME Query(x) \/ Summary(x) PROVE ChatInv'
    <2>1. /\ chat[x].pc = "asking" /\ chat[x].pending > 0
          /\ exchange' = exchange /\ before' = before
      BY <1>5 DEF Query, Summary
    <2>2. chat[x].calls + 1 \in 0..(MaxIterations * MaxCalls) /\ chat[x].pending - 1 \in 0..MaxCalls
      BY <1>0, <1>1, <1>2, <1>3, <2>1
    <2>3. ASSUME NEW d \in Requests, Continue(x, d), d.pc = "asking",
                 d.pending = chat[x].pending - 1, d.calls = chat[x].calls + 1,
                 d.turns = chat[x].turns, d.view \in {None, chat[x].view, Querying(x).view}
          PROVE  ChatInv'
      <3>1. d.calls + d.pending <= d.turns * MaxCalls
        BY <1>0, <1>2, <1>3, <2>3
      <3>2. d.view # None => \A y \in before[x] : exchange[y].last <= d.view
        BY <2>3, QueryView DEF ChatInv, ViewsFollow
      <3> QED
        BY <2>1, <2>3, <3>1, <3>2, ContinueKeeps
    <2>4. CASE Query(x)
      <3>1. PICK c \in {chat[x], Querying(x)} :
              Continue(x, [c EXCEPT !.pending = @ - 1, !.calls = @ + 1])
        BY <2>4, Zenon DEF Query
      <3>2. /\ c \in Requests /\ c.pc = "asking" /\ c.pending = chat[x].pending
            /\ c.calls = chat[x].calls /\ c.turns = chat[x].turns
        BY <1>0, <2>1, QueryView
      <3> DEFINE d == [c EXCEPT !.pending = @ - 1, !.calls = @ + 1]
      <3>3. /\ d \in Requests /\ d.pc = "asking" /\ d.turns = chat[x].turns
            /\ d.pending = chat[x].pending - 1 /\ d.calls = chat[x].calls + 1 /\ d.view = c.view
        BY <2>2, <3>2, CallFields, Zenon
      <3> HIDE DEF d
      <3> QED
        BY <2>3, <3>1, <3>3 DEF d
    <2>5. CASE Summary(x)
      <3> DEFINE c == Querying(x)
                 d == [c EXCEPT !.pending = @ - 1, !.calls = @ + 1]
                 freed == [d EXCEPT !.view = None]
                 broken == [d EXCEPT !.broken = TRUE]
      <3>1. Continue(x, freed) \/ Continue(x, broken)
        BY <2>5, Zenon DEF Summary
      <3>2. /\ d \in Requests /\ d.pc = "asking" /\ d.turns = chat[x].turns
            /\ d.pending = chat[x].pending - 1 /\ d.calls = chat[x].calls + 1 /\ d.view = c.view
        BY <1>0, <2>1, <2>2, QueryView, CallFields, Zenon
      <3> HIDE DEF c, d
      <3>3. /\ freed \in Requests /\ freed.pc = d.pc /\ freed.turns = d.turns
            /\ freed.pending = d.pending /\ freed.calls = d.calls /\ freed.view = None
        BY <3>2 DEF Requests
      <3>4. /\ broken \in Requests /\ broken.pc = d.pc /\ broken.turns = d.turns
            /\ broken.pending = d.pending /\ broken.calls = d.calls /\ broken.view = d.view
        BY <3>2 DEF Requests
      <3> HIDE DEF freed, broken
      <3>5. CASE Continue(x, freed)
        BY <2>3, <3>2, <3>3, <3>5
      <3>6. CASE Continue(x, broken)
        BY <2>3, <3>2, <3>4, <3>6 DEF c
      <3> QED
        BY <3>1, <3>5, <3>6
    <2> QED
      BY <1>5, <2>4, <2>5
  <1> QED
    BY <1>4, <1>5

\* The messages are inserted.
LEMMA InsertKeeps ==
    ASSUME ChatInv, report \in BOOLEAN, NEW x \in Chats, Insert(x) PROVE ChatInv'
  <1> DEFINE c == Querying(x)
             d == [c EXCEPT !.pc = "recording"]
  <1>1. /\ chat[x].pc = "asking" /\ Continue(x, d)
        /\ exchange' = exchange /\ before' = before
    BY DEF Insert, Done, Busy
  <1>2. c \in Requests
    BY QueryView
  <1>3. /\ d \in Requests /\ d.pc = "recording" /\ d.view = c.view
        /\ d.calls = c.calls /\ d.pending = c.pending /\ d.turns = c.turns
    BY <1>2 DEF Requests
  <1>4. c.view \in Nat /\ \A y \in before[x] : exchange[y].last <= c.view
    BY QueryView
  <1>5. d.calls + d.pending <= d.turns * MaxCalls
    BY <1>3, QueryView DEF ChatInv, CallsBounded
  <1> HIDE DEF c, d
  <1>6. d.view # None
    BY <1>3, <1>4, ChatNoneAssumption
  <1> QED
    BY <1>1, <1>3, <1>4, <1>5, <1>6, ContinueKeeps

\* The exchange is committed with orders after those of its snapshot.
LEMMA RecordKeeps == ASSUME ChatInv, NEW x \in Chats, Record(x) PROVE ChatInv'
  <1> USE DEF ChatInv
  <1> DEFINE row == [first |-> chat[x].view + 1, last |-> chat[x].view + 1 + 1 + chat[x].calls]
             c == [Start EXCEPT !.pc = "answered"]
  <1>1. /\ chat[x].pc = "recording" /\ chat' = [chat EXCEPT ![x] = c]
        /\ exchange' = [exchange EXCEPT ![x] = row] /\ before' = before
    BY DEF Record, Busy, End, Continue
  <1>2. chat[x].view \in Nat /\ chat[x].calls \in Nat
    BY <1>1, ChatAssumption, TimesMonotonic DEF ChatTypeOK, Requests, ViewsFollow
  <1>3. row \in [first: Nat, last: Nat] /\ row.first = chat[x].view + 1 /\ row # None
    BY <1>2, ChatNoneAssumption
  <1>4. c \in Requests /\ c.pc = "answered" /\ c.view = None
    BY StartFields
  <1>5. c.calls + c.pending <= c.turns * MaxCalls
    BY StartFields, ChatAssumption
  <1>6. \A y \in before[x] : exchange[y].last <= chat[x].view
    BY <1>1 DEF ViewsFollow
  <1> HIDE DEF row, c
  <1>7. /\ chat'[x] = c /\ \A y \in Chats \ {x} : chat'[y] = chat[y]
        /\ exchange'[x] = row /\ \A y \in Chats \ {x} : exchange'[y] = exchange[y]
    BY <1>1 DEF ChatTypeOK
  <1>8. x \notin Recorded /\ Recorded' = Recorded \cup {x}
    BY <1>1, <1>3, <1>7 DEF ViewsFollow, Recorded
  <1>9. ChatTypeOK'
    BY <1>1, <1>3, <1>4 DEF ChatTypeOK
  <1>10. CallsBounded'
    BY <1>5, <1>7 DEF CallsBounded
  <1>11. OrdersBounded'
    <2>1. PICK m \in Nat : \A y \in Recorded : exchange[y].last <= m
      BY DEF OrdersBounded
    <2>2. row.last \in Nat /\ m + row.last \in Nat
      BY <1>3
    <2>3. \A y \in Recorded : exchange[y].last \in Nat
      BY DEF ChatTypeOK, Recorded
    <2>4. \A y \in Recorded' : exchange'[y].last <= m + row.last
      BY <1>7, <1>8, <2>1, <2>2, <2>3 DEF Recorded
    <2> QED
      BY <2>2, <2>4 DEF OrdersBounded
  <1>12. ViewsFollow'
    <2>1. \A y \in Recorded' : chat'[y].pc = "answered"
      BY <1>4, <1>7, <1>8 DEF ViewsFollow, Recorded
    <2>2. \A y \in Chats : before'[y] \subseteq Recorded'
      BY <1>1, <1>8 DEF ViewsFollow
    <2>3. \A y \in Chats : /\ chat'[y].pc = "new" => chat'[y] = Start
                           /\ chat'[y].pc = "recording" => chat'[y].view # None
      BY <1>4, <1>7 DEF ViewsFollow
    <2>4. \A y \in Chats : chat'[y].view # None =>
             \A z \in before'[y] : exchange'[z].last <= chat'[y].view
      <3>1. \A y \in Chats : \A z \in before[y] : z \in Chats \ {x}
        BY <1>8 DEF ViewsFollow, Recorded
      <3> QED
        BY <1>1, <1>4, <1>7, <3>1 DEF ViewsFollow
    <2> QED
      BY <2>1, <2>2, <2>3, <2>4 DEF ViewsFollow
  <1>13. OrderRespectsTime'
    <2> SUFFICES ASSUME NEW y \in Recorded', NEW z \in before[y]
                 PROVE  exchange'[z].last < exchange'[y].first
      BY <1>1 DEF OrderRespectsTime
    <2>1. z \in Recorded /\ z \in Chats \ {x} /\ exchange'[z] = exchange[z]
      BY <1>7, <1>8 DEF ViewsFollow, Recorded
    <2>2. exchange[z].last \in Nat
      BY <2>1 DEF ChatTypeOK, Recorded
    <2>3. CASE y = x
      BY <1>2, <1>3, <1>6, <1>7, <2>1, <2>2, <2>3
    <2>4. CASE y # x
      BY <1>7, <1>8, <2>1, <2>4 DEF OrderRespectsTime, Recorded
    <2> QED
      BY <2>3, <2>4
  <1> QED
    BY <1>9, <1>10, <1>11, <1>12, <1>13

\* Every step of every chat.
LEMMA ChatNextKeeps == ASSUME ChatInv, report \in BOOLEAN, ChatNext PROVE ChatInv'
  <1>1. PICK x \in Chats : Ask(x) \/ ChatStep(x) \/ Fail(x)
    BY DEF ChatNext
  <1>2. CASE Lose(x)
    BY <1>2, EndKeeps DEF Lose, Done, Busy
  <1>3. CASE Fail(x)
    BY <1>3, EndKeeps DEF Fail, Busy
  <1> QED
    BY <1>1, <1>2, <1>3, AskKeeps, ToolsKeep, InsertKeeps, RecordKeeps DEF ChatStep

\* A fault breaks the session under a tool or ends the chat.
LEMMA ChatFaultKeeps == ASSUME ChatInv, NEW x \in Chats, Fault(x) PROVE ChatInv'
  <1> USE DEF Busy
  <1>1. exchange' = exchange /\ before' = before
    BY DEF Fault
  <1>2. CASE (Done(x) \/ Busy(x, "recording")) /\ End(x, "answered")
    BY <1>1, <1>2, EndKeeps DEF Done
  <1>3. CASE /\ chat[x].pc = "asking" /\ chat[x].pending > 0
             /\ Continue(x, [chat[x] EXCEPT !.pending = @ - 1, !.calls = @ + 1, !.broken = TRUE])
    <2> DEFINE c == chat[x]
               d == [c EXCEPT !.pending = @ - 1, !.calls = @ + 1, !.broken = TRUE]
    <2>1. c \in Requests /\ c.calls + c.pending <= c.turns * MaxCalls
      BY DEF ChatInv, ChatTypeOK, CallsBounded
    <2>2. MaxIterations \in Nat /\ MaxCalls \in Nat
      BY ChatAssumption
    <2>3. /\ c.turns \in Nat /\ c.turns <= MaxIterations
          /\ c.pending \in 0..MaxCalls /\ c.calls \in Nat
      <3>1. MaxIterations * MaxCalls \in Nat
        BY <2>2, TimesMonotonic
      <3> QED
        BY <2>1, <2>2, <3>1 DEF Requests
    <2>4. /\ c.turns * MaxCalls \in Nat /\ MaxIterations * MaxCalls \in Nat
          /\ c.turns * MaxCalls <= MaxIterations * MaxCalls
      BY <2>2, <2>3, TimesMonotonic
    <2>5. c.calls + 1 \in 0..(MaxIterations * MaxCalls) /\ c.pending - 1 \in 0..MaxCalls
      BY <1>3, <2>1, <2>2, <2>3, <2>4
    <2>6. /\ d \in Requests /\ d.pc = c.pc /\ d.turns = c.turns /\ d.view = c.view
          /\ d.pending = c.pending - 1 /\ d.calls = c.calls + 1
      BY <2>1, <2>5 DEF Requests
    <2>7. d.view # None => \A y \in before[x] : exchange[y].last <= d.view
      BY <2>6 DEF ChatInv, ViewsFollow
    <2>8. d.calls + d.pending <= d.turns * MaxCalls
      BY <2>1, <2>3, <2>4, <2>6
    <2> HIDE DEF d
    <2> QED
      BY <1>1, <1>3, <2>6, <2>7, <2>8, ContinueKeeps DEF d
  <1> QED
    BY <1>2, <1>3 DEF Fault

\* What chats know holds of every run of jobs and chats together.
LEMMA ChatInvariance == Spec => []ChatInv
  <1>1. Init => ChatInv
    <2> SUFFICES ASSUME Init PROVE ChatInv
      OBVIOUS
    <2>3. Recorded = {}
      BY DEF Init, ChatInit, Recorded
    <2> QED
      <3>1. ChatTypeOK
        BY StartFields DEF Init, ChatInit, ChatTypeOK
      <3>2. CallsBounded
        BY StartFields, ChatAssumption DEF Init, ChatInit, CallsBounded
      <3>3. OrdersBounded /\ OrderRespectsTime
        BY <2>3 DEF OrdersBounded, OrderRespectsTime
      <3>4. ViewsFollow
        BY <2>3, StartFields DEF Init, ChatInit, ViewsFollow
      <3> QED
        BY <3>1, <3>2, <3>3, <3>4 DEF ChatInv
  <1>2. JobInv /\ ChatInv /\ [Next]_vars => ChatInv'
    <2> SUFFICES ASSUME JobInv, ChatInv, [Next]_vars PROVE ChatInv'
      OBVIOUS
    <2>1. CASE ChatNext
      BY <2>1, ChatNextKeeps DEF JobInv
    <2>3. CASE \E x \in Chats : Fault(x)
      BY <2>3, ChatFaultKeeps
    <2>2. CASE UNCHANGED chatVars
      BY <2>2 DEF chatVars, ChatInv, ChatTypeOK, CallsBounded, OrdersBounded, ViewsFollow,
                  OrderRespectsTime, Recorded
    <2> QED
      BY <2>1, <2>2, <2>3 DEF Next, vars
  <1> QED
    BY <1>1, <1>2, Invariance, PTL DEF Spec

\* An exchange asked after another was recorded follows it in message_order
\* with all of its messages (record_chat_exchange), for every number of chats
\* of a session, of turns and of tool calls.
THEOREM OrdersRespectTime == Spec => []OrderRespectsTime
  <1>1. ChatInv => OrderRespectsTime
    BY DEF ChatInv
  <1> QED
    BY <1>1, ChatInvariance, PTL

-----------------------------------------------------------------------------
(* Chats that nothing disturbs.                                            *)

\* While nothing else is under way, a chat's snapshot is the current state of
\* the session and of the report, and nothing has broken its session.
Undisturbed(x) ==
    /\ ~RunActive /\ Active = {x}
    /\ ~chat[x].broken
    /\ chat[x].view # None => chat[x].view = LastOrder /\ chat[x].seen = report

QuietInv == QuietChatsRecorded /\ \A x \in Active \ disturbed : Undisturbed(x)

\* The requests to run a job leave the report alone unless a run is under way.
LEMMA JobsReport == ASSUME JobNext, report' # report PROVE RunActive
  <1>1. ASSUME NEW j \in Jobs PROVE ~(Create(j) \/ AuditCreate(j))
    BY DEF Create, AuditCreate
  <1>2. PICK r \in Runs : Load(r) \/ RunStep(r) \/ Die(r)
    BY <1>1 DEF JobNext
  <1>3. Summarize(r)
    <2>1. ~Load(r) /\ ~Begin(r) /\ ~Work(r)
      BY Zenon DEF Load, Begin, Work
    <2>2. ~Undo(r) /\ ~Finish(r) /\ ~Refuse(r) /\ ~Die(r)
      BY Zenon DEF Undo, Finish, Refuse, Die
    <2> QED
      BY <1>2, <2>1, <2>2 DEF RunStep
  <1> QED
    BY <1>3 DEF Summarize, At, RunActive

\* What is undisturbed stays so when only runs move, as none does.
LEMMA JobsQuiet ==
    ASSUME QuietInv, JobNext, UNCHANGED chatVars, Observe
    PROVE  QuietInv'
  <1>1. /\ disturbed \subseteq disturbed'
        /\ \A x \in Active' \ disturbed' : ~RunActive' /\ Active' = {x}
    BY DEF Observe, Crowded
  <1>2. Active' = Active /\ LastOrder' = LastOrder
    BY DEF Active, LastOrder, Recorded, chatVars
  <1>3. QuietChatsRecorded'
    BY <1>1 DEF QuietInv, QuietChatsRecorded, chatVars
  <1>4. ASSUME NEW x \in Active' \ disturbed' PROVE Undisturbed(x)'
    <2>1. Undisturbed(x)
      BY <1>1, <1>2 DEF QuietInv
    <2>2. report' = report
      BY <2>1, JobsReport DEF Undisturbed
    <2> QED
      BY <1>1, <1>2, <2>1, <2>2 DEF Undisturbed, chatVars
  <1> QED
    BY <1>3, <1>4 DEF QuietInv

\* A query sees the current state in an undisturbed chat.
LEMMA QuietQuery ==
    ASSUME NEW x \in Chats, chat[x] \in Requests,
           ~chat[x].broken, chat[x].view # None => chat[x].view = LastOrder /\ chat[x].seen = report
    PROVE  /\ ~Querying(x).broken
           /\ Querying(x).view = LastOrder /\ Querying(x).seen = report
  <1>1. CASE chat[x].view # None
    BY <1>1 DEF Querying
  <1>2. CASE chat[x].view = None
    <2>1. Querying(x) = [chat[x] EXCEPT !.view = LastOrder, !.seen = report]
      BY <1>2 DEF Querying
    <2> QED
      BY <2>1 DEF Requests
  <1> QED
    BY <1>1, <1>2

\* The phase of a request says nothing of its snapshot.
LEMMA PhaseView ==
    ASSUME NEW c \in Requests, NEW d, NEW pc, d = [c EXCEPT !.pc = pc]
    PROVE  d.pc = pc /\ d.broken = c.broken /\ d.view = c.view /\ d.seen = c.seen
  BY DEF Requests

\* Turns and calls leave a request's snapshot alone.
LEMMA SameView ==
    ASSUME NEW c \in Requests, NEW d, NEW n,
           \/ d = [c EXCEPT !.turns = @ + 1, !.pending = n]
           \/ d = [c EXCEPT !.pending = @ - 1, !.calls = @ + 1]
    PROVE  d.pc = c.pc /\ d.broken = c.broken /\ d.view = c.view /\ d.seen = c.seen
  BY DEF Requests

\* The commit of a summary ends the snapshot.
LEMMA FreedView ==
    ASSUME NEW c \in Requests
    PROVE  LET d == [c EXCEPT !.pending = @ - 1, !.calls = @ + 1]
           IN  /\ [d EXCEPT !.view = None].pc = c.pc
               /\ [d EXCEPT !.view = None].broken = c.broken
               /\ [d EXCEPT !.view = None].view = None
  BY DEF Requests

\* A step of a chat that leaves it undisturbed, and of one that was lost, if no
\* other is under way.
LEMMA StepQuiet ==
    ASSUME JobInv, ChatInv, NEW x \in Chats, Ask(x) \/ ChatStep(x) \/ Fail(x),
           chat[x].pc \in {"asking", "recording"} => Undisturbed(x),
           UNCHANGED jobVars
    PROVE  /\ chat'[x].pc \in {"asking", "recording"} =>
                 /\ ~chat'[x].broken
                 /\ chat'[x].view # None => chat'[x].view = LastOrder' /\ chat'[x].seen = report'
           /\ chat'[x].pc = "answered" => exchange'[x] # None
  <1> USE DEF Busy
  <1>1. chat[x] \in Requests /\ Querying(x) \in Requests /\ report \in BOOLEAN
    BY QueryView DEF JobInv, ChatInv, ChatTypeOK
  <1>2. chat \in [Chats -> Requests]
    BY DEF ChatInv, ChatTypeOK
  <1>3. chat[x].pc = "new" => ~chat[x].broken /\ chat[x].view = None
    BY DEF ChatInv, ViewsFollow, Start
  <1>4. exchange' = exchange => LastOrder' = LastOrder
    BY DEF LastOrder, Recorded
  <1>5. ~Querying(x).broken /\ Querying(x).view = LastOrder /\ Querying(x).seen = report
    <2>1. chat[x].pc \in {"new", "asking", "recording"}
      BY Zenon DEF Ask, ChatStep, Turn, Query, Summary, Insert, Record, Lose, Fail, Done
    <2> QED
      BY <1>1, <1>3, <2>1, QuietQuery DEF Undisturbed
  <1>6. CASE Ask(x)
    <2>1. chat' = [chat EXCEPT ![x] = [Querying(x) EXCEPT !.pc = "asking"]]
      BY <1>6 DEF Ask, Continue
    <2>2. exchange' = exchange /\ report' = report
      BY <1>6 DEF Ask
    <2>3. chat'[x] = [Querying(x) EXCEPT !.pc = "asking"]
      BY <1>2, <2>1
    <2>4. /\ chat'[x].pc = "asking" /\ chat'[x].broken = Querying(x).broken
          /\ chat'[x].view = Querying(x).view /\ chat'[x].seen = Querying(x).seen
      BY <1>1, <2>3, PhaseView
    <2> QED
      BY <1>4, <1>5, <2>2, <2>4
  <1>7. CASE Turn(x)
    <2>1. PICK n \in 1..MaxCalls :
            /\ chat[x].pc = "asking"
            /\ Continue(x, [chat[x] EXCEPT !.turns = @ + 1, !.pending = n])
            /\ UNCHANGED <<exchange, before, report>>
      BY <1>7, Zenon DEF Turn
    <2>2. chat' = [chat EXCEPT ![x] = [chat[x] EXCEPT !.turns = @ + 1, !.pending = n]]
      BY <2>1, Zenon DEF Continue
    <2>3. chat'[x] = [chat[x] EXCEPT !.turns = @ + 1, !.pending = n]
      BY <1>2, <2>2
    <2>4. /\ chat'[x].pc = chat[x].pc /\ chat'[x].broken = chat[x].broken
          /\ chat'[x].view = chat[x].view /\ chat'[x].seen = chat[x].seen
      <3>1. PICK d : d = [chat[x] EXCEPT !.turns = @ + 1, !.pending = n]
        OBVIOUS
      <3>2. d.pc = chat[x].pc /\ d.broken = chat[x].broken /\ d.view = chat[x].view
            /\ d.seen = chat[x].seen
        BY <1>1, <3>1, SameView, Zenon
      <3>3. chat'[x] = d
        BY <2>3, <3>1, Zenon
      <3> QED
        BY <3>2, <3>3, Zenon
    <2> QED
      BY <1>4, <2>1, <2>4 DEF Undisturbed
  <1>8. CASE Query(x)
    <2>1. PICK c \in {chat[x], Querying(x)} :
            /\ chat[x].pc = "asking"
            /\ Continue(x, [c EXCEPT !.pending = @ - 1, !.calls = @ + 1])
            /\ UNCHANGED <<exchange, before, report>>
      BY <1>8, Zenon DEF Query
    <2>2. c \in Requests /\ c.pc = "asking"
      BY <1>1, <2>1, QueryView
    <2>3. chat' = [chat EXCEPT ![x] = [c EXCEPT !.pending = @ - 1, !.calls = @ + 1]]
      BY <2>1, Zenon DEF Continue
    <2>4. chat'[x] = [c EXCEPT !.pending = @ - 1, !.calls = @ + 1]
      BY <1>2, <2>3
    <2>5. /\ chat'[x].pc = c.pc /\ chat'[x].broken = c.broken
          /\ chat'[x].view = c.view /\ chat'[x].seen = c.seen
      BY <2>2, <2>4, SameView, Zenon
    <2> QED
      BY <1>4, <1>5, <2>1, <2>2, <2>5 DEF Undisturbed
  <1>9. CASE Summary(x)
    <2> DEFINE c == Querying(x)
               d == [c EXCEPT !.pending = @ - 1, !.calls = @ + 1]
    <2>1. /\ chat[x].pc = "asking"
          /\ Continue(x, [d EXCEPT !.view = None]) \/ Conflict(d.seen)
      BY <1>9, Zenon DEF Summary
    <2>2. ~Conflict(d.seen)
      <3>1. d.seen = c.seen
        BY <1>1, SameView, Zenon
      <3> QED
        BY <1>5, <3>1 DEF Conflict
    <2>3. chat' = [chat EXCEPT ![x] = [d EXCEPT !.view = None]]
      BY <2>1, <2>2, Zenon DEF Continue
    <2>4. chat'[x] = [d EXCEPT !.view = None]
      BY <1>2, <2>3
    <2>5. /\ chat'[x].pc = c.pc /\ chat'[x].broken = c.broken /\ chat'[x].view = None
      BY <1>1, <2>4, FreedView, Zenon
    <2>6. c.pc = "asking"
      BY <1>1, <2>1, QueryView
    <2> HIDE DEF c
    <2> QED
      BY <1>5, <2>5, <2>6 DEF c
  <1>10. CASE Insert(x)
    <2>1. chat' = [chat EXCEPT ![x] = [Querying(x) EXCEPT !.pc = "recording"]]
      BY <1>10, Zenon DEF Insert, Continue
    <2>2. exchange' = exchange /\ report' = report
      BY <1>10 DEF Insert
    <2>3. chat'[x] = [Querying(x) EXCEPT !.pc = "recording"]
      BY <1>2, <2>1
    <2>4. /\ chat'[x].pc = "recording" /\ chat'[x].broken = Querying(x).broken
          /\ chat'[x].view = Querying(x).view /\ chat'[x].seen = Querying(x).seen
      BY <1>1, <2>3, PhaseView
    <2> QED
      BY <1>4, <1>5, <2>2, <2>4
  <1>11. CASE Record(x)
    <2>1. /\ chat[x].pc = "recording" /\ chat' = [chat EXCEPT ![x] = [Start EXCEPT !.pc = "answered"]]
          /\ x \in Recorded'
      <3>1. chat[x].pc = "recording" /\ chat' = [chat EXCEPT ![x] = [Start EXCEPT !.pc = "answered"]]
        BY <1>11 DEF Record, End, Continue
      <3> DEFINE row == [first |-> chat[x].view + 1, last |-> chat[x].view + 1 + 1 + chat[x].calls]
      <3>2. exchange' = [exchange EXCEPT ![x] = row]
        BY <1>11 DEF Record
      <3>3. chat[x].view \in Nat /\ chat[x].calls \in Nat
        BY <1>1, <3>1, ChatAssumption, TimesMonotonic DEF Requests, ChatInv, ViewsFollow
      <3>4. row # None
        <4>1. row \in [first: Nat, last: Nat]
          BY <3>3
        <4> QED
          BY <4>1, ChatNoneAssumption
      <3> HIDE DEF row
      <3> QED
        BY <3>1, <3>2, <3>4 DEF Recorded, ChatInv, ChatTypeOK
    <2>2. chat'[x].pc = "answered"
      BY <1>2, <2>1, StartFields
    <2> QED
      BY <2>1, <2>2 DEF Recorded
  <1>12. CASE Lose(x)
    <2>1. chat[x].pc \in {"asking", "recording"}
      BY <1>12 DEF Lose, Done
    <2>2. Active = {x}
      BY <2>1 DEF Undisturbed
    <2>3. Recording(x) = {}
      BY <2>2 DEF Recording, Active
    <2> QED
      BY <1>5, <1>12, <2>3, Zenon DEF Lose
  <1>13. CASE Fail(x)
    <2>1. chat' = [chat EXCEPT ![x] = [Start EXCEPT !.pc = "failed"]]
      BY <1>13 DEF Fail, End, Continue
    <2>2. chat'[x].pc = "failed"
      BY <1>2, <2>1, StartFields
    <2> QED
      BY <2>2
  <1> QED
    BY <1>6, <1>7, <1>8, <1>9, <1>10, <1>11, <1>12, <1>13 DEF ChatStep

\* Only the chat that takes a step is moved by it.
LEMMA StepLocal ==
    ASSUME ChatInv, NEW x \in Chats, Ask(x) \/ ChatStep(x) \/ Fail(x)
    PROVE  /\ \A y \in Chats \ {x} : chat'[y] = chat[y] /\ exchange'[y] = exchange[y]
           /\ chat[x].pc \in {"new", "asking", "recording"}
  <1> USE DEF Busy
  <1>1. chat[x].pc \in {"new", "asking", "recording"}
    BY Zenon DEF Ask, ChatStep, Turn, Query, Summary, Insert, Record, Lose, Fail, Done
  <1>2. \E c : chat' = [chat EXCEPT ![x] = c]
    <2>1. Ask(x) \/ Turn(x) \/ Query(x) \/ Summary(x) => \E c : chat' = [chat EXCEPT ![x] = c]
      BY Zenon DEF Ask, Turn, Query, Summary, Continue
    <2>2. Insert(x) \/ Record(x) \/ Lose(x) \/ Fail(x) => \E c : chat' = [chat EXCEPT ![x] = c]
      BY Zenon DEF Insert, Record, Lose, Fail, End, Continue
    <2> QED
      BY <2>1, <2>2 DEF ChatStep
  <1>3. exchange' = exchange \/ \E row : exchange' = [exchange EXCEPT ![x] = row]
    <2>1. Ask(x) \/ Turn(x) \/ Query(x) \/ Summary(x) => exchange' = exchange
      BY Zenon DEF Ask, Turn, Query, Summary
    <2>2. Insert(x) \/ Lose(x) \/ Fail(x) => exchange' = exchange
      BY Zenon DEF Insert, Lose, Fail
    <2>3. Record(x) => \E row : exchange' = [exchange EXCEPT ![x] = row]
      BY Zenon DEF Record
    <2> QED
      BY <2>1, <2>2, <2>3 DEF ChatStep
  <1> QED
    BY <1>1, <1>2, <1>3 DEF ChatInv, ChatTypeOK

\* What is undisturbed stays so when only one chat is active.
LEMMA ChatsQuiet ==
    ASSUME JobInv, ChatInv, QuietInv, ChatNext, UNCHANGED jobVars, Observe
    PROVE  QuietInv'
  <1>1. PICK y \in Chats : Ask(y) \/ ChatStep(y) \/ Fail(y)
    BY DEF ChatNext
  <1>2. /\ disturbed \subseteq disturbed'
        /\ \A x \in Active' \ disturbed' : ~RunActive' /\ Active' = {x}
    BY DEF Observe, Crowded
  <1>3. /\ \A x \in Chats \ {y} : chat'[x] = chat[x] /\ exchange'[x] = exchange[x]
        /\ chat[y].pc \in {"new", "asking", "recording"}
    BY <1>1, StepLocal
  <1>4. y \notin disturbed => (chat[y].pc \in {"asking", "recording"} => Undisturbed(y))
    BY DEF QuietInv, Active
  <1>5. y \notin disturbed =>
           /\ chat'[y].pc \in {"asking", "recording"} =>
                 /\ ~chat'[y].broken
                 /\ chat'[y].view # None => chat'[y].view = LastOrder' /\ chat'[y].seen = report'
           /\ chat'[y].pc = "answered" => exchange'[y] # None
    BY <1>1, <1>4, StepQuiet
  <1>6. QuietChatsRecorded'
    BY <1>2, <1>3, <1>5 DEF QuietInv, QuietChatsRecorded
  <1>7. ASSUME NEW x \in Active' \ disturbed' PROVE Undisturbed(x)'
    <2>1. x \in Chats /\ x \notin disturbed
      BY <1>2 DEF Active
    <2>2. x = y
      <3> SUFFICES ASSUME x # y PROVE FALSE
        OBVIOUS
      <3>1. x \in Active
        BY <1>3, <2>1 DEF Active
      <3>2. Active = {x}
        BY <2>1, <3>1 DEF QuietInv, Undisturbed
      <3>3. chat[y].pc = "new"
        BY <1>3, <3>2 DEF Active
      <3>4. Ask(y)
        BY <1>1, <3>3, Zenon DEF Busy, ChatStep, Turn, Query, Summary, Insert, Record, Lose, Fail, Done
      <3>5. chat'[y].pc = "asking"
        <4>1. chat' = [chat EXCEPT ![y] = [Querying(y) EXCEPT !.pc = "asking"]]
          BY <3>4 DEF Ask, Continue
        <4>2. chat'[y] = [Querying(y) EXCEPT !.pc = "asking"] /\ Querying(y) \in Requests
          BY <4>1, QueryView DEF JobInv, ChatInv, ChatTypeOK
        <4> QED
          BY <4>2, PhaseView
      <3>6. y \in Active'
        BY <3>5 DEF Active
      <3> QED
        BY <1>2, <3>6
    <2>3. chat'[y].pc \in {"asking", "recording"}
      BY <2>2 DEF Active
    <2> QED
      BY <1>2, <1>5, <2>1, <2>2, <2>3 DEF Undisturbed
  <1> QED
    BY <1>6, <1>7 DEF QuietInv

\* A fault disturbs the chat it strikes and leaves the others alone.
LEMMA FaultQuiet ==
    ASSUME ChatInv, QuietInv, NEW y \in Chats, Fault(y), UNCHANGED jobVars,
           disturbed' = disturbed \cup Crowded \cup {y}
    PROVE  QuietInv'
  <1>1. PICK c : chat' = [chat EXCEPT ![y] = c]
    BY Zenon DEF Fault, End, Continue
  <1>2. \A x \in Chats \ {y} : chat'[x] = chat[x]
    BY <1>1 DEF ChatInv, ChatTypeOK
  <1>3. exchange' = exchange /\ report' = report
    BY DEF Fault
  <1>4. QuietChatsRecorded'
    BY <1>2, <1>3 DEF QuietInv, QuietChatsRecorded
  <1>5. ASSUME NEW x \in Active' \ disturbed' PROVE Undisturbed(x)'
    <2>1. x \in Active \ disturbed /\ x # y
      BY <1>2 DEF Active
    <2>2. ~RunActive' /\ Active' = {x}
      BY DEF Crowded
    <2>3. LastOrder' = LastOrder
      BY <1>3 DEF LastOrder, Recorded
    <2> QED
      BY <1>2, <1>3, <2>1, <2>2, <2>3 DEF QuietInv, Undisturbed, Active
  <1> QED
    BY <1>4, <1>5 DEF QuietInv

\* It holds of every run of jobs and chats together.
LEMMA QuietInvariance == Spec => []QuietInv
  <1>1. Init => QuietInv
    BY StartFields DEF Init, ChatInit, QuietInv, QuietChatsRecorded, Active
  <1>2. JobInv /\ ChatInv /\ QuietInv /\ [Next]_vars => QuietInv'
    <2> SUFFICES ASSUME JobInv, ChatInv, QuietInv, [Next]_vars PROVE QuietInv'
      OBVIOUS
    <2>1. CASE UNCHANGED vars
      <3>1. chat' = chat /\ exchange' = exchange /\ report' = report /\ disturbed' = disturbed /\ runner' = runner
        BY <2>1 DEF vars, jobVars, chatVars
      <3>2. LastOrder' = LastOrder
        BY <3>1 DEF LastOrder, Recorded
      <3>3. Active' = Active /\ (RunActive' <=> RunActive)
        BY <3>1 DEF Active, RunActive
      <3>4. QuietChatsRecorded'
        BY <3>1 DEF QuietInv, QuietChatsRecorded
      <3>5. ASSUME NEW x \in Active' \ disturbed' PROVE Undisturbed(x)'
        BY <3>1, <3>2, <3>3 DEF QuietInv, Undisturbed
      <3> QED
        BY <3>4, <3>5 DEF QuietInv
    <2> QED
      BY <2>1, JobsQuiet, ChatsQuiet, FaultQuiet DEF Next
  <1> QED
    BY <1>1, <1>2, Invariance, ChatInvariance, PTL DEF Spec

\* Only chats are disturbed.
DisturbedChats == disturbed \subseteq Chats

\* Jobs, chats and the report keep to their types.
THEOREM TypeCorrect == Spec => []TypeOK
  <1>1. Init => DisturbedChats
    BY DEF Init, DisturbedChats
  <1>2. DisturbedChats /\ [Next]_vars => DisturbedChats'
    BY DEF Next, Observe, Crowded, Active, vars, DisturbedChats
  <1>3. JobInv /\ ChatInv /\ DisturbedChats => TypeOK
    BY DEF JobInv, ChatInv, TypeOK, DisturbedChats
  <1> QED
    BY <1>1, <1>2, <1>3, Invariance, ChatInvariance, PTL DEF Spec

\* A chat that was answered while nothing else was under way and the database
\* did not fail is on record (record_chat_exchange), whatever it asked its tools
\* for, however many daily summaries committed or found today's report on the
\* way.
THEOREM QuietChatsKept == Spec => []QuietChatsRecorded
  <1>1. QuietInv => QuietChatsRecorded
    BY DEF QuietInv
  <1> QED
    BY <1>1, QuietInvariance, PTL
=============================================================================
