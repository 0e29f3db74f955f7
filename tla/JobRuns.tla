------------------------------- MODULE JobRuns -------------------------------
(***************************************************************************)
(* create_job and run_job of app/services/admin_service.py under           *)
(* REPEATABLE READ.  A run flushes its RUNNING rows, does the job's work   *)
(* and commits the outcome together with an audit record.  The work of a   *)
(* daily_summary job commits the session in between, so its RUNNING rows   *)
(* become visible and its locks are freed before it is done.               *)
(***************************************************************************)
EXTENDS DailyReport

CONSTANTS
    Jobs,   \* the scheduled jobs
    Daily,  \* those of type daily_summary
    Seeded, \* those bootstrap_admin_catalog has made before the server starts
    Runs    \* requests to run a job, each of which makes at most one run

ASSUME JobAssumption == Daily \subseteq Jobs /\ Seeded \subseteq Jobs

VARIABLES
    jobs,    \* jobs[j]: the committed status of job j, or None
    runs,    \* runs[r]: the committed row of run r in job_runs, or None
    audit,   \* the committed records of audit_logs
    created, \* jobs that are committed and whose creation is not yet audited
    runner   \* runner[r]: the request that makes run r

jobVars == <<jobs, runs, audit, created, runner>>

Statuses == {"idle", "RUNNING", "IDLE", "FAILED"}
Outcomes == {"SUCCESS", "FAILED"}
RunRow == [job: Jobs, status: Outcomes \cup {"RUNNING"}]
AuditRow == [action: {"job.created"}, job: Jobs]
            \cup [action: {"job.run"}, run: Runs, status: Outcomes]

ASSUME RowAssumption == None \notin Statuses \cup RunRow

\* saw is the job status the session loaded, seen whether today's report was
\* there; lock is the lock the session holds on the job's row.
Waiting == [pc |-> "waiting"]
Ended == [pc |-> "ended"]
Runners == {Waiting, Ended}
           \cup [pc: {"loaded", "running", "worked"}, job: Jobs, saw: Statuses, seen: BOOLEAN,
                 lock: {"X", "S", None}, status: Outcomes]

JobTypeOK ==
    /\ jobs \in [Jobs -> Statuses \cup {None}]
    /\ runs \in [Runs -> RunRow \cup {None}]
    /\ audit \subseteq AuditRow
    /\ created \subseteq Jobs
    /\ runner \in [Runs -> Runners]

JobInit ==
    /\ jobs = [j \in Jobs |-> IF j \in Seeded THEN "idle" ELSE None]
    /\ runs = [r \in Runs |-> None]
    /\ audit = {}
    /\ created = {}
    /\ runner = [r \in Runs |-> Waiting]

-----------------------------------------------------------------------------
(* create_job: the job and its audit record are two commits.               *)

Create(j) ==
    /\ jobs[j] = None
    /\ jobs' = [jobs EXCEPT ![j] = "idle"]
    /\ created' = created \cup {j}
    /\ UNCHANGED <<runs, audit, runner, report>>

AuditCreate(j) ==
    /\ j \in created
    /\ created' = created \ {j}
    /\ audit' = audit \cup {[action |-> "job.created", job |-> j]}
    /\ UNCHANGED <<jobs, runs, runner, report>>

-----------------------------------------------------------------------------
(* run_job.                                                                *)

At(r, pc) == runner[r].pc = pc

Become(r, t) == runner' = [runner EXCEPT ![r] = t]

\* The locks other sessions hold on a job's row.
OtherLocks(r, j) == {runner[q].lock : q \in {p \in Runs \ {r} :
                        runner[p].pc \in {"running", "worked"} /\ runner[p].job = j}} \ {None}

\* The job is read, and with it the snapshot is taken.
Load(r) == \E j \in Jobs :
    /\ At(r, "waiting")
    /\ jobs[j] # None
    /\ Become(r, [pc |-> "loaded", job |-> j, saw |-> jobs[j], seen |-> report,
                  lock |-> None, status |-> "SUCCESS"])
    /\ UNCHANGED <<jobs, runs, audit, created, report>>

\* The status is written unless it was RUNNING already; else the new run's
\* foreign key shares the job's row with other runs.
Wanted(r) == IF runner[r].saw # "RUNNING" THEN "X" ELSE "S"

Granted(r, mode) == LET others == OtherLocks(r, runner[r].job)
                    IN  IF mode = "X" THEN others = {} ELSE "X" \notin others

\* The flush of the RUNNING rows.
Begin(r) ==
    /\ At(r, "loaded")
    /\ Granted(r, Wanted(r))
    /\ Become(r, [runner[r] EXCEPT !.pc = "running", !.lock = Wanted(r)])
    /\ UNCHANGED <<jobs, runs, audit, created, report>>

\* Mutant of Summarize: the outcome is audited ahead of the work.
AuditedSummary(r) ==
    LET t == runner[r]
    IN  /\ At(r, "running") /\ t.job \in Daily
        /\ Publish(t.seen)
        /\ jobs' = IF t.lock = "X" THEN [jobs EXCEPT ![t.job] = "RUNNING"] ELSE jobs
        /\ runs' = [runs EXCEPT ![r] = [job |-> t.job, status |-> "RUNNING"]]
        /\ audit' = audit \cup {[action |-> "job.run", run |-> r, status |-> "SUCCESS"]}
        /\ Become(r, [t EXCEPT !.pc = "worked", !.lock = None])
        /\ UNCHANGED created

\* The summary's commit takes the RUNNING rows along and frees the locks.
Summarize(r) ==
    LET t == runner[r]
    IN  /\ At(r, "running") /\ t.job \in Daily
        /\ Publish(t.seen)
        /\ jobs' = IF t.lock = "X" THEN [jobs EXCEPT ![t.job] = "RUNNING"] ELSE jobs
        /\ runs' = [runs EXCEPT ![r] = [job |-> t.job, status |-> "RUNNING"]]
        /\ Become(r, [t EXCEPT !.pc = "worked", !.lock = None])
        /\ UNCHANGED <<audit, created>>

\* The work of another job only reads, and so does the start of a summary; it
\* may raise.
Work(r) == \E status \in Outcomes :
    /\ At(r, "running")
    /\ runner[r].job \in Daily => status = "FAILED"
    /\ Become(r, [runner[r] EXCEPT !.pc = "worked", !.status = status])
    /\ UNCHANGED <<jobs, runs, audit, created, report>>

\* The summary's insert failed: the handler goes on with the unusable session,
\* raises at its next statement, and nothing of the run is left.
Undo(r) ==
    /\ At(r, "running") /\ runner[r].job \in Daily
    /\ Conflict(runner[r].seen)
    /\ Become(r, Ended)
    /\ UNCHANGED <<jobs, runs, audit, created, report>>

\* Mutant of Shown: the job's status is left as it is.
OldStatus(r) == jobs[runner[r].job]

Shown(r) == IF runner[r].status = "SUCCESS" THEN "IDLE" ELSE "FAILED"

\* The outcome and the audit record are committed together.
Finish(r) ==
    LET t == runner[r]
    IN  /\ At(r, "worked")
        /\ Granted(r, "X")
        /\ jobs' = [jobs EXCEPT ![t.job] = Shown(r)]
        /\ runs' = [runs EXCEPT ![r] = [job |-> t.job, status |-> t.status]]
        /\ audit' = audit \cup {[action |-> "job.run", run |-> r, status |-> t.status]}
        /\ Become(r, Ended)
        /\ UNCHANGED <<created, report>>

\* The lock is not granted in time, or goes to another run in a deadlock.
Refuse(r) ==
    /\ \/ At(r, "loaded") /\ ~Granted(r, Wanted(r))
       \/ At(r, "worked") /\ ~Granted(r, "X")
    /\ Become(r, Ended)
    /\ UNCHANGED <<jobs, runs, audit, created, report>>

\* The connection is lost, or the process dies.
Die(r) ==
    /\ runner[r].pc \in {"loaded", "running", "worked"}
    /\ Become(r, Ended)
    /\ UNCHANGED <<jobs, runs, audit, created, report>>

RunStep(r) == Begin(r) \/ Summarize(r) \/ Work(r) \/ Undo(r) \/ Finish(r) \/ Refuse(r)

JobNext ==
    \/ \E j \in Jobs : Create(j) \/ AuditCreate(j)
    \/ \E r \in Runs : Load(r) \/ RunStep(r) \/ Die(r)

-----------------------------------------------------------------------------
(* Properties.                                                             *)

\* A job that shows RUNNING has a run that shows RUNNING, also when several
\* runs of it overlap and some of them fail half way (run_job writes the job
\* and the run in one session, but the summary commits it in the middle).
RunningJobHasRun ==
    \A j \in Jobs : jobs[j] = "RUNNING" =>
        \E r \in Runs : runs[r] = [job |-> j, status |-> "RUNNING"]

\* The audit log says of a run that it ended if and only if the run's row says
\* so, with the same outcome: neither a crash nor the commit in the middle of
\* a summary puts the two apart (_add_audit_log in run_job).
AuditMatchesRuns ==
    \A r \in Runs, status \in Outcomes :
        [action |-> "job.run", run |-> r, status |-> status] \in audit
        <=> runs[r] # None /\ runs[r].status = status
=============================================================================
