----------------------------- MODULE DailyReport -----------------------------
(***************************************************************************)
(* ReportService.generate_daily_summary of app/services/report_service.py, *)
(* as its callers see it: it writes today's row of daily_summary_reports   *)
(* and commits the caller's session.  Under REPEATABLE READ it looks the   *)
(* row up in the caller's snapshot.                                        *)
(***************************************************************************)

CONSTANT None      \* no row, nothing

VARIABLE report    \* whether today's report is committed

ReportInit == report \in BOOLEAN

\* Mutant of Conflict: the row is inserted without a lookup.
BlindInsert(seen) == report

\* A caller whose snapshot lacks the row inserts it, against the unique
\* constraint uq_daily_report_date if it is there by now.  The failed flush
\* leaves the caller's session unusable: each statement raises
\* PendingRollbackError until somebody rolls it back.
Conflict(seen) == ~seen /\ report

Publish(seen) == ~Conflict(seen) /\ report' = TRUE
=============================================================================
