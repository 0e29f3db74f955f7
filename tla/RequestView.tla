----------------------------- MODULE RequestView -----------------------------
(***************************************************************************)
(* What the SELECTs of one request see (app/db.py: one session, and with   *)
(* it one transaction, per request).  With `isolated` (MySQL, REPEATABLE   *)
(* READ) all of them see the rows as of the first one; without (SQLite)    *)
(* each sees the last commit, so an answer may mix several states of the   *)
(* database.  Requests that only read do not disturb each other, hence one *)
(* of them is all there is to look at.                                     *)
(***************************************************************************)

VARIABLE isolated

\* What is seen of a table after a commit, if `seen` was seen before.
AfterCommit(seen, table) == IF isolated THEN seen ELSE table
=============================================================================
