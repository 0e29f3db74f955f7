--------------------------- MODULE MCReportClients ---------------------------
(* A daily_summary job that somebody creates, two runs of it, and two chats. *)
EXTENDS ReportClients, TLC
=============================================================================
