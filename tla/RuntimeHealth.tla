---------------------------- MODULE RuntimeHealth ----------------------------
(***************************************************************************)
(* RuntimeService of app/services/runtime_service.py, and the reads and    *)
(* the write of ReportService.generate_daily_summary that stand on it; and *)
(* the script app/seed/seed_data.py, which deletes all rows in one         *)
(* transaction and adds its own in the next, at any time.  A request reads *)
(* table after table and asks for the date when it comes to the failed     *)
(* runs.  Rows carry UTC, while the date is that of the server's zone.     *)
(***************************************************************************)
EXTENDS RequestView, Integers

CONSTANTS
    Domains,     \* business domains, with one asset each
    Customer,    \* the one the script's runs and health are about
    DayLength,   \* ticks of the clock in a day
    Zones,       \* what the server's clock may be ahead of UTC
    MaxTime,     \* bound on the clock
    MaxLoads,    \* bound on the number of transactions that load or delete rows
    NoRow        \* no row, no report

Times == 0..MaxTime
Days == {(t + z) \div DayLength : t \in Times, z \in Zones \cup {0}}
HealthRow == [domain: Domains, at: Times, status: {"RED", "GREEN"}]
FailureRow == [domain: Domains, at: Times]

ASSUME HealthAssumption ==
    /\ DayLength \in Nat \ {0} /\ MaxTime \in Nat /\ MaxLoads \in Nat
    /\ Customer \in Domains /\ Zones \subseteq Int
    /\ NoRow \notin HealthRow

VARIABLES
    clock,     \* the time in UTC
    zone,      \* what the server's clock is ahead of it
    loads,     \* number of loads so far
    blank,     \* whether the script has deleted the rows and not added its own
    health,    \* rows of domain_health_snapshots
    failures,  \* FAILED rows of runtime_events, by the domain of their asset
    facts,     \* what a SELECT of the request would see of both tables
    past,      \* history: the rows there were when the request came
    ever,      \* history: the rows there were at some time since
    emptied,   \* history: whether the script deleted rows since
    asked,     \* history: the server's date when the request came
    request,   \* the request: its kind, the domain and the date it is about
    step,      \* the table it reads next
    latest,    \* the row of the domain's health
    failed,    \* the failed runs
    red,       \* the rows of red domains
    reportRow  \* reportRow[d]: the committed summary of day d

world == <<clock, zone, loads, blank, health, failures>>
seen == <<facts, past, ever, emptied, asked>>
answer == <<latest, failed, red>>
healthVars == <<world, seen, request, step, answer, reportRow>>

HealthRequest == [kind: {"domain_health"}, domain: Domains]
                 \cup [kind: {"red_domains"}] \cup [kind: {"daily_summary"}, day: Days]
Facts == [health: SUBSET HealthRow, failures: SUBSET FailureRow]
Summary == [failed: SUBSET FailureRow, red: SUBSET HealthRow]

HealthTypeOK ==
    /\ clock \in Times /\ zone \in Zones
    /\ loads \in 0..MaxLoads /\ blank \in BOOLEAN
    /\ health \subseteq HealthRow /\ failures \subseteq FailureRow
    /\ facts \in Facts /\ past \in Facts /\ ever \in Facts
    /\ emptied \in BOOLEAN /\ asked \in Days
    /\ request \in HealthRequest
    /\ step \in {"none", "health", "failures", "red", "write", "done"}
    /\ latest \in HealthRow \cup {NoRow}
    /\ failed \subseteq FailureRow /\ red \subseteq HealthRow
    /\ reportRow \in [Days -> Summary \cup {NoRow}]

\* date.today() of the server.
Today == (clock + zone) \div DayLength

Tables(h, f) == [health |-> h, failures |-> f]

HealthInit ==
    /\ clock = 0 /\ loads = 0
    /\ zone \in Zones /\ blank \in BOOLEAN
    /\ health = {} /\ failures = {}
    /\ facts = Tables({}, {}) /\ past = facts /\ ever = facts
    /\ emptied = FALSE /\ asked = Today
    /\ request \in HealthRequest
    /\ step = "none"
    /\ latest = NoRow /\ failed = {} /\ red = {}
    /\ reportRow = [d \in Days |-> NoRow]

-----------------------------------------------------------------------------
(* The clock, and those who write the tables.                              *)

Tick ==
    /\ clock < MaxTime
    /\ clock' = clock + 1
    /\ UNCHANGED <<zone, loads, blank, health, failures, seen, request, step, answer, reportRow>>

\* A commit; what it means for a request under way.
Loads(h, f) ==
    /\ loads < MaxLoads
    /\ loads' = loads + 1
    /\ health' = h /\ failures' = f
    /\ IF step = "none" THEN UNCHANGED <<facts, ever>>
       ELSE /\ facts' = AfterCommit(facts, Tables(h, f))
            /\ ever' = Tables(ever.health \cup h, ever.failures \cup f)
    /\ UNCHANGED <<clock, zone, past, asked, request, step, answer>>

\* reset_data deletes the rows, with the domains, the assets and the reports,
\* and commits.  The script may end here.
Reset ==
    /\ Loads({}, {})
    /\ blank' = TRUE
    /\ emptied' = (emptied \/ step # "none")
    /\ reportRow' = [d \in Days |-> NoRow]

\* add_runtime: two failed runs and the RED row they make of the domain, from
\* the minutes before the script's clock, in one commit.
Seed == \E first, second, since \in 0..clock :
    /\ blank
    /\ first <= second /\ second <= since
    /\ Loads(health \cup {[domain |-> Customer, at |-> since, status |-> "RED"]},
             failures \cup {[domain |-> Customer, at |-> t] : t \in {first, second}})
    /\ blank' = FALSE
    /\ UNCHANGED <<emptied, reportRow>>

\* The code reads snapshots of any number, age and status, which somebody else
\* must add: external.
Assess == \E d \in Domains, t \in 0..clock, status \in {"RED", "GREEN"} :
    /\ Loads(health \cup {[domain |-> d, at |-> t, status |-> status]}, failures)
    /\ UNCHANGED <<blank, emptied, reportRow>>

-----------------------------------------------------------------------------
(* The request.                                                            *)

Of(rows, d) == {r \in rows : r.domain = d}

\* The first read fixes what an isolated request sees.  For the health of a
\* domain it is that of the domain itself, which may not be there if nothing
\* refers to it.
Ask ==
    /\ step = "none"
    /\ past' = Tables(health, failures) /\ facts' = past' /\ ever' = past'
    /\ asked' = Today
    /\ \/ request.kind = "domain_health" /\ step' = "health"
       \/ request.kind = "domain_health" /\ step' = "done"
          /\ Of(health, request.domain) = {} /\ Of(failures, request.domain) = {}
       \/ request.kind = "red_domains" /\ step' = "red"
       \/ request.kind = "daily_summary" /\ step' = "failures"
    /\ UNCHANGED <<world, emptied, request, answer, reportRow>>

\* The script deleted rows between the reads of a request that sees it.
Disturbed == emptied /\ ~isolated

\* Mutant of Newest: the order is ascending.
Oldest(rows) == {r \in rows : \A q \in rows : r.at <= q.at}

\* The first row by observed_at, descending; of rows with one time, any.
Newest(rows) == {r \in rows : \A q \in rows : q.at <= r.at}

\* The domains whose rows pass for those of the domain of the request: SQLite
\* gives the id that was found out again, possibly to another one.
Meant == {ds \in SUBSET Domains : ds = {request.domain} \/ Disturbed}

\* get_domain_health: UNKNOWN if the domain has no row.
ReadHealth ==
    /\ step = "health"
    /\ \E d \in UNION Meant :
          IF Of(facts.health, d) = {} THEN UNCHANGED latest
          ELSE latest' \in Newest(Of(facts.health, d))
    /\ step' = "failures"
    /\ UNCHANGED <<world, seen, request, failed, red, reportRow>>

\* Mutant of InDay: the end of the window belongs to it.
InClosedDay(day, t) == day * DayLength <= t /\ t <= (day + 1) * DayLength

\* _day_window.
InDay(day, t) == day * DayLength <= t /\ t < (day + 1) * DayLength

\* get_failed_runs: of the day of the summary, or of the domain and today.
ReadFailures ==
    /\ step = "failures"
    /\ IF request.kind = "daily_summary"
       THEN failed' = {f \in facts.failures : InDay(request.day, f.at)} /\ step' = "red"
       ELSE /\ \E ds \in Meant :
                  failed' = {f \in facts.failures : f.domain \in ds /\ InDay(Today, f.at)}
            /\ step' = "done"
    /\ UNCHANGED <<world, seen, request, latest, red, reportRow>>

\* Mutants of RedRows: the rows are those of when the request came; the filter
\* for RED is lost.
CachedRows(d) == {r \in past.health : r.domain = d /\ r.status = "RED"}
AllRowsOf(d) == {r \in facts.health : r.domain = d}

RedRows(d) == {r \in facts.health : r.domain = d /\ r.status = "RED"}

\* get_red_domains: of the RED rows, a newest of each domain.
ReadRed ==
    /\ step = "red"
    /\ red' \in {rows \in SUBSET UNION {Newest(RedRows(d)) : d \in Domains} :
                    \A d \in Domains : RedRows(d) # {} =>
                        \E r \in rows : {q \in rows : q.domain = d} = {r}}
    /\ step' = IF request.kind = "daily_summary" THEN "write" ELSE "done"
    /\ UNCHANGED <<world, seen, request, latest, failed, reportRow>>

\* The row of the date is inserted or overwritten (DailyReport has the races);
\* if the script deleted the row that was found, the request fails.
Write ==
    /\ step = "write"
    /\ \/ reportRow' = [reportRow EXCEPT ![request.day] = [failed |-> failed, red |-> red]]
       \/ emptied /\ UNCHANGED reportRow
    /\ step' = "done"
    /\ UNCHANGED <<world, seen, request, answer>>

HealthStep == Ask \/ ReadHealth \/ ReadFailures \/ ReadRed \/ Write

HealthNext == Tick \/ Reset \/ Seed \/ Assess \/ HealthStep

-----------------------------------------------------------------------------
(* Properties.  The script may take rows away between two reads; then, and *)
(* only without snapshots, an answer may lack them.                        *)

\* The health of a domain is that of its newest row: of the rows there were
\* when the request came none is newer, though rows arrive out of order, and
\* it was there at some time since, whatever the script deletes and adds
\* (get_domain_health).
HealthUpToDate ==
    step = "done" /\ request.kind = "domain_health" =>
        /\ latest # NoRow => latest \in ever.health
        /\ ~Disturbed => \A r \in Of(past.health, request.domain) :
              latest # NoRow /\ latest.domain = request.domain /\ r.at <= latest.at

\* The failed runs of an answer are those of one date in UTC, the one that was
\* asked for or a date the server's clock had during the request.  All were
\* there at some time since it came, and none that was there before is missing,
\* also when midnight falls between two reads (get_failed_runs, _day_window).
FailuresOfOneDay ==
    step = "done" /\ request.kind # "red_domains" => \E day \in Days :
        LET of(rows) == {f \in rows :
                /\ f.at \div DayLength = day
                /\ request.kind = "domain_health" /\ ~Disturbed => f.domain = request.domain}
        IN  /\ IF request.kind = "daily_summary" THEN day = request.day
               ELSE asked <= day /\ day <= Today
            /\ failed \subseteq of(ever.failures)
            /\ ~Disturbed => of(past.failures) \subseteq failed

\* A domain whose newest row was RED when the request came, and has been since,
\* is among the red domains, once and with a row as new (get_red_domains).
RedDomainsComplete ==
    step \in {"write", "done"} /\ request.kind # "domain_health" /\ ~Disturbed =>
        \A d \in Domains :
            (\E r \in Newest(Of(past.health, d)) \cap Newest(Of(ever.health, d)) : r.status = "RED")
            => \E r \in Newest(Of(past.health, d)) : Of(red, d) = {r} /\ r.status = "RED"

\* A daily summary that shows a failed run shows its domain RED since then: the
\* two are loaded together, and the failures are read first
\* (generate_daily_summary).
FailuresExplained ==
    \A d \in Days : reportRow[d] # NoRow /\ ~Disturbed =>
        \A f \in reportRow[d].failed :
            \E r \in reportRow[d].red : r.domain = f.domain /\ f.at <= r.at
=============================================================================
