-------------------------- MODULE RuntimeHealthProofs --------------------------
(* What holds of the answers about runs and health for any number of domains, *)
(* rows, days and zones, on databases with and without snapshots, whatever    *)
(* the seed script deletes and adds meanwhile.                                *)
EXTENDS MetadataReads, TLAPS

\* What the request sees: all there was when it came, as long as it is not
\* disturbed, and nothing that was never there since.
FactsBetween ==
    /\ asked <= Today
    /\ step # "none" =>
        /\ isolated => facts = past
        /\ ~isolated => facts = Tables(health, failures)
        /\ facts.health \subseteq ever.health /\ facts.failures \subseteq ever.failures
        /\ past.health \subseteq ever.health /\ past.failures \subseteq ever.failures
        /\ ~Disturbed =>
              past.health \subseteq facts.health /\ past.failures \subseteq facts.failures

\* Each of the failed runs has a RED row that was observed after it.
Paired(runs, rows) ==
    \A f \in runs : \E r \in rows : r.domain = f.domain /\ f.at <= r.at /\ r.status = "RED"

AllPaired ==
    /\ Paired(failures, health)
    /\ step # "none" => Paired(facts.failures, facts.health)

\* Which request comes to which step, and what it has read before.
StepFits ==
    /\ step = "health" => request.kind = "domain_health"
    /\ step = "failures" => request.kind # "red_domains"
    /\ step = "red" => request.kind # "domain_health"
    /\ step = "write" => request.kind = "daily_summary"
    /\ step \in {"none", "health"} => latest = NoRow /\ failed = {}

\* The properties of the answer hold from the read on that establishes them.
HealthRead ==
    step \in {"failures", "done"} /\ request.kind = "domain_health" =>
        /\ latest # NoRow => latest \in ever.health
        /\ ~Disturbed => \A r \in Of(past.health, request.domain) :
              latest # NoRow /\ latest.domain = request.domain /\ r.at <= latest.at

OfDay(rows, day) ==
    {f \in rows : /\ f.at \div DayLength = day
                  /\ request.kind = "domain_health" /\ ~Disturbed => f.domain = request.domain}

RightDay(day) ==
    IF request.kind = "daily_summary" THEN day = request.day ELSE asked <= day /\ day <= Today

FailuresRead ==
    \/ request.kind = "domain_health" /\ step = "done"
    \/ request.kind = "daily_summary" /\ step \in {"red", "write", "done"}
    => \E day \in Days :
        /\ RightDay(day)
        /\ failed \subseteq OfDay(ever.failures, day)
        /\ ~Disturbed => OfDay(past.failures, day) \subseteq failed

FailuresSeen ==
    step = "red" /\ request.kind = "daily_summary" /\ ~Disturbed => Paired(failed, facts.health)

RedShown ==
    step = "write" /\ ~Disturbed => \A f \in failed : \E r \in red : r.domain = f.domain /\ f.at <= r.at

HealthInv ==
    /\ HealthTypeOK /\ FactsBetween /\ AllPaired /\ StepFits
    /\ HealthRead /\ FailuresRead /\ FailuresSeen /\ RedShown
    /\ RedDomainsComplete /\ FailuresExplained

-----------------------------------------------------------------------------
\* The calendar of the server: a date is a number of days, and dates go up.
LEMMA Calendar ==
    /\ Days \subseteq Int /\ Times \subseteq Nat
    /\ \A t \in Times, z \in Zones \cup {0} : (t + z) \div DayLength \in Days
    /\ \A t \in Int, z \in Int : (t + z) \div DayLength <= (t + 1 + z) \div DayLength
  <1>1. DayLength \in Nat /\ DayLength > 0 /\ Zones \cup {0} \subseteq Int
    BY HealthAssumption
  <1>2. Times \subseteq Nat
    BY HealthAssumption DEF Times
  <1>3. Days \subseteq Int
    BY <1>1, <1>2 DEF Days
  <1>4. \A t \in Times, z \in Zones \cup {0} : (t + z) \div DayLength \in Days
    BY DEF Days
  <1>5. ASSUME NEW t \in Int, NEW z \in Int
        PROVE  (t + z) \div DayLength <= (t + 1 + z) \div DayLength
    <2> DEFINE s == t + z
               p == s \div DayLength
               q == (s + 1) \div DayLength
    <2>1. s \in Int /\ t + 1 + z = s + 1
      OBVIOUS
    <2>2. /\ p \in Int /\ p * DayLength <= s /\ s < (p + 1) * DayLength
          /\ q \in Int /\ q * DayLength <= s + 1 /\ s + 1 < (q + 1) * DayLength
      BY <1>1, <2>1
    <2> HIDE DEF p, q
    <2>3. ASSUME q < p PROVE FALSE
      <3>1. (q + 1) * DayLength <= p * DayLength
        BY <1>1, <2>2, <2>3
      <3> QED
        BY <1>1, <2>1, <2>2, <3>1
    <2> QED
      BY <2>1, <2>2, <2>3 DEF p, q
  <1> QED
    BY <1>2, <1>3, <1>4, <1>5

\* _day_window and the calendar agree on the day of a time.
LEMMA DayOfTime ==
    ASSUME NEW day \in Int, NEW t \in Nat
    PROVE  InDay(day, t) <=> t \div DayLength = day
  <1> DEFINE q == t \div DayLength
  <1>1. DayLength \in Nat /\ DayLength > 0
    BY HealthAssumption
  <1>2. q \in Int /\ q * DayLength <= t /\ t < (q + 1) * DayLength
    BY <1>1
  <1>3. ASSUME NEW a \in Int, NEW b \in Int, a < b PROVE (a + 1) * DayLength <= b * DayLength
    BY <1>1, <1>3
  <1> HIDE DEF q
  <1>4. CASE day < q
    BY <1>1, <1>2, <1>3, <1>4 DEF InDay
  <1>5. CASE q < day
    BY <1>1, <1>2, <1>3, <1>5 DEF InDay
  <1>6. CASE q = day
    BY <1>1, <1>2, <1>6 DEF InDay
  <1>7. day < q \/ q < day \/ q = day
    BY <1>2
  <1> QED
    BY <1>4, <1>5, <1>6, <1>7, <1>2 DEF q

\* Today is a day, and the clock a time.
LEMMA TodayIsADay ==
    ASSUME HealthTypeOK
    PROVE  Today \in Days /\ Today \in Int /\ asked \in Int /\ clock \in Int /\ zone \in Int
  <1>1. clock \in Times /\ zone \in Zones /\ asked \in Days
    BY DEF HealthTypeOK
  <1>2. Today \in Days
    BY <1>1, Calendar DEF Today
  <1> QED
    BY <1>1, <1>2, Calendar, HealthAssumption

\* Before the first request everything is empty.
LEMMA HealthInitInv == HealthInit => HealthInv
  <1> SUFFICES ASSUME HealthInit PROVE HealthInv
    OBVIOUS
  <1>1. HealthTypeOK
    <2>1. 0 \in Times /\ 0 \in 0..MaxLoads
      BY HealthAssumption DEF Times
    <2>2. Tables({}, {}) \in Facts
      BY DEF Facts, Tables
    <2>3. Today \in Days
      BY <2>1 DEF HealthInit, Today, Days
    <2> QED
      BY <2>1, <2>2, <2>3 DEF HealthInit, HealthTypeOK
  <1>2. asked <= Today
    <2>1. asked = Today
      BY DEF HealthInit
    <2> QED
      BY <1>1, <2>1, TodayIsADay
  <1>3. FactsBetween /\ AllPaired /\ StepFits
    BY <1>2 DEF HealthInit, FactsBetween, AllPaired, Paired, StepFits
  <1>4. HealthRead /\ FailuresRead /\ FailuresSeen /\ RedShown
    BY DEF HealthInit, HealthRead, FailuresRead, FailuresSeen, RedShown
  <1>5. RedDomainsComplete /\ FailuresExplained
    BY DEF HealthInit, RedDomainsComplete, FailuresExplained
  <1> QED
    BY <1>1, <1>3, <1>4, <1>5 DEF HealthInv

\* The clock moves and nothing else.
LEMMA TickKeeps ==
    ASSUME HealthInv, Tick, UNCHANGED isolated
    PROVE  HealthInv'
  <1>1. /\ clock' = clock + 1 /\ clock < MaxTime
        /\ UNCHANGED <<zone, loads, blank, health, failures, facts, past, ever, emptied, asked,
                       request, step, latest, failed, red, reportRow>>
    BY DEF Tick, seen, answer
  <1>2. HealthTypeOK'
    <2>1. clock' \in Times
      BY <1>1, HealthAssumption DEF HealthInv, HealthTypeOK, Times
    <2> QED
      BY <1>1, <2>1 DEF HealthInv, HealthTypeOK
  <1>3. Today <= Today' /\ Disturbed' = Disturbed
    <2>1. clock \in Int /\ zone \in Int
      BY TodayIsADay DEF HealthInv
    <2> QED
      BY <1>1, <2>1, Calendar DEF Today, Disturbed
  <1>4. Today \in Int /\ Today' \in Int /\ asked \in Int /\ Days \subseteq Int
    <2>1. clock' \in Times /\ zone \in Zones
      BY <1>1, <1>2 DEF HealthInv, HealthTypeOK
    <2>2. Today' \in Days
      BY <1>1, <2>1, Calendar DEF Today
    <2> QED
      BY <2>2, TodayIsADay, Calendar DEF HealthInv
  <1>5. FactsBetween'
    BY <1>1, <1>3, <1>4 DEF HealthInv, FactsBetween, Tables
  <1>6. (AllPaired /\ StepFits)'
    BY <1>1 DEF HealthInv, AllPaired, Paired, StepFits
  <1>7. (HealthRead /\ FailuresSeen /\ RedShown)'
    BY <1>1, <1>3 DEF HealthInv, HealthRead, Of, FailuresSeen, RedShown, Paired
  <1>8. FailuresRead'
    <2>1. ASSUME NEW day \in Days, RightDay(day) PROVE RightDay(day)'
      BY <1>1, <1>3, <1>4, <2>1 DEF RightDay
    <2>2. ASSUME NEW day \in Days
          PROVE  /\ OfDay(ever.failures, day)' = OfDay(ever.failures, day)
                 /\ OfDay(past.failures, day)' = OfDay(past.failures, day)
      BY <1>1, <1>3 DEF OfDay
    <2> QED
      BY <1>1, <1>3, <2>1, <2>2 DEF HealthInv, FailuresRead
  <1>9. (RedDomainsComplete /\ FailuresExplained)'
    BY <1>1, <1>3 DEF HealthInv, RedDomainsComplete, FailuresExplained, Newest, Of
  <1> QED
    BY <1>2, <1>5, <1>6, <1>7, <1>8, <1>9 DEF HealthInv

\* What a commit of rows h and f means for the request: it sees them or not, and
\* only if it is disturbed it no longer sees what it saw.
LEMMA LoadsShow ==
    ASSUME HealthInv, UNCHANGED isolated,
           NEW h \in SUBSET HealthRow, NEW f \in SUBSET FailureRow, Loads(h, f),
           emptied' \in BOOLEAN, emptied => emptied',
           step = "none" \/ emptied' \/ (health \subseteq h /\ failures \subseteq f),
           Paired(f, h), blank' \in BOOLEAN
    PROVE  /\ (UNCHANGED reportRow \/ reportRow' = [d \in Days |-> NoRow]) => HealthTypeOK'
           /\ FactsBetween' /\ AllPaired' /\ StepFits'
           /\ Today' = Today /\ (Disturbed => Disturbed')
           /\ step # "none" =>
                 /\ ever.health \subseteq ever'.health /\ ever.failures \subseteq ever'.failures
                 /\ ~Disturbed' => facts.health \subseteq facts'.health
           /\ UNCHANGED <<past, asked, request, step, latest, failed, red>>
  <1>1. /\ loads < MaxLoads /\ loads' = loads + 1 /\ health' = h /\ failures' = f
        /\ UNCHANGED <<clock, zone, past, asked, request, step, latest, failed, red>>
    BY DEF Loads, answer
  <1>2. step = "none" => UNCHANGED <<facts, ever>>
    BY DEF Loads
  <1>3. step # "none" =>
            /\ facts' = IF isolated THEN facts ELSE Tables(h, f)
            /\ ever' = Tables(ever.health \cup h, ever.failures \cup f)
    BY DEF Loads, AfterCommit
  <1>4. Tables(h, f).health = h /\ Tables(h, f).failures = f
    BY DEF Tables
  <1>5. step # "none" =>
            ever'.health = ever.health \cup h /\ ever'.failures = ever.failures \cup f
    BY <1>3 DEF Tables
  <1>6. Today' = Today
    BY <1>1 DEF Today
  <1>7. Disturbed => Disturbed'
    BY DEF Disturbed
  <1>8. facts' \in Facts /\ ever' \in Facts
    <2>1. CASE step = "none"
      BY <1>2, <2>1 DEF HealthInv, HealthTypeOK
    <2>2. CASE step # "none"
      <3>1. Tables(h, f) \in Facts
        BY DEF Facts, Tables
      <3>2. ever.health \cup h \subseteq HealthRow /\ ever.failures \cup f \subseteq FailureRow
        BY DEF HealthInv, HealthTypeOK, Facts
      <3> QED
        BY <1>3, <2>2, <3>1, <3>2 DEF HealthInv, HealthTypeOK, Facts, Tables
    <2> QED
      BY <2>1, <2>2
  <1>9. (UNCHANGED reportRow \/ reportRow' = [d \in Days |-> NoRow]) => HealthTypeOK'
    <2>1. loads' \in 0..MaxLoads
      BY <1>1, HealthAssumption DEF HealthInv, HealthTypeOK
    <2> QED
      BY <1>1, <1>8, <2>1 DEF HealthInv, HealthTypeOK
  <1>10. step # "none" /\ ~Disturbed' =>
            facts.health \subseteq facts'.health /\ facts.failures \subseteq facts'.failures
    <2>1. CASE isolated
      BY <1>3, <2>1
    <2>2. CASE ~isolated /\ step # "none" /\ ~Disturbed'
      <3>1. health \subseteq h /\ failures \subseteq f
        BY <2>2 DEF Disturbed
      <3>2. facts.health = health /\ facts.failures = failures
        BY <2>2 DEF HealthInv, FactsBetween, Tables
      <3> QED
        BY <1>3, <1>4, <2>2, <3>1, <3>2
    <2> QED
      BY <2>1, <2>2
  <1>11. FactsBetween'
    <2>1. asked' <= Today'
      BY <1>1, <1>6 DEF HealthInv, FactsBetween
    <2>2. CASE step = "none"
      BY <1>1, <2>1, <2>2 DEF FactsBetween
    <2>3. CASE step # "none"
      <3>1. isolated' => facts' = past'
        BY <1>1, <1>3, <2>3 DEF HealthInv, FactsBetween
      <3>2. ~isolated' => facts' = Tables(health', failures')
        BY <1>1, <1>3, <2>3
      <3>3. facts'.health \subseteq ever'.health /\ facts'.failures \subseteq ever'.failures
        BY <1>3, <1>4, <1>5, <2>3 DEF HealthInv, FactsBetween
      <3>4. past'.health \subseteq ever'.health /\ past'.failures \subseteq ever'.failures
        BY <1>1, <1>5, <2>3 DEF HealthInv, FactsBetween
      <3>5. ~Disturbed' =>
               past'.health \subseteq facts'.health /\ past'.failures \subseteq facts'.failures
        BY <1>1, <1>7, <1>10, <2>3 DEF HealthInv, FactsBetween
      <3> QED
        BY <2>1, <3>1, <3>2, <3>3, <3>4, <3>5 DEF FactsBetween, Tables
    <2> QED
      BY <2>2, <2>3
  <1>12. AllPaired'
    <2>1. step # "none" => Paired(facts'.failures, facts'.health)
      BY <1>3, <1>4 DEF HealthInv, AllPaired
    <2> QED
      BY <1>1, <2>1 DEF AllPaired, Paired
  <1>13. StepFits'
    BY <1>1 DEF HealthInv, StepFits
  <1> QED
    BY <1>1, <1>5, <1>6, <1>7, <1>9, <1>10, <1>11, <1>12, <1>13

\* A commit changes nothing in what was answered.
LEMMA LoadsKeep ==
    ASSUME HealthInv, UNCHANGED isolated,
           NEW h \in SUBSET HealthRow, NEW f \in SUBSET FailureRow, Loads(h, f),
           emptied' \in BOOLEAN, emptied => emptied',
           step = "none" \/ emptied' \/ (health \subseteq h /\ failures \subseteq f),
           Paired(f, h), blank' \in BOOLEAN,
           UNCHANGED reportRow \/ reportRow' = [d \in Days |-> NoRow]
    PROVE  HealthInv'
  <1>1. /\ HealthTypeOK' /\ FactsBetween' /\ AllPaired' /\ StepFits'
        /\ Today' = Today /\ (Disturbed => Disturbed')
        /\ step # "none" =>
              /\ ever.health \subseteq ever'.health /\ ever.failures \subseteq ever'.failures
              /\ ~Disturbed' => facts.health \subseteq facts'.health
        /\ UNCHANGED <<past, asked, request, step, latest, failed, red>>
    BY LoadsShow
  <1>2. HealthRead'
    BY <1>1 DEF HealthInv, HealthRead, Of
  <1>3. FailuresRead'
    <2> SUFFICES ASSUME \/ request.kind = "domain_health" /\ step = "done"
                        \/ request.kind = "daily_summary" /\ step \in {"red", "write", "done"}
                 PROVE  \E day \in Days :
                           /\ RightDay(day)'
                           /\ failed' \subseteq OfDay(ever.failures, day)'
                           /\ ~Disturbed' => OfDay(past.failures, day)' \subseteq failed'
      BY <1>1 DEF FailuresRead
    <2>1. PICK day \in Days :
            /\ RightDay(day)
            /\ failed \subseteq OfDay(ever.failures, day)
            /\ ~Disturbed => OfDay(past.failures, day) \subseteq failed
      BY DEF HealthInv, FailuresRead
    <2>2. RightDay(day)'
      BY <1>1, <2>1 DEF RightDay
    <2>3. OfDay(ever.failures, day) \subseteq OfDay(ever.failures, day)'
      BY <1>1 DEF OfDay
    <2>4. ~Disturbed' => OfDay(past.failures, day)' \subseteq OfDay(past.failures, day)
      BY <1>1 DEF OfDay
    <2> QED
      BY <1>1, <2>1, <2>2, <2>3, <2>4
  <1>4. (FailuresSeen /\ RedShown)'
    BY <1>1 DEF HealthInv, FailuresSeen, RedShown, Paired
  <1>5. RedDomainsComplete'
    <2> SUFFICES ASSUME step \in {"write", "done"}, request.kind # "domain_health", ~Disturbed,
                        NEW d \in Domains,
                        NEW r \in Newest(Of(past.health, d)) \cap Newest(Of(ever'.health, d)),
                        r.status = "RED"
                 PROVE  \E p \in Newest(Of(past.health, d)) : Of(red, d) = {p} /\ p.status = "RED"
      BY <1>1 DEF RedDomainsComplete, Of, Newest
    <2>1. r \in ever.health /\ r.domain = d
      BY DEF Newest, Of, HealthInv, FactsBetween
    <2>2. r \in Newest(Of(ever.health, d))
      BY <1>1, <2>1 DEF Newest, Of
    <2> QED
      BY <2>2 DEF HealthInv, RedDomainsComplete
  <1>6. FailuresExplained'
    BY <1>1 DEF HealthInv, FailuresExplained
  <1> QED
    BY <1>1, <1>2, <1>3, <1>4, <1>5, <1>6 DEF HealthInv

\* The script, and whoever else assesses a domain: a failed run comes with the
\* RED row of its domain, and goes with it.
LEMMA LoadKeeps ==
    ASSUME HealthInv, UNCHANGED isolated, Reset \/ Seed \/ Assess
    PROVE  HealthInv'
  <1>1. /\ health \subseteq HealthRow /\ failures \subseteq FailureRow /\ Paired(failures, health)
        /\ emptied \in BOOLEAN /\ blank \in BOOLEAN
        /\ \A t \in 0..clock : t \in Times /\ t \in Int
    BY HealthAssumption DEF HealthInv, HealthTypeOK, AllPaired, Times
  <1>2. CASE Reset
    <2>1. /\ Loads({}, {}) /\ blank' = TRUE /\ emptied' = (emptied \/ step # "none")
          /\ reportRow' = [d \in Days |-> NoRow]
      BY <1>2 DEF Reset
    <2>2. Paired({}, {}) /\ {} \in SUBSET HealthRow /\ {} \in SUBSET FailureRow
      BY DEF Paired
    <2>3. emptied' \in BOOLEAN /\ (emptied => emptied') /\ (step = "none" \/ emptied')
      BY <1>1, <2>1
    <2> QED
      BY <2>1, <2>2, <2>3, LoadsKeep
  <1>3. CASE Seed
    <2>1. PICK first, second, since \in 0..clock :
            /\ first <= second /\ second <= since
            /\ Loads(health \cup {[domain |-> Customer, at |-> since, status |-> "RED"]},
                     failures \cup {[domain |-> Customer, at |-> t] : t \in {first, second}})
      BY <1>3 DEF Seed
    <2>2. blank' = FALSE /\ UNCHANGED <<emptied, reportRow>>
      BY <1>3 DEF Seed
    <2> DEFINE h == health \cup {[domain |-> Customer, at |-> since, status |-> "RED"]}
               f == failures \cup {[domain |-> Customer, at |-> t] : t \in {first, second}}
    <2>3. h \in SUBSET HealthRow /\ f \in SUBSET FailureRow
      BY <1>1, HealthAssumption DEF HealthRow, FailureRow
    <2>4. Paired(f, h)
      <3> SUFFICES ASSUME NEW e \in f
                   PROVE  \E r \in h : r.domain = e.domain /\ e.at <= r.at /\ r.status = "RED"
        BY DEF Paired
      <3>1. CASE e \in failures
        BY <1>1, <3>1 DEF Paired
      <3>2. CASE e \notin failures
        <4>1. PICK t \in {first, second} : e = [domain |-> Customer, at |-> t]
          BY <3>2
        <4>2. t <= since
          BY <1>1, <2>1
        <4>3. PICK r \in h : r = [domain |-> Customer, at |-> since, status |-> "RED"]
          OBVIOUS
        <4> QED
          BY <4>1, <4>2, <4>3
      <3> QED
        BY <3>1, <3>2
    <2>5. health \subseteq h /\ failures \subseteq f
      OBVIOUS
    <2>6. Loads(h, f)
      BY <2>1
    <2> HIDE DEF h, f
    <2> QED
      BY <1>1, <2>2, <2>3, <2>4, <2>5, <2>6, LoadsKeep
  <1>4. CASE Assess
    <2>1. PICK d \in Domains, t \in 0..clock, status \in {"RED", "GREEN"} :
            Loads(health \cup {[domain |-> d, at |-> t, status |-> status]}, failures)
      BY <1>4 DEF Assess
    <2>2. UNCHANGED <<blank, emptied, reportRow>>
      BY <1>4 DEF Assess
    <2> DEFINE h == health \cup {[domain |-> d, at |-> t, status |-> status]}
    <2>3. h \in SUBSET HealthRow /\ Paired(failures, h) /\ health \subseteq h /\ Loads(h, failures)
      BY <1>1, <2>1 DEF HealthRow, Paired
    <2> HIDE DEF h
    <2> QED
      BY <1>1, <2>2, <2>3, LoadsKeep
  <1> QED
    BY <1>2, <1>3, <1>4

\* From the first read on the request sees what there is.
LEMMA AskKeeps ==
    ASSUME HealthInv, Ask, UNCHANGED isolated
    PROVE  HealthInv'
  <1>1. /\ step = "none"
        /\ past' = Tables(health, failures) /\ facts' = past' /\ ever' = past'
        /\ asked' = Today
        /\ UNCHANGED <<clock, zone, loads, blank, health, failures, emptied, request,
                       latest, failed, red, reportRow>>
    BY DEF Ask, world, answer
  <1>2. /\ past'.health = health /\ past'.failures = failures
    BY <1>1 DEF Tables
  <1>3. \/ request.kind = "domain_health" /\ step' = "health"
        \/ /\ request.kind = "domain_health" /\ step' = "done"
           /\ Of(health, request.domain) = {} /\ Of(failures, request.domain) = {}
        \/ request.kind = "red_domains" /\ step' = "red"
        \/ request.kind = "daily_summary" /\ step' = "failures"
    BY DEF Ask
  <1>4. Today' = Today /\ Today \in Days /\ Today \in Int /\ Disturbed' = Disturbed
    BY <1>1, TodayIsADay DEF HealthInv, Today, Disturbed
  <1>5. latest = NoRow /\ failed = {}
    BY <1>1 DEF HealthInv, StepFits
  <1>6. HealthTypeOK'
    <2>1. past' \in Facts
      BY <1>1 DEF HealthInv, HealthTypeOK, Facts, Tables
    <2> QED
      BY <1>1, <1>3, <1>4, <2>1 DEF HealthInv, HealthTypeOK
  <1>7. FactsBetween'
    BY <1>1, <1>2, <1>4 DEF FactsBetween, Tables
  <1>8. (AllPaired /\ StepFits)'
    BY <1>1, <1>2, <1>3, <1>5 DEF HealthInv, AllPaired, Paired, StepFits
  <1>9. HealthRead'
    BY <1>1, <1>2, <1>3, <1>5 DEF HealthRead
  <1>10. FailuresRead'
    <2>1. CASE step' = "done"
      <3>1. RightDay(Today)'
        BY <1>1, <1>3, <1>4, <2>1 DEF RightDay
      <3>2. ~Disturbed' => OfDay(past.failures, Today)' = {}
        BY <1>1, <1>2, <1>3, <2>1 DEF OfDay, Of
      <3> QED
        BY <1>1, <1>4, <1>5, <3>1, <3>2 DEF FailuresRead
    <2>2. CASE step' # "done"
      BY <1>1, <1>3, <2>2 DEF FailuresRead
    <2> QED
      BY <2>1, <2>2
  <1>11. (FailuresSeen /\ RedShown)'
    BY <1>1, <1>3 , <1>5 DEF FailuresSeen, RedShown, Paired
  <1>12. (RedDomainsComplete /\ FailuresExplained)'
    BY <1>1, <1>3, <1>4 DEF HealthInv, RedDomainsComplete, FailuresExplained
  <1> QED
    BY <1>6, <1>7, <1>8, <1>9, <1>10, <1>11, <1>12 DEF HealthInv

\* What a read leaves alone.
LEMMA ReadsKeep ==
    ASSUME HealthInv, UNCHANGED isolated, UNCHANGED world, UNCHANGED seen, UNCHANGED request
    PROVE  /\ Today' = Today /\ Disturbed' = Disturbed
           /\ step' # "none" /\ step # "none" => FactsBetween' /\ AllPaired'
           /\ UNCHANGED <<clock, zone, loads, blank, health, failures, facts, past, ever, emptied,
                          asked, request>>
  <1>1. UNCHANGED <<clock, zone, loads, blank, health, failures, facts, past, ever, emptied,
                    asked, request>>
    BY DEF world, seen
  <1>2. Today' = Today /\ Disturbed' = Disturbed
    BY <1>1 DEF Today, Disturbed
  <1>3. step' # "none" /\ step # "none" => FactsBetween' /\ AllPaired'
    BY <1>1, <1>2 DEF HealthInv, FactsBetween, AllPaired, Paired, Tables
  <1> QED
    BY <1>1, <1>2, <1>3

\* get_domain_health: the newest row the request sees is as new as any that was
\* there before.
LEMMA ReadHealthKeeps ==
    ASSUME HealthInv, ReadHealth, UNCHANGED isolated
    PROVE  HealthInv'
  <1>1. /\ step = "health" /\ step' = "failures"
        /\ UNCHANGED <<world, seen, request, failed, red, reportRow>>
    BY DEF ReadHealth
  <1>2. PICK d \in UNION Meant : IF Of(facts.health, d) = {} THEN UNCHANGED latest
                                ELSE latest' \in Newest(Of(facts.health, d))
    BY DEF ReadHealth
  <1>3. /\ Today' = Today /\ Disturbed' = Disturbed /\ FactsBetween' /\ AllPaired'
        /\ UNCHANGED <<clock, zone, loads, blank, health, failures, facts, past, ever, emptied,
                       asked, request>>
    BY <1>1, ReadsKeep
  <1>4. request.kind = "domain_health" /\ latest = NoRow /\ failed = {}
    BY <1>1 DEF HealthInv, StepFits
  <1>5. /\ facts.health \subseteq ever.health /\ ever.health \subseteq HealthRow
        /\ ~Disturbed => past.health \subseteq facts.health
    BY <1>1 DEF HealthInv, FactsBetween, HealthTypeOK, Facts
  <1>6. latest' = NoRow \/ latest' \in facts.health
    BY <1>2, <1>4 DEF Newest, Of
  <1>7. HealthTypeOK'
    BY <1>1, <1>3, <1>5, <1>6 DEF HealthInv, HealthTypeOK
  <1>8. HealthRead'
    <2>1. latest' # NoRow => latest' \in ever.health
      BY <1>5, <1>6
    <2>2. ASSUME ~Disturbed, NEW r \in Of(past.health, request.domain)
          PROVE  latest' # NoRow /\ latest'.domain = request.domain /\ r.at <= latest'.at
      <3>1. d = request.domain
        BY <2>2 DEF Meant
      <3>2. r \in Of(facts.health, d)
        BY <1>5, <2>2, <3>1 DEF Of
      <3>3. latest' \in Newest(Of(facts.health, d))
        BY <1>2, <3>2
      <3> QED
        BY <1>5, <3>1, <3>2, <3>3, HealthAssumption DEF Newest, Of
    <2> QED
      BY <1>3, <2>1, <2>2 DEF HealthRead
  <1>9. (StepFits /\ FailuresRead /\ FailuresSeen /\ RedShown)'
    BY <1>1, <1>3, <1>4 DEF StepFits, FailuresRead, FailuresSeen, RedShown
  <1>10. (RedDomainsComplete /\ FailuresExplained)'
    BY <1>1, <1>3 DEF HealthInv, RedDomainsComplete, FailuresExplained
  <1> QED
    BY <1>3, <1>7, <1>8, <1>9, <1>10 DEF HealthInv

\* get_failed_runs: the rows of one day, between those there were and those that
\* were there since.
LEMMA ReadFailuresKeeps ==
    ASSUME HealthInv, ReadFailures, UNCHANGED isolated
    PROVE  HealthInv'
  <1>1. /\ step = "failures"
        /\ UNCHANGED <<world, seen, request, latest, red, reportRow>>
        /\ request.kind \in {"domain_health", "daily_summary"}
    BY DEF ReadFailures, HealthInv, StepFits, HealthTypeOK, HealthRequest
  <1>2. /\ Today' = Today /\ Disturbed' = Disturbed
        /\ UNCHANGED <<clock, zone, loads, blank, health, failures, facts, past, ever, emptied,
                       asked, request>>
    BY <1>1, ReadsKeep
  <1>3. step' = IF request.kind = "daily_summary" THEN "red" ELSE "done"
    BY <1>1 DEF ReadFailures
  <1>4. FactsBetween' /\ AllPaired'
    BY <1>1, <1>3, ReadsKeep
  <1>5. /\ facts.failures \subseteq ever.failures /\ ever.failures \subseteq FailureRow
        /\ ~Disturbed => past.failures \subseteq facts.failures
    BY <1>1 DEF HealthInv, FactsBetween, HealthTypeOK, Facts
  <1>6. PICK day \in Days :
            /\ day \in Int /\ RightDay(day)'
            /\ day = IF request.kind = "daily_summary" THEN request.day ELSE Today
    <2>1. Today \in Days /\ Today \in Int /\ Days \subseteq Int /\ asked <= Today
      BY TodayIsADay, Calendar DEF HealthInv, FactsBetween
    <2>2. request.kind = "daily_summary" => request.day \in Days
      BY DEF HealthInv, HealthTypeOK, HealthRequest
    <2>3. CASE request.kind = "daily_summary"
      BY <1>2, <2>1, <2>2, <2>3 DEF RightDay
    <2>4. CASE request.kind # "daily_summary"
      BY <1>2, <2>1, <2>4 DEF RightDay
    <2> QED
      BY <2>3, <2>4
  <1>7. PICK ds \in SUBSET Domains :
            /\ request.kind = "domain_health" /\ ~Disturbed => ds = {request.domain}
            /\ failed' = {f \in facts.failures :
                  InDay(day, f.at) /\ (request.kind = "domain_health" => f.domain \in ds)}
    <2>1. CASE request.kind = "daily_summary"
      BY <1>6, <2>1 DEF ReadFailures
    <2>2. CASE request.kind = "domain_health"
      <3>1. PICK ds \in Meant : failed' = {f \in facts.failures : f.domain \in ds /\ InDay(Today, f.at)}
        BY <2>2 DEF ReadFailures
      <3> QED
        BY <1>6, <2>2, <3>1 DEF Meant
    <2> QED
      BY <1>1, <2>1, <2>2
  <1>8. ASSUME NEW f \in ever.failures PROVE InDay(day, f.at) <=> f.at \div DayLength = day
    <2>1. f.at \in Nat
      BY <1>5, Calendar DEF FailureRow
    <2> QED
      BY <1>6, <2>1, DayOfTime
  <1>9. failed' \subseteq facts.failures
    BY <1>7
  <1>10. HealthTypeOK'
    BY <1>1, <1>2, <1>3, <1>5, <1>9 DEF HealthInv, HealthTypeOK
  <1>11. FailuresRead'
    <2>1. failed' \subseteq OfDay(ever.failures, day)'
      BY <1>2, <1>5, <1>7, <1>8 DEF OfDay
    <2>2. ~Disturbed => OfDay(past.failures, day)' \subseteq failed'
      BY <1>1, <1>2, <1>5, <1>7, <1>8 DEF OfDay
    <2> QED
      BY <1>2, <1>6, <2>1, <2>2 DEF FailuresRead
  <1>12. FailuresSeen'
    BY <1>1, <1>2, <1>9 DEF HealthInv, AllPaired, Paired, FailuresSeen
  <1>13. (StepFits /\ HealthRead /\ RedShown)'
    BY <1>1, <1>2, <1>3 DEF HealthInv, StepFits, HealthRead, Of, RedShown
  <1>14. (RedDomainsComplete /\ FailuresExplained)'
    BY <1>1, <1>2, <1>3 DEF HealthInv, RedDomainsComplete, FailuresExplained
  <1> QED
    BY <1>4, <1>10, <1>11, <1>12, <1>13, <1>14 DEF HealthInv

\* get_red_domains: a newest RED row of each domain that has one.
LEMMA ReadRedKeeps ==
    ASSUME HealthInv, ReadRed, UNCHANGED isolated
    PROVE  HealthInv'
  <1>1. /\ step = "red"
        /\ step' = IF request.kind = "daily_summary" THEN "write" ELSE "done"
        /\ UNCHANGED <<world, seen, request, latest, failed, reportRow>>
    BY DEF ReadRed
  <1>2. request.kind \in {"red_domains", "daily_summary"}
    BY <1>1 DEF HealthInv, StepFits, HealthTypeOK, HealthRequest
  <1>3. /\ Today' = Today /\ Disturbed' = Disturbed /\ FactsBetween' /\ AllPaired'
        /\ UNCHANGED <<clock, zone, loads, blank, health, failures, facts, past, ever, emptied,
                       asked, request>>
    BY <1>1, ReadsKeep
  <1>4. /\ facts.health \subseteq ever.health /\ ever.health \subseteq HealthRow
        /\ ~Disturbed => past.health \subseteq facts.health
    BY <1>1 DEF HealthInv, FactsBetween, HealthTypeOK, Facts
  <1>5. /\ red' \subseteq UNION {Newest(RedRows(d)) : d \in Domains}
        /\ \A d \in Domains : RedRows(d) # {} =>
              \E r \in red' : {q \in red' : q.domain = d} = {r}
    BY DEF ReadRed
  <1>6. ASSUME NEW d \in Domains, NEW r \in RedRows(d)
        PROVE  \E p \in Newest(RedRows(d)) : p.domain = d /\ Of(red', d) = {p}
    <2>1. PICK p \in red' : {q \in red' : q.domain = d} = {p}
      BY <1>5, <1>6
    <2>2. p.domain = d
      BY <2>1
    <2>3. PICK e \in Domains : p \in Newest(RedRows(e))
      BY <1>5
    <2>4. e = d
      BY <2>2, <2>3 DEF Newest, RedRows
    <2> QED
      BY <2>1, <2>2, <2>3, <2>4 DEF Of
  <1>7. red' \subseteq HealthRow
    BY <1>4, <1>5 DEF Newest, RedRows
  <1>8. HealthTypeOK'
    BY <1>1, <1>3, <1>7 DEF HealthInv, HealthTypeOK
  <1>9. RedShown'
    <2> SUFFICES ASSUME request.kind = "daily_summary", ~Disturbed, NEW f \in failed
                 PROVE  \E r \in red' : r.domain = f.domain /\ f.at <= r.at
      BY <1>1, <1>3 DEF RedShown
    <2>1. PICK r \in facts.health : r.domain = f.domain /\ f.at <= r.at /\ r.status = "RED"
      BY <1>1 DEF HealthInv, FailuresSeen, Paired
    <2>2. f \in FailureRow /\ r \in HealthRow
      BY <1>4, <2>1 DEF HealthInv, HealthTypeOK
    <2>3. f.domain \in Domains /\ r \in RedRows(f.domain)
      BY <2>1, <2>2 DEF RedRows, FailureRow
    <2>4. PICK p \in Newest(RedRows(f.domain)) : p.domain = f.domain /\ Of(red', f.domain) = {p}
      BY <1>6, <2>3
    <2>5. p \in red' /\ r.at <= p.at
      BY <2>3, <2>4 DEF Of, Newest
    <2>6. r.at \in Times /\ p.at \in Times /\ f.at \in Times
      BY <1>7, <2>2, <2>5 DEF FailureRow, HealthRow
    <2>7. f.at <= p.at
      BY <2>1, <2>5, <2>6, HealthAssumption DEF Times
    <2> QED
      BY <2>4, <2>5, <2>7
  <1>10. RedDomainsComplete'
    <2> SUFFICES ASSUME ~Disturbed, NEW d \in Domains,
                        NEW r \in Newest(Of(past.health, d)) \cap Newest(Of(ever.health, d)),
                        r.status = "RED"
                 PROVE  \E p \in Newest(Of(past.health, d)) : Of(red', d) = {p} /\ p.status = "RED"
      BY <1>1, <1>3 DEF RedDomainsComplete, Of, Newest
    <2>1. r \in past.health /\ r.domain = d
      BY DEF Newest, Of
    <2>2. r \in RedRows(d)
      BY <1>4, <2>1 DEF RedRows
    <2>3. PICK p \in Newest(RedRows(d)) : p.domain = d /\ Of(red', d) = {p}
      BY <1>6, <2>2
    <2>4. /\ p \in facts.health /\ p.status = "RED" /\ r.at <= p.at
      BY <2>2, <2>3 DEF Newest, RedRows
    <2>5. p.at <= r.at
      BY <1>4, <2>3, <2>4 DEF Newest, Of
    <2>6. p \in HealthRow /\ r \in HealthRow
      BY <1>4, <2>1, <2>4
    <2>7. p.at = r.at
      BY <2>4, <2>5, <2>6, HealthAssumption DEF HealthRow, Times
    <2>8. p = r
      BY <2>1, <2>3, <2>4, <2>6, <2>7 DEF HealthRow
    <2> QED
      BY <2>3, <2>8
  <1>11. (StepFits /\ HealthRead /\ FailuresSeen)'
    BY <1>1, <1>2 DEF HealthInv, StepFits, HealthRead, FailuresSeen
  <1>12. FailuresRead'
    BY <1>1, <1>2, <1>3 DEF HealthInv, FailuresRead, RightDay, OfDay
  <1>13. FailuresExplained'
    BY <1>1, <1>3 DEF HealthInv, FailuresExplained
  <1> QED
    BY <1>3, <1>8, <1>9, <1>10, <1>11, <1>12, <1>13 DEF HealthInv

\* The row of the date takes what was read, unless the write fails.
LEMMA WriteKeeps ==
    ASSUME HealthInv, Write, UNCHANGED isolated
    PROVE  HealthInv'
  <1>1. /\ step = "write" /\ step' = "done"
        /\ UNCHANGED <<world, seen, request, latest, failed, red>>
        /\ request.kind = "daily_summary" /\ request.day \in Days
    BY DEF Write, answer, HealthInv, StepFits, HealthTypeOK, HealthRequest
  <1>2. /\ Today' = Today /\ Disturbed' = Disturbed /\ FactsBetween' /\ AllPaired'
        /\ UNCHANGED <<clock, zone, loads, blank, health, failures, facts, past, ever, emptied,
                       asked, request>>
    BY <1>1, ReadsKeep
  <1>3. \/ reportRow' = [reportRow EXCEPT ![request.day] = [failed |-> failed, red |-> red]]
        \/ UNCHANGED reportRow
    BY DEF Write
  <1>4. HealthTypeOK'
    <2>1. [failed |-> failed, red |-> red] \in Summary
      BY DEF HealthInv, HealthTypeOK, Summary
    <2>2. reportRow' \in [Days -> Summary \cup {NoRow}]
      BY <1>3, <2>1 DEF HealthInv, HealthTypeOK
    <2> QED
      BY <1>1, <1>2, <2>2 DEF HealthInv, HealthTypeOK
  <1>5. FailuresExplained'
    <2> SUFFICES ASSUME ~Disturbed, NEW d \in Days, reportRow'[d] # NoRow,
                        NEW f \in reportRow'[d].failed
                 PROVE  \E r \in reportRow'[d].red : r.domain = f.domain /\ f.at <= r.at
      BY <1>2 DEF FailuresExplained
    <2>1. \A e \in failed : \E r \in red : r.domain = e.domain /\ e.at <= r.at
      BY <1>1 DEF HealthInv, RedShown
    <2>2. CASE d = request.day /\ ~UNCHANGED reportRow
      <3>1. reportRow'[d] = [failed |-> failed, red |-> red]
        BY <1>1, <1>3, <2>2 DEF HealthInv, HealthTypeOK
      <3>2. reportRow'[d].failed = failed /\ reportRow'[d].red = red
        BY <3>1
      <3> QED
        BY <2>1, <3>2
    <2>3. CASE d # request.day \/ UNCHANGED reportRow
      <3>1. reportRow'[d] = reportRow[d]
        BY <1>1, <1>3, <2>3 DEF HealthInv, HealthTypeOK
      <3> QED
        BY <3>1 DEF HealthInv, FailuresExplained
    <2> QED
      BY <2>2, <2>3
  <1>6. (StepFits /\ HealthRead /\ FailuresSeen /\ RedShown)'
    BY <1>1 DEF StepFits, HealthRead, FailuresSeen, RedShown
  <1>7. FailuresRead'
    BY <1>1, <1>2 DEF HealthInv, FailuresRead, RightDay, OfDay
  <1>8. RedDomainsComplete'
    BY <1>1, <1>2 DEF HealthInv, RedDomainsComplete, Newest, Of
  <1> QED
    BY <1>2, <1>4, <1>5, <1>6, <1>7, <1>8 DEF HealthInv

-----------------------------------------------------------------------------
\* Every request, on either database, keeps the invariant.
LEMMA HealthInvariant == Spec => []HealthInv
  <1>1. Init => HealthInv
    BY HealthInitInv DEF Init
  <1>2. HealthInv /\ [Next]_vars => HealthInv'
    <2> SUFFICES ASSUME HealthInv, [Next]_vars PROVE HealthInv'
      OBVIOUS
    <2>1. CASE HealthStep /\ UNCHANGED isolated
      BY <2>1, AskKeeps, ReadHealthKeeps, ReadFailuresKeeps, ReadRedKeeps, WriteKeeps DEF HealthStep
    <2>2. CASE (Tick \/ Reset \/ Seed \/ Assess) /\ UNCHANGED isolated
      BY <2>2, TickKeeps, LoadKeeps
    <2>3. CASE UNCHANGED healthVars /\ UNCHANGED isolated
      <3>1. UNCHANGED <<clock, zone, loads, blank, health, failures, facts, past, ever, emptied,
                        asked, request, step, latest, failed, red, reportRow>>
        BY <2>3 DEF healthVars, world, seen, answer
      <3>2. Today' = Today /\ Disturbed' = Disturbed
        BY <2>3, <3>1 DEF Today, Disturbed
      <3> QED
        BY <2>3, <3>1, <3>2 DEF HealthInv, HealthTypeOK, FactsBetween, Tables, AllPaired, Paired,
               StepFits, HealthRead, Of, FailuresRead, RightDay, OfDay, FailuresSeen, RedShown,
               RedDomainsComplete, Newest, FailuresExplained
    <2> QED
      BY <2>1, <2>2, <2>3 DEF Next, RequestStep, Change, CatalogStep, CatalogChange, AnswerHealth,
                              HealthChange, vars
  <1> QED
    BY <1>1, <1>2, PTL DEF Spec

\* get_domain_health never shows an assessment older than one there was when the
\* request came.
THEOREM HealthIsUpToDate == Spec => []HealthUpToDate
  <1>1. HealthInv => HealthUpToDate
    BY DEF HealthInv, HealthRead, HealthUpToDate
  <1> QED
    BY <1>1, HealthInvariant, PTL

\* get_failed_runs answers with the failed runs of exactly one day, however
\* midnight falls.
THEOREM FailuresAreOfOneDay == Spec => []FailuresOfOneDay
  <1>1. HealthInv => FailuresOfOneDay
    <2> SUFFICES ASSUME HealthInv, step = "done", request.kind # "red_domains"
                 PROVE  FailuresOfOneDay
      BY DEF FailuresOfOneDay
    <2>1. request.kind \in {"domain_health", "daily_summary"}
      BY DEF HealthInv, HealthTypeOK, HealthRequest
    <2> QED
      BY <2>1 DEF HealthInv, FailuresRead, RightDay, FailuresOfOneDay, OfDay
  <1> QED
    BY <1>1, HealthInvariant, PTL

\* get_red_domains misses no domain that was RED before the request and is RED.
THEOREM RedDomainsAreComplete == Spec => []RedDomainsComplete
  <1>1. HealthInv => RedDomainsComplete
    BY DEF HealthInv
  <1> QED
    BY <1>1, HealthInvariant, PTL

\* generate_daily_summary never shows a failed run without its RED domain, though
\* it reads the two at different times.
THEOREM FailuresAreExplained == Spec => []FailuresExplained
  <1>1. HealthInv => FailuresExplained
    BY DEF HealthInv
  <1> QED
    BY <1>1, HealthInvariant, PTL
=============================================================================
