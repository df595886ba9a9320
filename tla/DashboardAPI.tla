------------------------------ MODULE DashboardAPI ------------------------------
(***************************************************************************)
(* The read side: AttackEventRepository (db/repositories/attack.py), the   *)
(* risk score (analysis/ip.py) and the routes that use them (api/routes),  *)
(* while the workers go on inserting rows.                                 *)
(*                                                                         *)
(* A request runs its SELECTs one after the other in a READ COMMITTED      *)
(* transaction: each sees the table as it is when it runs.  Rows become    *)
(* visible in any order and late: an event waits in the queue, so a row    *)
(* with a time stamp before the end of the period may appear while the     *)
(* request runs.  Requests only read the table and share nothing but the   *)
(* resolver's cache, so one at a time is enough.                           *)
(*                                                                         *)
(* "answer" is what the request has found so far: one item per SELECT.     *)
(***************************************************************************)
EXTENDS Integers, Sequences, FiniteSets, FiniteSetsExt, SequencesExt

CONSTANTS
    Rows,           \* the rows that will be inserted, by id
    Addresses, Place, Unresolved, Damaged, Enabled, CacheSize,
    Day,            \* length of the bounded period
    Hour, Month,    \* widths of date_trunc's buckets; a minute is 1
    PerPage,        \* per_page
    TopLimit,       \* limit of the rankings
    Candidates,     \* max(limit * 3, 30)
    Saturation,     \* _FREQUENCY_SATURATION
    MaxTime         \* bound: the clock

Protocols  == {"ssh", "http"}
Severities == {"HIGH", "MEDIUM", "LOW"}

VARIABLES
    now,            \* the clock, always past the first period
    table,          \* the ids of the rows inserted so far
    request,        \* the request being answered, or answered last
    answer,         \* its results so far
    walk,           \* a client that asks for one page after the other
    up,             \* the API process runs
    reader, cache, recent   \* GeoResolver

vars == <<now, table, request, answer, walk, up, reader, cache, recent>>
geoVars == <<reader, cache, recent>>

Geo == INSTANCE GeoResolver

IPs == {Rows[r].ip : r \in DOMAIN Rows}

\* An attack type or severity "none" is NULL: the row is not classified yet.
ASSUME ApiAssumption ==
    /\ Geo!GeoAssumption
    /\ IPs \subseteq Addresses
    /\ \A r \in DOMAIN Rows :
          /\ Rows[r].at \in 1 .. MaxTime
          /\ Rows[r].protocol \in Protocols
          /\ Rows[r].severity \in Severities \cup {"none"}
    /\ {Day, Hour, Month, PerPage, TopLimit, Candidates, Saturation, MaxTime}
          \subseteq Nat \ {0}
    /\ MaxTime > Day

PeriodKinds == {"summary", "timeline", "types", "severity", "topips", "ranking"}
Kinds == PeriodKinds \cup {"none", "events", "country", "profile", "ipgeo"}

\* What a request is answered with: a result, 400 or 404, 500.
Statuses == {"none", "open", "ok", "refused", "failed"}

\* ip: the address asked for, or the filter of a list; before: the table when
\* the request came in.
TypeOK ==
    /\ now \in Day + 1 .. MaxTime
    /\ table \subseteq DOMAIN Rows
    /\ request.kind \in Kinds
    /\ request.since \in Int /\ request.until \in 0 .. MaxTime
    /\ request.ip \in Addresses \cup {"any"}
    /\ request.before \subseteq table
    /\ request.status \in Statuses
    /\ Len(answer) <= Max({4, 2 * Candidates + 1})
    /\ walk.page \in 0 .. Cardinality(table) + 1
    /\ walk.seen \subseteq table /\ walk.began \subseteq table
    /\ walk.clean \in BOOLEAN
    /\ up \in BOOLEAN
    /\ Geo!TypeOK

Open == request.status = "open"
Closed == [kind |-> "none", since |-> 0, until |-> 0, ip |-> "any",
           before |-> {}, status |-> "none"]
NoWalk == [page |-> 0, began |-> {}, seen |-> {}, clean |-> TRUE]

Init ==
    /\ now = Day + 1
    /\ table = {}
    /\ request = Closed
    /\ answer = <<>>
    /\ walk = NoWalk
    /\ up = TRUE
    /\ Geo!Init

-----------------------------------------------------------------------------
(* The filters and what a SELECT returns.                                  *)

\* WHERE timestamp >= since AND timestamp <= until; since is 0 for "all".
Within(S) == {r \in S : /\ Rows[r].at >= request.since
                        /\ Rows[r].at <= request.until}
InPeriod == Within(table)

Of(S, ip) == {r \in S : Rows[r].ip = ip}

\* The rows of an event list; a filter by protocol or time has the same shape.
Listed(S) == IF request.ip = "any" THEN S ELSE Of(S, request.ip)

Newer(q, r) == Rows[q].at > Rows[r].at

\* ORDER BY timestamp DESC OFFSET offset LIMIT limit: rows with the same time
\* stamp come in any order, and in another one next time.
Slices(S, offset, limit) ==
    {X \in SUBSET S :
        \E before \in SUBSET (S \ X) :
            /\ Cardinality(before) = Min({offset, Cardinality(S)})
            /\ Cardinality(X) = Min({limit, Cardinality(S) - Cardinality(before)})
            /\ \A x \in X, b \in before : ~Newer(x, b)
            /\ \A y \in S \ (X \cup before), x \in X \cup before : ~Newer(y, x)}

\* GROUP BY source_ip ORDER BY count DESC LIMIT limit: again ties in any order.
TopIPs(S, limit) ==
    LET seen == {Rows[r].ip : r \in S}
        events(ip) == Cardinality(Of(S, ip))
    IN {s \in SetToAllKPermutations(seen) :
          /\ Len(s) = Min({limit, Cardinality(seen)})
          /\ \A m, n \in DOMAIN s : m < n => events(s[m]) >= events(s[n])
          /\ \A ip \in seen \ ToSet(s), n \in DOMAIN s : events(s[n]) >= events(ip)}

Classified(S) == {r \in S : Rows[r].severity # "none"}

-----------------------------------------------------------------------------
(* Risk score.                                                             *)

\* _SEVERITY_SCORE; the highest counts.
SeverityPoints == [HIGH |-> 30, MEDIUM |-> 15, LOW |-> 5]
SeverityScore(severities) ==
    Max({0} \cup {SeverityPoints[s] : s \in severities \cap Severities})

\* RiskScorer.calculate.
Score(total, types, severities) ==
    Min({100, Min({40, (total * 40) \div Saturation})
              + Min({30, 10 * Cardinality(types)})
              + SeverityScore(severities)})

TypesOf(S) == {Rows[r].type : r \in Classified(S)}
SeveritiesOf(S) == {Rows[r].severity : r \in Classified(S)}

-----------------------------------------------------------------------------
(* The table.                                                              *)

Tick ==
    /\ now < MaxTime
    /\ now' = now + 1
    /\ UNCHANGED <<table, request, answer, walk, up, geoVars>>

\* A worker commits a row, some time after the event.
Insert(r) ==
    /\ r \notin table
    /\ Rows[r].at <= now
    /\ table' = table \cup {r}
    /\ UNCHANGED <<now, request, answer, walk, up, geoVars>>

-----------------------------------------------------------------------------
(* Requests.                                                               *)

Walking == walk.page > 0

\* resolve_period_range.
Since(period) == IF period = "all" THEN 0 ELSE now - Day

Opened(kind, since, until, ip, status) ==
    /\ ~Open
    /\ up
    /\ request' = [kind |-> kind, since |-> since, until |-> until, ip |-> ip,
                   before |-> table, status |-> status]
    /\ answer' = <<>>
    /\ UNCHANGED <<now, table, up, geoVars>>

\* A request for a period comes in, or one for an address.
Begin(kind, period, ip) ==
    /\ ~Walking
    /\ Opened(kind, Since(period), now, ip, "open")
    /\ UNCHANGED walk

\* get_country_summary takes any bounds or none (0 and MaxTime): 400 when
\* the first is after the second.
BeginCountry(start, end) ==
    /\ ~Walking
    /\ Opened("country", start, end, "any",
              IF start > end THEN "refused" ELSE "open")
    /\ UNCHANGED walk

Answered(status) == request' = [request EXCEPT !.status = status]

\* The next SELECT returns; with the last one the request is answered.
Result(found, last) ==
    /\ answer' = Append(answer, found)
    /\ Answered(IF last THEN "ok" ELSE "open")
    /\ UNCHANGED <<now, table, walk, up, geoVars>>

Pending(kind, step) ==
    /\ Open
    /\ request.kind = kind
    /\ Len(answer) = step

Count(S) == Cardinality(S)

\* Mutant: the lower end of the period is left out of one of the counts.
SummaryUnbounded ==
    \/ /\ Pending("summary", 0)
       /\ Result(Count(InPeriod), FALSE)
    \/ /\ Pending("summary", 1)
       /\ Result(Cardinality({Rows[r].ip : r \in InPeriod}), FALSE)
    \/ /\ Pending("summary", 2)
       /\ Result(Count({r \in table : Rows[r].protocol = "ssh"}), FALSE)
    \/ /\ Pending("summary", 3)
       /\ Result(Count({r \in InPeriod : Rows[r].protocol = "http"}), TRUE)

\* get_summary: total, addresses, SSH, HTTP.
Summary ==
    \/ /\ Pending("summary", 0)
       /\ Result(Count(InPeriod), FALSE)
    \/ /\ Pending("summary", 1)
       /\ Result(Cardinality({Rows[r].ip : r \in InPeriod}), FALSE)
    \/ /\ Pending("summary", 2)
       /\ Result(Count({r \in InPeriod : Rows[r].protocol = "ssh"}), FALSE)
    \/ /\ Pending("summary", 3)
       /\ Result(Count({r \in InPeriod : Rows[r].protocol = "http"}), TRUE)

\* The unit the bucket is truncated to.  The periods "1y", which is bounded,
\* and "all" take months whatever the interval.
Unit(months, interval) ==
    CASE months -> "month"
      [] ~months /\ interval = "5m" -> "minute"
      [] ~months /\ interval = "15m" -> "quarter_hour"
      [] OTHER -> "hour"

\* get_timeline: events per bucket, in all and by protocol.  The bounded period
\* may be a year or a shorter one.  PostgreSQL's date_trunc has no
\* quarter_hour: the statement fails.
Timeline ==
    /\ Pending("timeline", 0)
    /\ \E interval \in {"5m", "15m", "1h"}, months \in BOOLEAN :
          /\ request.since = 0 => months
          /\ IF Unit(months, interval) = "quarter_hour"
             THEN /\ Answered("failed")
                  /\ UNCHANGED <<now, table, answer, walk, up, geoVars>>
             ELSE
               LET width == CASE Unit(months, interval) = "minute" -> 1
                              [] Unit(months, interval) = "hour" -> Hour
                              [] OTHER -> Month
                   bucket(r) == Rows[r].at \div width
                   rows(b, p) == {r \in InPeriod : bucket(r) = b /\ Rows[r].protocol \in p}
               IN Result([b \in {bucket(r) : r \in InPeriod} |->
                            [total |-> Count(rows(b, Protocols)),
                             ssh   |-> Count(rows(b, {"ssh"})),
                             http  |-> Count(rows(b, {"http"}))]], TRUE)

\* count_by_attack_type: the types that occur.
AttackTypes ==
    /\ Pending("types", 0)
    /\ Result([t \in TypesOf(InPeriod) |->
                 Count({r \in Classified(InPeriod) : Rows[r].type = t})], TRUE)

\* count_by_severity, and the three levels the route makes of it.
SeveritySummary ==
    /\ Pending("severity", 0)
    /\ Result([s \in Severities |->
                 Count({r \in Classified(InPeriod) : Rows[r].severity = s})], TRUE)

-----------------------------------------------------------------------------
(* The event list, walked page by page.                                    *)

\* The client asks for the next page: the first, or the one after the last.
\* It goes on as long as the answer says that there are more.
Pages == (answer[1] + PerPage - 1) \div PerPage

AskPage(ip) ==
    /\ ~Open
    /\ Walking => walk.page < Pages /\ ip = request.ip
    /\ Opened("events", 0, now, ip, "open")
    /\ walk' = IF Walking
               THEN [walk EXCEPT !.page = @ + 1]
               ELSE [NoWalk EXCEPT !.page = 1, !.began = table]

\* list_events: the count ...
CountEvents ==
    /\ Pending("events", 0)
    /\ Result(Count(Listed(table)), FALSE)

ShowPage(X) ==
    /\ answer' = Append(answer, X)
    /\ walk' = [walk EXCEPT !.seen = @ \cup X,
                            !.clean = Count(Listed(table)) = answer[1]]
    /\ Answered("ok")
    /\ UNCHANGED <<now, table, up, geoVars>>

\* Mutant: pages counted from 0.
PageOfEventsShifted ==
    /\ Pending("events", 1)
    /\ \E X \in Slices(Listed(table), walk.page * PerPage, PerPage) : ShowPage(X)

\* ... and the page, from the table as it is then.  clean: no row has come in
\* between the two.
PageOfEvents ==
    /\ Pending("events", 1)
    /\ \E X \in Slices(Listed(table), (walk.page - 1) * PerPage, PerPage) : ShowPage(X)

\* The client is done with the list.
Leave ==
    /\ Walking
    /\ ~Open
    /\ walk' = NoWalk
    /\ request' = Closed
    /\ answer' = <<>>
    /\ UNCHANGED <<now, table, up, geoVars>>

-----------------------------------------------------------------------------
(* Addresses and their risk.                                               *)

\* get_ip_aggregates_for_ranking: the candidates by their events in the
\* period ...
RankCandidates ==
    /\ Pending("ranking", 0)
    /\ \E s \in TopIPs(InPeriod, Candidates) :
          Result([n \in DOMAIN s |->
                    [ip |-> s[n], total |-> Count(Of(InPeriod, s[n]))]],
                 s = <<>>)

\* Mutant: the details are read of the first candidate every time.
TurnFirst == answer[1][1].ip

\* The candidate whose attack types and severities are read next.
Turn == answer[1][(Len(answer) + 1) \div 2].ip

\* ... and then for each its attack types and severities, of all times.
RankDetails ==
    /\ Open
    /\ request.kind = "ranking"
    /\ Len(answer) > 0
    /\ IF Len(answer) % 2 = 1
       THEN Result(TypesOf(Of(table, Turn)), FALSE)
       ELSE Result(SeveritiesOf(Of(table, Turn)), Len(answer) = 2 * Len(answer[1]))

\* get_risk_ranking: the profiles by score, equal scores by their events.
RankScore(n) == Score(answer[1][n].total, answer[2 * n], answer[2 * n + 1])
Ranking ==
    LET order == SetToSortSeq(DOMAIN answer[1],
            LAMBDA m, n : \/ RankScore(m) > RankScore(n)
                          \/ RankScore(m) = RankScore(n) /\ m < n)
    IN SubSeq(order, 1, Min({TopLimit, Len(order)}))

\* get_ip_profile: the events of an address, its attack types, its
\* severities; without events 404.
Profile ==
    LET events == Of(table, request.ip)
    IN \/ /\ Pending("profile", 0)
          /\ events = {}
          /\ Answered("refused")
          /\ UNCHANGED <<now, table, answer, walk, up, geoVars>>
       \/ /\ Pending("profile", 0)
          /\ events # {}
          /\ Result(Count(events), FALSE)
       \/ /\ Pending("profile", 1)
          /\ Result(TypesOf(events), FALSE)
       \/ /\ Pending("profile", 2)
          /\ Result(SeveritiesOf(events), TRUE)

-----------------------------------------------------------------------------
(* Addresses and their places.                                             *)

\* The addresses s are resolved at once.  An exception of the resolver is a 500.
Resolved(s, found) ==
    LET raises == Geo!ResolveAll(s).raises
    IN /\ Geo!Resolve(s)
       /\ answer' = IF raises THEN answer ELSE Append(answer, found)
       /\ Answered(IF raises THEN "failed" ELSE "ok")
       /\ UNCHANGED <<now, table, walk, up>>

Located(s) == [n \in DOMAIN s |-> [ip |-> s[n], place |-> Geo!ResolveAll(s).places[n]]]

\* get_ip_geo.  (400 for what is not an address.)
IpGeo ==
    /\ Pending("ipgeo", 0)
    /\ Resolved(<<request.ip>>, Located(<<request.ip>>))

\* get_geo_top_ips.  (get_dashboard_top_ips is its SELECT alone.)
GeoTopIPs ==
    /\ Pending("topips", 0)
    /\ \E s \in TopIPs(InPeriod, TopLimit) : Resolved(s, Located(s))

\* get_country_summary: get_ip_counts has no LIMIT.
CountrySummary ==
    /\ Pending("country", 0)
    /\ \E s \in TopIPs(InPeriod, Cardinality(table)) :
          Resolved(s, Geo!Aggregate([n \in DOMAIN s |-> Count(Of(InPeriod, s[n]))],
                                    Geo!ResolveAll(s).places))

\* The API process shuts down when it has answered.
ShutDown ==
    /\ up
    /\ ~Open
    /\ up' = FALSE
    /\ request' = Closed
    /\ answer' = <<>>
    /\ walk' = NoWalk
    /\ Geo!Close
    /\ UNCHANGED <<now, table>>

-----------------------------------------------------------------------------

Next ==
    \/ Tick
    \/ \E r \in DOMAIN Rows : Insert(r)
    \/ \E kind \in PeriodKinds, period \in {"day", "all"} : Begin(kind, period, "any")
    \/ \E ip \in IPs : Begin("profile", "all", ip)
    \/ \E ip \in Addresses : Begin("ipgeo", "all", ip)
    \/ \E start \in {0, now}, end \in {now - 1, MaxTime} : BeginCountry(start, end)
    \/ \E ip \in IPs \cup {"any"} : AskPage(ip)
    \/ Summary \/ Timeline \/ AttackTypes \/ SeveritySummary
    \/ CountEvents \/ PageOfEvents \/ Leave
    \/ RankCandidates \/ RankDetails \/ Profile
    \/ IpGeo \/ GeoTopIPs \/ CountrySummary
    \/ ShutDown

Spec == Init /\ [][Next]_vars

-----------------------------------------------------------------------------
(* Correctness.                                                            *)

Is(kind) == request.kind = kind /\ request.status = "ok"

\* list_events takes the count and the page in two statements while rows come
\* in, and every page is a request of its own.  A client that has walked the
\* list to its last page has still seen every row that was there when it began,
\* if no row came in between the two statements of the last request (clean);
\* only rows with equal time stamps, which no ORDER BY tells apart, may escape.
WalkShowsAll ==
    (Walking /\ ~Open /\ walk.clean /\ walk.page >= Pages) =>
        \A r \in Listed(walk.began) :
            (\A q \in table \ {r} : Rows[q].at # Rows[r].at) => r \in walk.seen

\* The figures of one answer come from up to four statements (get_summary) or
\* from one that splits them (get_timeline, count_by_...).  None counts a
\* row that is outside of the period or not there, none misses one that was
\* there when the request came in, and the protocols add up to no less than
\* the total, which is counted first.
SummaryAddsUp ==
    LET before == Within(request.before)
        ips(S) == {Rows[r].ip : r \in S}
    IN /\ Is("summary") =>
            /\ Count(before) <= answer[1] /\ answer[1] <= answer[3] + answer[4]
            /\ answer[3] + answer[4] <= Count(InPeriod)
            /\ Count(ips(before)) <= answer[2] /\ answer[2] <= Count(ips(InPeriod))
            /\ answer[2] <= answer[3] + answer[4]
       /\ Is("timeline") =>
            LET total == [b \in DOMAIN answer[1] |-> answer[1][b].total]
            IN /\ SumFunction(total) \in Count(before) .. Count(InPeriod)
               /\ \A b \in DOMAIN total : total[b] = answer[1][b].ssh + answer[1][b].http
       /\ (Is("types") \/ Is("severity")) =>
            SumFunction(answer[1])
                \in Count(Classified(before)) .. Count(Classified(InPeriod))

\* A risk score is put together from three statements, the ranking's from two
\* for every candidate after the one that counts: whatever comes in meanwhile,
\* it is a score of that address.  A profile's lies between the score of the
\* rows that were there when the request came in and that of the rows there are
\* now.  A ranking's is at least that of the rows the period had when the
\* request came in, and at most that of the number of rows the period has now
\* with all types and severities of the address: those are read without the
\* period (attack.py:512), although requirements 2.2 and 7.4 of .kiro/specs/
\* 5-feat-dashboard-unified-period aggregate the ranking over it.  A code that
\* read them within the period would keep these bounds, too.
RiskBracketed ==
    LET score(S, all) == Score(Count(S), TypesOf(all), SeveritiesOf(all))
        old == request.before
    IN /\ Is("profile") =>
            Score(answer[1], answer[2], answer[3])
                \in score(Of(old, request.ip), Of(old, request.ip)) ..
                    score(Of(table, request.ip), Of(table, request.ip))
       /\ Is("ranking") =>
            \A n \in DOMAIN answer[1] : n \in ToSet(Ranking) =>
                LET ip == answer[1][n].ip
                    first == Of(Within(old), ip)
                IN RankScore(n) \in score(first, first) ..
                                    score(Of(InPeriod, ip), Of(table, ip))

\* What the database says, when there is one.
PlaceOf(ip) == IF Geo!Usable /\ ip \in Geo!Public THEN Place[ip] ELSE Unresolved

\* Places do not depend on what is in the cache and what was asked before: an
\* address stands where the database has it, the events of a country are those
\* of its addresses, with all the unresolved ones together, and an answer fails
\* only over an address whose record cannot be decoded.
PlacesTrue ==
    LET asked(S) == {Rows[r].ip : r \in Within(S)}
        from(S, c) == {r \in Within(S) : PlaceOf(Rows[r].ip) = c}
        failing == IF Geo!Usable THEN Damaged ELSE {}
    IN /\ (Is("ipgeo") \/ Is("topips")) =>
            \A n \in DOMAIN answer[1] :
                answer[1][n].place = PlaceOf(answer[1][n].ip)
       /\ Is("country") =>
            /\ \A c \in DOMAIN answer[1] :
                  answer[1][c] \in Count(from(request.before, c)) .. Count(from(table, c))
            /\ \A r \in Within(request.before) : PlaceOf(Rows[r].ip) \in DOMAIN answer[1]
            /\ asked(request.before) \cap failing = {}
       /\ (request.kind = "country" /\ request.status = "failed") =>
            asked(table) \cap failing # {}

\* The cache is a least recently used one (GeoResolver).
CacheIsMostRecent == Geo!CacheIsMostRecent
=============================================================================
