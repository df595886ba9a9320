--------------------------- MODULE DashboardAPIProofs ---------------------------
(***************************************************************************)
(* Proofs about DashboardAPI, for any rows, addresses, periods and limits. *)
(*                                                                         *)
(* The statements of one request see different tables.  What makes the     *)
(* answers right nevertheless is that the table only grows.                *)
(*                                                                         *)
(* The list: a row that is inserted moves the others down, never up.  So a *)
(* row the client has not seen after k pages has k pages of newer rows     *)
(* above it, whatever the table was at each of them (WalkInv).             *)
(*                                                                         *)
(* Risk: what each statement returns lies between what it would have       *)
(* returned when the request came in and what it would return now          *)
(* (ProfileInv, RankingInv), and the score grows with each of its parts    *)
(* (ScoreMonotonic).                                                       *)
(*                                                                         *)
(* Summaries: the same bounds for each statement (SummaryInv); counts by   *)
(* a key add up to the rows they were taken of (SumOfCounts).              *)
(*                                                                         *)
(* Places: the cache is a function of the history of the addresses         *)
(* resolved, its last ones (GeoInv), so a hit returns what the database    *)
(* returns (ResolutionFacts), and with it a whole list (AllResolved).      *)
(*                                                                         *)
(* A sum and the resolving of a list are folds of the library.  A fold is  *)
(* a function on the sets of indices, which is unfolded here by the least  *)
(* number that would contradict it (LeastNumber).                          *)
(***************************************************************************)
EXTENDS DashboardAPI, FiniteSetTheorems, SequenceTheorems, WellFoundedInduction, TLAPS

Requests == [kind : Kinds, since : Int, until : Int, ip : Addresses \cup {"any"},
             before : SUBSET table, status : Statuses]
Walks == [page : Nat, began : SUBSET table, seen : SUBSET table, clean : BOOLEAN]

\* What TypeOK says of the requests; the table is finite.
RequestTyped ==
    /\ now \in Int
    /\ IsFiniteSet(table)
    /\ table \subseteq DOMAIN Rows
    /\ request \in Requests
    /\ answer \in Seq(ToSet(answer))
    /\ walk \in Walks

\* No other row has its time stamp.
UniqueTime(r) == \A q \in table \ {r} : Rows[q].at # Rows[r].at
NewerRows(S, r) == {q \in S : Newer(q, r)}

\* Pages the client has got of the list.
PagesDone == IF Open THEN walk.page - 1 ELSE walk.page

\* While the list is walked: what was there when it began has been seen, or
\* as many pages of newer rows as the client has got are above it.
WalkInv ==
    Walking =>
        /\ request.kind = "events"
        /\ request.status \in {"open", "ok"}
        /\ Len(answer) > 0 => answer[1] \in Nat
        /\ ~Open => Len(answer) > 0
        /\ \A r \in Listed(walk.began) :
              UniqueTime(r) =>
                  \/ r \in walk.seen
                  \/ Cardinality(NewerRows(Listed(table), r)) >= PagesDone * PerPage

\* What one statement found lies between the first table and the last.
Between(low, found, high) == low \subseteq found /\ found \subseteq high

\* The statements of get_ip_profile that have returned.
ProfileInv ==
    request.kind = "profile" =>
        LET old == Of(request.before, request.ip)
            all == Of(table, request.ip)
        IN /\ Len(answer) >= 1 => answer[1] \in Cardinality(old) .. Cardinality(all)
           /\ Len(answer) >= 2 => Between(TypesOf(old), answer[2], TypesOf(all))
           /\ Len(answer) >= 3 => Between(SeveritiesOf(old), answer[3], SeveritiesOf(all))
           /\ request.status = "ok" => Len(answer) = 3

\* A candidate of get_ip_aggregates_for_ranking, and its statements that have
\* returned.
CandidateInv(n) ==
    LET ip == answer[1][n].ip
        old == Of(request.before, ip)
        all == Of(table, ip)
    IN /\ answer[1][n].total
              \in Cardinality(Of(Within(request.before), ip)) .. Cardinality(Of(InPeriod, ip))
       /\ 2 * n <= Len(answer) => Between(TypesOf(old), answer[2 * n], TypesOf(all))
       /\ 2 * n + 1 <= Len(answer)
              => Between(SeveritiesOf(old), answer[2 * n + 1], SeveritiesOf(all))

RankingInv ==
    request.kind = "ranking" =>
        /\ Len(answer) > 0 =>
              /\ answer[1] \in Seq([ip : IPs, total : Nat])
              /\ \A n \in 1 .. Len(answer[1]) : CandidateInv(n)
        /\ request.status = "ok" =>
              Len(answer) > 0 /\ Len(answer) = 2 * Len(answer[1]) + 1

-----------------------------------------------------------------------------
(* What the invariant says of the resolver, the summaries and the sizes.   *)

\* What the cache has room for.
Entries == [ip : Geo!Public, place : Nat]
EntryOf(ip) == [ip |-> ip, place |-> Place[ip]]
Bound == IF CacheSize > 0 THEN CacheSize ELSE 0
Kept(R) == IF Len(R) > Bound THEN Bound ELSE Len(R)

\* The cache after the addresses of R were used, the last one last.
CacheOf(R) == [n \in 1 .. Kept(R) |-> EntryOf(R[Len(R) - Kept(R) + n])]

\* No address is in the history twice, and none that cannot be decoded.
History(R) ==
    /\ R \in Seq(Geo!Public \ Damaged)
    /\ \A m, n \in 1 .. Len(R) : R[m] = R[n] => m = n

\* The cache is what the history leaves of it.
GeoInv ==
    /\ reader \in BOOLEAN
    /\ History(recent)
    /\ cache = CacheOf(recent)

\* The events of a protocol, and the addresses of events.
Half(S, p) == {r \in S : Rows[r].protocol = p}
Sources(S) == {Rows[r].ip : r \in S}

\* The statements of get_summary that have returned.  The protocols are
\* counted last, the one after the other.
SummaryInv ==
    request.kind = "summary" =>
        LET before == Within(request.before)
        IN /\ Len(answer) >= 1 => answer[1] \in Count(before) .. Count(InPeriod)
           /\ Len(answer) >= 2 => answer[2] \in Count(Sources(before)) .. Count(Sources(InPeriod))
           /\ Len(answer) = 3 =>
                 /\ answer[3] \in 0 .. Count(Half(InPeriod, "ssh"))
                 /\ answer[1] <= answer[3] + Count(Half(InPeriod, "http"))
                 /\ answer[2] <= answer[3] + Count(Half(InPeriod, "http"))
           /\ Len(answer) >= 4 =>
                 /\ answer[3] \in Nat /\ answer[4] \in Nat
                 /\ answer[1] <= answer[3] + answer[4]
                 /\ answer[2] <= answer[3] + answer[4]
                 /\ answer[3] + answer[4] <= Count(InPeriod)
           /\ request.status = "ok" => Len(answer) = 4

\* Where one statement splits the rows of the period, nothing is lost.
SplitInv ==
    /\ Is("timeline") =>
          /\ SumFunction([b \in DOMAIN answer[1] |-> answer[1][b].total])
                 \in Count(Within(request.before)) .. Count(InPeriod)
          /\ \A b \in DOMAIN answer[1] :
                answer[1][b].total = answer[1][b].ssh + answer[1][b].http
    /\ (Is("types") \/ Is("severity")) =>
          SumFunction(answer[1])
              \in Count(Classified(Within(request.before))) .. Count(Classified(InPeriod))

\* How long an answer gets: RankDetails goes on until every candidate has its
\* two statements.
RankingSize ==
    /\ Len(answer) <= 2 * Candidates + 1
    /\ Len(answer) > 0 =>
          /\ Len(answer[1]) \in Nat /\ Len(answer[1]) <= Candidates
          /\ Open => Len(answer) <= 2 * Len(answer[1])

\* The client's page is one of those there are, or the first.
PageBounded ==
    /\ walk.page <= Cardinality(table) + 1
    /\ (Walking /\ Len(answer) > 0) =>
          answer[1] \in Nat /\ answer[1] <= Cardinality(table)

SizeInv ==
    /\ now \in Day + 1 .. MaxTime
    /\ request.until \in 0 .. MaxTime
    /\ up \in BOOLEAN
    /\ request.kind # "ranking" => Len(answer) <= 4
    /\ request.kind = "ranking" => RankingSize
    /\ PageBounded

IInv ==
    /\ RequestTyped
    /\ WalkInv
    /\ WalkShowsAll
    /\ ProfileInv
    /\ RankingInv
    /\ SummaryInv
    /\ SplitInv
    /\ GeoInv
    /\ PlacesTrue
    /\ SizeInv

-----------------------------------------------------------------------------
(* The steps, by what they do to a request.                                *)

\* A SELECT of a request of one of these kinds returned or failed.
Selects(kinds) ==
    /\ Open
    /\ request.kind \in kinds
    /\ \E s \in Statuses : request' = [request EXCEPT !.status = s]
    /\ answer' = answer \/ \E x : answer' = Append(answer, x)
    /\ UNCHANGED table

Lists == {"events"}
Risks == {"profile", "ranking"}
OtherKinds == Kinds \ (Lists \cup Risks)

OtherSelect ==
    \/ Summary \/ Timeline \/ AttackTypes \/ SeveritySummary
    \/ IpGeo \/ GeoTopIPs \/ CountrySummary
RiskSelect == RankCandidates \/ RankDetails \/ Profile
ListSelect == CountEvents \/ PageOfEvents

\* Another request comes in, or the client or the process is done with it.
Reopens ==
    /\ UNCHANGED table
    /\ answer' = <<>>
    /\ request' \in Requests

LEMMA ResultSelects ==
    ASSUME NEW found, NEW last, NEW kinds, Open, request.kind \in kinds,
           Result(found, last)
    PROVE  Selects(kinds) /\ walk' = walk
<1>1. (IF last THEN "ok" ELSE "open") \in Statuses
  BY DEF Statuses
<1> QED
  BY <1>1 DEF Result, Answered, Selects

LEMMA ResolvedSelects ==
    ASSUME NEW s, NEW found, NEW kinds, Open, request.kind \in kinds, Resolved(s, found)
    PROVE  Selects(kinds) /\ walk' = walk
<1> DEFINE raises == Geo!ResolveAll(s).raises
<1>1. (IF raises THEN "failed" ELSE "ok") \in Statuses
  BY DEF Statuses
<1>2. /\ request' = [request EXCEPT !.status = IF raises THEN "failed" ELSE "ok"]
      /\ answer' = IF raises THEN answer ELSE Append(answer, found)
      /\ UNCHANGED <<table, walk>>
  BY DEF Resolved, Answered
<1> HIDE DEF raises
<1> QED
  BY <1>1, <1>2 DEF Selects

LEMMA OtherSelects ==
    ASSUME OtherSelect
    PROVE  Selects(OtherKinds) /\ walk' = walk
<1>1. {"summary", "timeline", "types", "severity", "ipgeo", "topips", "country"} \subseteq OtherKinds
  BY DEF OtherKinds, Kinds, PeriodKinds, Lists, Risks
<1>2. CASE Summary
  BY <1>1, <1>2, ResultSelects DEF Summary, Pending
<1>3. CASE Timeline
  <2>1. Open /\ request.kind \in OtherKinds
    BY <1>1, <1>3 DEF Timeline, Pending
  <2>2. CASE Answered("failed") /\ UNCHANGED <<table, answer, walk>>
    BY <2>1, <2>2 DEF Selects, Answered, Statuses
  <2>3. CASE \E found : Result(found, TRUE)
    BY <2>1, <2>3, ResultSelects
  <2>4. ASSUME NEW months, NEW interval,
               IF Unit(months, interval) = "quarter_hour"
               THEN /\ Answered("failed")
                    /\ UNCHANGED <<now, table, answer, walk, up, geoVars>>
               ELSE \E found : Result(found, TRUE)
        PROVE  Selects(OtherKinds) /\ walk' = walk
    BY <2>2, <2>3, <2>4
  <2> QED
    BY <1>3, <2>4 DEF Timeline
<1>4. CASE AttackTypes \/ SeveritySummary
  BY <1>1, <1>4, ResultSelects DEF AttackTypes, SeveritySummary, Pending
<1>5. CASE IpGeo
  BY <1>1, <1>5, ResolvedSelects DEF IpGeo, Pending
<1>6. CASE GeoTopIPs
  BY <1>1, <1>6, ResolvedSelects DEF GeoTopIPs, Pending
<1>7. CASE CountrySummary
  BY <1>1, <1>7, ResolvedSelects DEF CountrySummary, Pending
<1> QED
  BY <1>2, <1>3, <1>4, <1>5, <1>6, <1>7 DEF OtherSelect

LEMMA RiskSelects ==
    ASSUME RiskSelect
    PROVE  Selects(Risks) /\ walk' = walk
<1>1. CASE RankCandidates
  BY <1>1, ResultSelects DEF RankCandidates, Pending, Risks
<1>2. CASE RankDetails
  BY <1>2, ResultSelects DEF RankDetails, Risks
<1>3. CASE Profile
  <2>1. Open /\ request.kind \in Risks
    BY <1>3 DEF Profile, Pending, Risks
  <2>2. CASE Answered("refused") /\ UNCHANGED <<table, answer, walk>>
    BY <2>1, <2>2 DEF Selects, Answered, Statuses
  <2>3. CASE \E found, last : Result(found, last)
    BY <2>1, <2>3, ResultSelects
  <2> QED
    BY <1>3, <2>2, <2>3 DEF Profile
<1> QED
  BY <1>1, <1>2, <1>3 DEF RiskSelect

LEMMA ListSelects ==
    ASSUME ListSelect
    PROVE  Selects(Lists)
<1>1. CASE CountEvents
  BY <1>1, ResultSelects DEF CountEvents, Pending, Lists
<1>2. CASE PageOfEvents
  BY <1>2 DEF PageOfEvents, Pending, ShowPage, Answered, Selects, Lists, Statuses
<1> QED
  BY <1>1, <1>2 DEF ListSelect

\* A request is opened with the table as it is.
LEMMA OpenedReopens ==
    ASSUME RequestTyped, NEW kind \in Kinds, NEW since \in Int, NEW until \in Int,
           NEW ip \in Addresses \cup {"any"}, NEW status \in Statuses,
           Opened(kind, since, until, ip, status)
    PROVE  Reopens /\ request'.kind = kind
BY DEF Opened, Reopens, Requests

Begins ==
    \/ \E kind \in PeriodKinds, period \in {"day", "all"} : Begin(kind, period, "any")
    \/ \E ip \in IPs : Begin("profile", "all", ip)
    \/ \E ip \in Addresses : Begin("ipgeo", "all", ip)
    \/ \E start \in {0, now}, end \in {now - 1, MaxTime} : BeginCountry(start, end)

LEMMA SinceTyped ==
    ASSUME RequestTyped, NEW period PROVE Since(period) \in Int
<1>1. Day \in Int /\ now \in Int
  BY ApiAssumption DEF RequestTyped
<1> QED
  BY <1>1 DEF Since

LEMMA BeginReopens ==
    ASSUME RequestTyped, Begins
    PROVE  Reopens /\ walk' = walk /\ ~Walking
<1>1. ASSUME NEW kind \in Kinds, NEW period, NEW ip \in Addresses \cup {"any"},
             Begin(kind, period, ip)
      PROVE  Reopens /\ walk' = walk /\ ~Walking
  <2>1. Since(period) \in Int /\ now \in Int /\ "open" \in Statuses
    BY SinceTyped DEF RequestTyped, Statuses
  <2> QED
    BY <1>1, <2>1, OpenedReopens DEF Begin
<1>2. ASSUME NEW start \in Int, NEW end \in Int, BeginCountry(start, end)
      PROVE  Reopens /\ walk' = walk /\ ~Walking
  <2>1. (IF start > end THEN "refused" ELSE "open") \in Statuses /\ "country" \in Kinds
    BY DEF Statuses, Kinds
  <2> QED
    BY <1>2, <2>1, OpenedReopens DEF BeginCountry
<1>3. /\ PeriodKinds \subseteq Kinds /\ "profile" \in Kinds /\ "ipgeo" \in Kinds
      /\ IPs \subseteq Addresses
  BY ApiAssumption DEF Kinds
<1>4. now \in Int /\ MaxTime \in Int
  BY ApiAssumption DEF RequestTyped
<1> QED
  BY <1>1, <1>2, <1>3, <1>4 DEF Begins

LEMMA AskReopens ==
    ASSUME RequestTyped, NEW ip \in IPs \cup {"any"}, AskPage(ip)
    PROVE  Reopens /\ walk' \in Walks /\ request'.kind = "events"
<1>1. /\ ip \in Addresses \cup {"any"} /\ "events" \in Kinds /\ "open" \in Statuses
      /\ now \in Int
  BY ApiAssumption DEF Kinds, Statuses, RequestTyped
<1>2. Opened("events", 0, now, ip, "open")
  BY DEF AskPage
<1>3. Reopens /\ request'.kind = "events"
  <2>1. 0 \in Int
    OBVIOUS
  <2> QED
    BY ONLY RequestTyped, <1>1, <1>2, <2>1, OpenedReopens
<1>4. walk' \in Walks
  <2>1. walk \in Walks
    BY DEF RequestTyped
  <2>2. walk' = IF Walking THEN [walk EXCEPT !.page = @ + 1]
                ELSE [NoWalk EXCEPT !.page = 1, !.began = table]
    BY DEF AskPage
  <2>3. CASE Walking
    BY <2>1, <2>2, <2>3 DEF Walks
  <2>4. CASE ~Walking
    <3>1. walk' = [page |-> 1, began |-> table, seen |-> {}, clean |-> TRUE]
      BY <2>2, <2>4 DEF NoWalk
    <3> QED
      BY <3>1 DEF Walks
  <2> QED
    BY <2>3, <2>4
<1> QED
  BY <1>3, <1>4

LEMMA EndReopens ==
    ASSUME RequestTyped, Leave \/ ShutDown
    PROVE  Reopens /\ walk' = NoWalk /\ request'.kind = "none"
<1>1. Closed \in Requests /\ Closed.kind = "none"
  <2>1. "none" \in Kinds /\ "none" \in Statuses
    BY DEF Kinds, Statuses
  <2> QED
    BY <2>1 DEF Closed, Requests
<1> QED
  BY <1>1 DEF Leave, ShutDown, Reopens

\* The disjuncts of Next by these kinds.
LEMMA StepCases ==
    ASSUME [Next]_vars
    PROVE  \/ /\ UNCHANGED <<table, request, answer, walk>>
              /\ now' = now \/ (now < MaxTime /\ now' = now + 1)
           \/ now' = now /\ \/ \E r \in DOMAIN Rows : Insert(r)
                            \/ Begins
                            \/ \E ip \in IPs \cup {"any"} : AskPage(ip)
                            \/ Leave \/ ShutDown
                            \/ OtherSelect \/ RiskSelect \/ ListSelect
<1>1. CASE Tick \/ UNCHANGED vars
  BY <1>1 DEF Tick, vars
<1>2. CASE \/ \E r \in DOMAIN Rows : Insert(r)
           \/ Begins
           \/ \E ip \in IPs \cup {"any"} : AskPage(ip)
           \/ Leave \/ ShutDown
  BY <1>2 DEF Insert, Begins, Begin, BeginCountry, AskPage, Opened, Leave, ShutDown
<1>3. CASE OtherSelect
  BY <1>3 DEF OtherSelect, Summary, Timeline, AttackTypes, SeveritySummary, IpGeo,
              GeoTopIPs, CountrySummary, Result, Resolved
<1>4. CASE RiskSelect
  BY <1>4 DEF RiskSelect, RankCandidates, RankDetails, Profile, Result
<1>5. CASE ListSelect
  BY <1>5 DEF ListSelect, CountEvents, PageOfEvents, ShowPage, Result
<1> QED
  BY <1>1, <1>2, <1>3, <1>4, <1>5 DEF Next, Begins, OtherSelect, RiskSelect, ListSelect

-----------------------------------------------------------------------------
(* The types.                                                              *)

\* One more result, whatever it is.
LEMMA AppendFacts ==
    ASSUME NEW s, s \in Seq(ToSet(s)), NEW x
    PROVE  /\ Append(s, x) \in Seq(ToSet(Append(s, x)))
           /\ Len(Append(s, x)) = Len(s) + 1
           /\ Append(s, x)[Len(s) + 1] = x
           /\ \A n \in 1 .. Len(s) : Append(s, x)[n] = s[n]
           /\ Len(s) \in Nat
<1> DEFINE S == ToSet(s) \cup {x}
<1>1. Len(s) \in Nat /\ DOMAIN s = 1 .. Len(s) /\ s \in Seq(S)
  <2>1. Len(s) \in Nat /\ DOMAIN s = 1 .. Len(s)
    OBVIOUS
  <2>2. s \in [1 .. Len(s) -> S]
    OBVIOUS
  <2> QED
    BY <2>1, <2>2, SeqDef
<1> HIDE DEF S
<1>2. /\ Len(Append(s, x)) = Len(s) + 1
      /\ Append(s, x)[Len(s) + 1] = x
      /\ \A n \in 1 .. Len(s) : Append(s, x)[n] = s[n]
      /\ DOMAIN Append(s, x) = 1 .. Len(s) + 1
  BY <1>1 DEF S
<1> DEFINE t == Append(s, x)
           T == ToSet(t)
<1>3. t \in Seq(T)
  <2>1. t \in Seq(S)
    BY <1>1 DEF S
  <2> HIDE DEF t
  <2>2. t \in [1 .. Len(t) -> S] /\ Len(t) \in Nat
    BY <2>1, LenProperties
  <2>3. \A n \in 1 .. Len(t) : t[n] \in T
    BY <2>2 DEF ToSet
  <2> HIDE DEF T
  <2>4. t \in [1 .. Len(t) -> T]
    BY <2>2, <2>3
  <2> QED
    BY <2>2, <2>4, SeqDef
<1> QED
  BY <1>1, <1>2, <1>3

LEMMA SelectsTyped ==
    ASSUME RequestTyped, NEW kinds, Selects(kinds)
    PROVE  /\ request' \in Requests
           /\ request.kind \in kinds /\ request'.kind = request.kind
           /\ request'.since = request.since /\ request'.until = request.until
           /\ request'.ip = request.ip /\ request'.before = request.before
           /\ answer' \in Seq(ToSet(answer'))
<1>1. PICK s \in Statuses : request' = [request EXCEPT !.status = s]
  BY DEF Selects
<1>2. answer' \in Seq(ToSet(answer'))
  <2>1. answer \in Seq(ToSet(answer))
    BY DEF RequestTyped
  <2>2. CASE answer' = answer
    BY <2>1, <2>2
  <2>3. ASSUME NEW x, answer' = Append(answer, x) PROVE answer' \in Seq(ToSet(answer'))
    BY <2>1, <2>3, AppendFacts
  <2> QED
    BY <2>2, <2>3 DEF Selects
<1> QED
  BY <1>1, <1>2 DEF Selects, RequestTyped, Requests

\* A row that is added.
LEMMA InsertFacts ==
    ASSUME RequestTyped, NEW r \in DOMAIN Rows, Insert(r)
    PROVE  /\ table' = table \cup {r}
           /\ UNCHANGED <<request, answer, walk>>
           /\ RequestTyped'
<1>1. /\ table' = table \cup {r}
      /\ UNCHANGED <<now, request, answer, walk>>
  BY DEF Insert
<1>2. IsFiniteSet(table') /\ table' \subseteq DOMAIN Rows
  BY <1>1, FS_AddElement DEF RequestTyped
<1>3. request \in Requests' /\ walk \in Walks'
  BY <1>1 DEF RequestTyped, Requests, Walks
<1> QED
  BY <1>1, <1>2, <1>3 DEF RequestTyped

LEMMA ReopensTyped ==
    ASSUME RequestTyped, Reopens, walk' \in Walks, now' = now
    PROVE  RequestTyped'
<1>1. <<>> \in Seq(ToSet(<<>>))
  BY EmptySeq
<1> QED
  BY <1>1 DEF Reopens, RequestTyped, Requests, Walks

\* The page that is shown.
LEMMA PageFacts ==
    ASSUME RequestTyped, PageOfEvents
    PROVE  \E X \in Slices(Listed(table), (walk.page - 1) * PerPage, PerPage) :
               /\ X \subseteq Listed(table)
               /\ answer' = Append(answer, X)
               /\ request' = [request EXCEPT !.status = "ok"]
               /\ walk' \in Walks
               /\ walk'.page = walk.page
               /\ walk'.began = walk.began
               /\ walk'.seen = walk.seen \cup X
               /\ walk'.clean => Cardinality(Listed(table)) = answer[1]
<1>1. PICK X \in Slices(Listed(table), (walk.page - 1) * PerPage, PerPage) : ShowPage(X)
  BY DEF PageOfEvents
<1>2. X \subseteq Listed(table) /\ Listed(table) \subseteq table
  BY DEF Slices, Listed, Of
<1> DEFINE same == Count(Listed(table)) = answer[1]
<1>3. walk' = [walk EXCEPT !.seen = @ \cup X, !.clean = same]
  BY <1>1 DEF ShowPage
<1>4. same \in BOOLEAN /\ (same => Cardinality(Listed(table)) = answer[1])
  BY DEF Count
<1>5. walk \in Walks
  BY DEF RequestTyped
<1> HIDE DEF same
<1>6. /\ walk' \in Walks
      /\ walk'.page = walk.page
      /\ walk'.began = walk.began
      /\ walk'.seen = walk.seen \cup X
      /\ walk'.clean = same
  BY <1>2, <1>3, <1>4, <1>5 DEF Walks
<1> QED
  BY <1>1, <1>2, <1>4, <1>6 DEF ShowPage, Answered

LEMMA TypedStep == RequestTyped /\ [Next]_vars => RequestTyped'
<1> SUFFICES ASSUME RequestTyped, [Next]_vars PROVE RequestTyped'
  OBVIOUS
<1>1. CASE UNCHANGED <<table, request, answer, walk>> /\ (now' = now \/ now' = now + 1)
  BY <1>1 DEF RequestTyped, Requests, Walks
<1>2. CASE \E r \in DOMAIN Rows : Insert(r)
  BY <1>2, InsertFacts
<1>3. CASE now' = now /\ Begins
  BY <1>3, BeginReopens, ReopensTyped DEF RequestTyped
<1>4. CASE now' = now /\ \E ip \in IPs \cup {"any"} : AskPage(ip)
  BY <1>4, AskReopens, ReopensTyped
<1>5. CASE now' = now /\ (Leave \/ ShutDown)
  <2>1. NoWalk \in Walks
    BY DEF NoWalk, Walks
  <2> QED
    BY <1>5, <2>1, EndReopens, ReopensTyped
<1>6. ASSUME NEW kinds, now' = now, Selects(kinds), walk' \in Walks PROVE RequestTyped'
  <2>1. request' \in Requests /\ answer' \in Seq(ToSet(answer')) /\ table' = table
    BY <1>6, SelectsTyped DEF Selects
  <2> QED
    BY <1>6, <2>1 DEF RequestTyped, Requests, Walks
<1>7. CASE now' = now /\ (OtherSelect \/ RiskSelect)
  BY <1>6, <1>7, OtherSelects, RiskSelects DEF RequestTyped
<1>8. CASE now' = now /\ ListSelect
  <2>1. walk' \in Walks
    <3>1. CASE CountEvents
      BY <3>1 DEF CountEvents, Result, RequestTyped
    <3>2. CASE PageOfEvents
      BY <3>2, PageFacts
    <3> QED
      BY <1>8, <3>1, <3>2 DEF ListSelect
  <2> QED
    BY <1>6, <1>8, <2>1, ListSelects
<1> QED
  BY <1>1, <1>2, <1>3, <1>4, <1>5, <1>7, <1>8, StepCases

LEMMA TypedInit == Init => RequestTyped
<1> SUFFICES ASSUME Init PROVE RequestTyped
  OBVIOUS
<1>1. now \in Int
  BY ApiAssumption DEF Init
<1>2. IsFiniteSet({}) /\ <<>> \in Seq(ToSet(<<>>))
  BY FS_EmptySet, EmptySeq
<1>3. "none" \in Kinds /\ "none" \in Statuses
  BY DEF Kinds, Statuses
<1>4. Closed \in Requests /\ NoWalk \in Walks
  BY <1>3 DEF Closed, Requests, NoWalk, Walks
<1> QED
  BY <1>1, <1>2, <1>4 DEF Init, RequestTyped

-----------------------------------------------------------------------------
(* The event list.                                                         *)

LEMMA LeastOfTwo ==
    ASSUME NEW a \in Nat, NEW b \in Nat
    PROVE  Min({a, b}) = IF a <= b THEN a ELSE b
<1>1. \E x \in {a, b} : \A y \in {a, b} : x <= y
  OBVIOUS
<1>2. /\ Min({a, b}) \in {a, b}
      /\ \A y \in {a, b} : Min({a, b}) <= y
  BY <1>1 DEF Min
<1> QED
  BY <1>2

\* One page, wherever ties are broken: a row that has enough newer rows above it
\* to be on this page or further down is on it, or has a page more above it.
LEMMA SliceCovers ==
    ASSUME NEW S \in SUBSET DOMAIN Rows, IsFiniteSet(S),
           NEW offset \in Nat, NEW limit \in Nat, NEW X \in Slices(S, offset, limit),
           NEW r \in S, \A q \in S \ {r} : Rows[q].at # Rows[r].at,
           Cardinality(NewerRows(S, r)) >= offset
    PROVE  r \in X \/ Cardinality(NewerRows(S, r)) >= offset + limit
<1> DEFINE N == NewerRows(S, r)
<1>1. \A q \in S : Rows[q].at \in Int
  BY ApiAssumption
<1>2. PICK before \in SUBSET (S \ X) :
          /\ Cardinality(before) = Min({offset, Cardinality(S)})
          /\ Cardinality(X) = Min({limit, Cardinality(S) - Cardinality(before)})
          /\ \A x \in X, b \in before : ~Newer(x, b)
          /\ \A y \in S \ (X \cup before), x \in X \cup before : ~Newer(y, x)
  BY DEF Slices
<1>3. X \subseteq S
  BY DEF Slices
<1>4. N \subseteq S \ {r}
  BY <1>1 DEF NewerRows, Newer
<1>5. /\ IsFiniteSet(N) /\ IsFiniteSet(before) /\ IsFiniteSet(X)
      /\ Cardinality(S) \in Nat /\ Cardinality(N) \in Nat
      /\ Cardinality(before) \in Nat /\ Cardinality(X) \in Nat
  BY <1>2, <1>3, <1>4, FS_Subset, FS_CardinalityType
<1>6. IsFiniteSet(S \ {r}) /\ Cardinality(S \ {r}) = Cardinality(S) - 1
  BY FS_RemoveElement
<1>7. Cardinality(N) <= Cardinality(S) - 1
  BY <1>4, <1>6, FS_Subset
<1> HIDE DEF N
<1>8. Cardinality(before) = offset
  <2>1. offset <= Cardinality(S)
    BY <1>5, <1>7 DEF N
  <2> QED
    BY <1>2, <1>5, <2>1, LeastOfTwo
<1>9. r \notin before
  <2> SUFFICES ASSUME r \in before PROVE FALSE
    OBVIOUS
  <2>1. N \subseteq before \ {r}
    BY <1>1, <1>2, <1>4 DEF N, NewerRows
  <2>2. IsFiniteSet(before \ {r}) /\ Cardinality(before \ {r}) = Cardinality(before) - 1
    BY <1>5, FS_RemoveElement
  <2>3. Cardinality(N) <= Cardinality(before) - 1
    BY <2>1, <2>2, FS_Subset
  <2> QED
    BY <1>5, <1>8, <2>3 DEF N
<1>10. ASSUME r \notin X PROVE Cardinality(N) >= offset + limit
  <2>1. X \cup before \subseteq N
    <3>1. ASSUME NEW x \in X \cup before PROVE Newer(x, r)
      <4>1. x \in S \ {r} /\ ~Newer(r, x)
        BY <1>2, <1>3, <1>9, <1>10
      <4>2. Rows[x].at # Rows[r].at /\ Rows[x].at \in Int /\ Rows[r].at \in Int
        BY <1>1, <4>1
      <4> QED
        BY <4>1, <4>2 DEF Newer
    <3> QED
      BY <1>2, <1>3, <3>1 DEF N, NewerRows
  <2>2. /\ IsFiniteSet(X \cup before)
        /\ Cardinality(X \cup before) = Cardinality(X) + Cardinality(before)
    <3>1. X \cap before = {}
      BY <1>2
    <3>2. Cardinality(X \cap before) = 0
      BY <3>1, FS_EmptySet
    <3>3. /\ IsFiniteSet(X \cup before)
          /\ Cardinality(X \cup before)
                = Cardinality(X) + Cardinality(before) - Cardinality(X \cap before)
      BY <1>5, FS_Union
    <3> QED
      BY <1>5, <3>2, <3>3
  <2>3. Cardinality(X) + Cardinality(before) <= Cardinality(N)
    BY <1>5, <2>1, <2>2, FS_Subset
  <2>4. Cardinality(X) = limit
    <3>1. Cardinality(S) - Cardinality(before) \in Nat
      BY <1>5, <1>7, <1>8 DEF N
    <3>2. Cardinality(X) = IF limit <= Cardinality(S) - Cardinality(before) THEN limit
                           ELSE Cardinality(S) - Cardinality(before)
      BY <1>2, <3>1, LeastOfTwo
    <3> QED
      BY <1>5, <1>7, <2>3, <3>1, <3>2
  <2> QED
    BY <1>5, <1>8, <2>3, <2>4
<1> QED
  BY <1>10 DEF N

\* total pages of a list of n rows.
LEMMA PagesCover ==
    ASSUME NEW n \in Nat, NEW p \in Nat \ {0}, NEW k \in Nat,
           k >= (n + p - 1) \div p
    PROVE  n <= k * p
<1> DEFINE q == (n + p - 1) \div p
<1>1. q \in Int /\ n + p - 1 < (q + 1) * p
  OBVIOUS
<1> HIDE DEF q
<1>2. (q + 1) * p = q * p + p
  BY <1>1
<1>3. q * p <= k * p
  BY <1>1 DEF q
<1> QED
  BY <1>1, <1>2, <1>3

\* A row that is inserted takes no other row's place: what is above it stays.
LEMMA WalkInsert ==
    ASSUME RequestTyped, WalkInv, WalkShowsAll, NEW i \in DOMAIN Rows, Insert(i)
    PROVE  WalkInv' /\ WalkShowsAll'
<1>1. table \subseteq table' /\ UNCHANGED <<request, answer, walk>> /\ RequestTyped'
  BY InsertFacts
<1>2. /\ Walking' = Walking /\ Open' = Open /\ PagesDone' = PagesDone /\ Pages' = Pages
      /\ Listed(walk.began)' = Listed(walk.began)
  BY <1>1 DEF Walking, Open, PagesDone, Pages, Listed, Of
<1>3. \A r : UniqueTime(r)' => UniqueTime(r)
  BY <1>1 DEF UniqueTime
<1>4. ASSUME NEW r
      PROVE  /\ Cardinality(NewerRows(Listed(table), r)) \in Nat
             /\ Cardinality(NewerRows(Listed(table), r))
                    <= Cardinality(NewerRows(Listed(table), r)')
             /\ Cardinality(NewerRows(Listed(table), r)') \in Nat
  <2> DEFINE old == NewerRows(Listed(table), r)
             new == NewerRows(Listed(table), r)'
  <2>1. old \subseteq new /\ new \subseteq table'
    BY <1>1 DEF NewerRows, Newer, Listed, Of
  <2>2. IsFiniteSet(table')
    BY <1>1 DEF RequestTyped
  <2> HIDE DEF old, new
  <2>3. IsFiniteSet(new) /\ IsFiniteSet(old) /\ Cardinality(old) <= Cardinality(new)
    BY <2>1, <2>2, FS_Subset
  <2>4. Cardinality(new) \in Nat /\ Cardinality(old) \in Nat
    BY <2>3, FS_CardinalityType
  <2> QED
    BY <2>3, <2>4 DEF old, new
<1>5. ASSUME Walking PROVE PagesDone * PerPage \in Int
  <2>1. PagesDone \in Int /\ PerPage \in Int
    BY ApiAssumption DEF RequestTyped, Walks, PagesDone
  <2> QED
    BY <2>1
<1>6. WalkInv'
  BY <1>1, <1>2, <1>3, <1>4, <1>5 DEF WalkInv
<1>7. WalkShowsAll'
  BY <1>1, <1>2, <1>3 DEF WalkShowsAll, UniqueTime
<1> QED
  BY <1>6, <1>7

\* What the page that is shown adds to what has been seen.
LEMMA WalkPage ==
    ASSUME RequestTyped, WalkInv, Walking, PageOfEvents
    PROVE  WalkInv' /\ WalkShowsAll'
<1>1. PICK X \in Slices(Listed(table), (walk.page - 1) * PerPage, PerPage) :
          /\ X \subseteq Listed(table)
          /\ answer' = Append(answer, X)
          /\ request' = [request EXCEPT !.status = "ok"]
          /\ walk' \in Walks
          /\ walk'.page = walk.page
          /\ walk'.began = walk.began
          /\ walk'.seen = walk.seen \cup X
          /\ walk'.clean => Cardinality(Listed(table)) = answer[1]
  BY PageFacts
<1>2. Open /\ request.kind = "events" /\ Len(answer) = 1 /\ table' = table
  BY DEF PageOfEvents, Pending, ShowPage
<1>3. /\ request'.kind = "events" /\ request'.ip = request.ip /\ request'.status = "ok"
      /\ ~Open'
  BY <1>1, <1>2 DEF RequestTyped, Requests, Open
<1>4. Len(answer') = 2 /\ answer'[1] = answer[1] /\ answer[1] \in Nat
  <2>1. answer \in Seq(ToSet(answer))
    BY DEF RequestTyped
  <2>2. /\ Len(Append(answer, X)) = Len(answer) + 1
        /\ \A n \in 1 .. Len(answer) : Append(answer, X)[n] = answer[n]
    BY <2>1, AppendFacts
  <2>3. Len(answer') = Len(answer) + 1 /\ answer'[1] = answer[1]
    BY <1>1, <1>2, <2>2
  <2> QED
    BY <1>2, <2>3 DEF WalkInv
<1>5. Listed(table)' = Listed(table) /\ Listed(walk.began)' = Listed(walk.began)
  BY <1>1, <1>2, <1>3 DEF Listed, Of
<1>6. /\ walk.page \in Nat \ {0} /\ PerPage \in Nat \ {0}
      /\ (walk.page - 1) * PerPage \in Nat
      /\ (walk.page - 1) * PerPage + PerPage = walk.page * PerPage
  <2>1. walk.page \in Nat \ {0} /\ PerPage \in Nat \ {0}
    BY ApiAssumption DEF RequestTyped, Walks, Walking
  <2> QED
    BY <2>1
<1>7. PagesDone = walk.page - 1 /\ PagesDone' = walk.page
  BY <1>1, <1>2, <1>3 DEF PagesDone
<1>8. /\ IsFiniteSet(Listed(table)) /\ Listed(table) \subseteq DOMAIN Rows
      /\ Listed(walk.began) \subseteq Listed(table)
  <2>1. Listed(table) \subseteq table /\ IsFiniteSet(table) /\ table \subseteq DOMAIN Rows
    BY DEF RequestTyped, Listed, Of
  <2>2. walk.began \subseteq table
    BY DEF RequestTyped, Walks
  <2> QED
    BY <2>1, <2>2, FS_Subset DEF Listed, Of
<1>9. \A r : UniqueTime(r)' <=> UniqueTime(r)
  BY <1>2 DEF UniqueTime
<1>10. ASSUME NEW r \in Listed(walk.began), UniqueTime(r)
       PROVE  \/ r \in walk'.seen
              \/ Cardinality(NewerRows(Listed(table), r)) >= walk.page * PerPage
  <2>1. CASE r \in walk.seen
    BY <1>1, <2>1
  <2>2. CASE Cardinality(NewerRows(Listed(table), r)) >= PagesDone * PerPage
    <3>1. \A q \in Listed(table) \ {r} : Rows[q].at # Rows[r].at
      BY <1>10 DEF UniqueTime, Listed, Of
    <3>2. r \in X \/ Cardinality(NewerRows(Listed(table), r))
                         >= (walk.page - 1) * PerPage + PerPage
      BY <1>1, <1>6, <1>7, <1>8, <2>2, <3>1, SliceCovers
    <3> QED
      BY <1>1, <1>6, <3>2
  <2> QED
    BY <1>10, <2>1, <2>2 DEF WalkInv
<1>11. WalkInv'
  <2>1. \A r : NewerRows(Listed(table), r)' = NewerRows(Listed(table), r)
    BY <1>5 DEF NewerRows
  <2> QED
    BY <1>3, <1>4, <1>5, <1>7, <1>9, <1>10, <2>1 DEF WalkInv
<1>12. WalkShowsAll'
  <2> SUFFICES ASSUME walk'.clean, walk'.page >= Pages',
                      NEW r \in Listed(walk.began), UniqueTime(r)
               PROVE  r \in walk'.seen
    BY <1>5, <1>9 DEF WalkShowsAll, UniqueTime
  <2>1. Cardinality(Listed(table)) = answer[1]
    BY <1>1
  <2>2. answer[1] <= walk.page * PerPage
    <3>1. walk.page >= (answer[1] + PerPage - 1) \div PerPage
      BY <1>1, <1>4 DEF Pages
    <3> QED
      BY <1>4, <1>6, <3>1, PagesCover
  <2>3. Cardinality(NewerRows(Listed(table), r)) <= Cardinality(Listed(table)) - 1
    <3>1. r \in Listed(table)
      BY <1>8
    <3>2. NewerRows(Listed(table), r) \subseteq Listed(table) \ {r}
      BY ApiAssumption, <1>8, <3>1 DEF NewerRows, Newer
    <3>3. /\ IsFiniteSet(Listed(table) \ {r})
          /\ Cardinality(Listed(table) \ {r}) = Cardinality(Listed(table)) - 1
      BY <1>8, <3>1, FS_RemoveElement
    <3> QED
      BY <3>2, <3>3, FS_Subset
  <2>4. Cardinality(NewerRows(Listed(table), r)) < walk.page * PerPage
    <3>1. IsFiniteSet(NewerRows(Listed(table), r))
      BY <1>8, FS_Subset DEF NewerRows
    <3>2. Cardinality(NewerRows(Listed(table), r)) \in Nat
      BY <3>1, FS_CardinalityType
    <3> QED
      BY <1>4, <1>6, <2>1, <2>2, <2>3, <3>2
  <2>5. Cardinality(NewerRows(Listed(table), r)) \in Nat
    <3>1. IsFiniteSet(NewerRows(Listed(table), r))
      BY <1>8, FS_Subset DEF NewerRows
    <3> QED
      BY <3>1, FS_CardinalityType
  <2> QED
    BY <1>6, <1>10, <2>4, <2>5
<1> QED
  BY <1>11, <1>12

\* Every step keeps what is known of the walk.
LEMMA WalkStep ==
    ASSUME RequestTyped, WalkInv, WalkShowsAll, [Next]_vars
    PROVE  WalkInv' /\ WalkShowsAll'
<1>1. CASE UNCHANGED <<table, request, answer, walk>>
  BY <1>1 DEF WalkInv, WalkShowsAll, Walking, Open, PagesDone, Pages, Listed, Of,
              UniqueTime, NewerRows
<1>2. CASE \E r \in DOMAIN Rows : Insert(r)
  BY <1>2, WalkInsert
<1>3. ASSUME ~Walking' PROVE WalkInv' /\ WalkShowsAll'
  BY <1>3 DEF WalkInv, WalkShowsAll
<1>4. CASE Begins
  BY <1>3, <1>4, BeginReopens DEF Walking
<1>5. CASE Leave \/ ShutDown
  <2>1. walk'.page = 0
    BY <1>5, EndReopens DEF NoWalk
  <2> QED
    BY <1>3, <2>1 DEF Walking
<1>6. ASSUME NEW ip \in IPs \cup {"any"}, AskPage(ip) PROVE WalkInv' /\ WalkShowsAll'
  <2>1. /\ request'.kind = "events" /\ request'.status = "open" /\ request'.ip = ip
        /\ answer' = <<>> /\ table' = table /\ ~Open
    BY <1>6 DEF AskPage, Opened
  <2>2. Open' /\ WalkShowsAll'
    BY <2>1 DEF Open, WalkShowsAll
  <2>3. PagesDone' = walk'.page - 1
    BY <2>2 DEF PagesDone
  <2>4. Len(answer') = 0
    BY <2>1, EmptySeq
  <2>5. \A r : UniqueTime(r)' <=> UniqueTime(r)
    BY <2>1 DEF UniqueTime
  <2>6. ASSUME NEW r \in Listed(walk.began)', UniqueTime(r)
        PROVE  \/ r \in walk'.seen
               \/ Cardinality(NewerRows(Listed(table), r)') >= PagesDone' * PerPage
    <3>1. CASE Walking
      <4>1. /\ walk'.began = walk.began /\ walk'.seen = walk.seen
            /\ walk'.page = walk.page + 1 /\ ip = request.ip
        BY <1>6, <3>1 DEF AskPage, RequestTyped, Walks
      <4>2. walk.page \in Nat
        BY DEF RequestTyped, Walks
      <4>3. PagesDone' = PagesDone
        BY <2>1, <2>3, <4>1, <4>2 DEF PagesDone
      <4>4. Listed(table)' = Listed(table) /\ Listed(walk.began)' = Listed(walk.began)
        BY <2>1, <4>1 DEF Listed, Of
      <4>5. NewerRows(Listed(table), r)' = NewerRows(Listed(table), r)
        BY <4>4 DEF NewerRows
      <4> QED
        BY <2>6, <3>1, <4>1, <4>3, <4>4, <4>5 DEF WalkInv
    <3>2. CASE ~Walking
      <4>1. walk'.page = 1
        BY <1>6, <3>2 DEF AskPage, NoWalk
      <4>2. PagesDone' * PerPage = 0
        BY <2>3, <4>1, ApiAssumption
      <4>3. IsFiniteSet(NewerRows(Listed(table), r)')
        BY <2>1, FS_Subset DEF NewerRows, Listed, Of, RequestTyped
      <4>4. Cardinality(NewerRows(Listed(table), r)') \in Nat
        BY <4>3, FS_CardinalityType
      <4> QED
        BY <4>2, <4>4
    <3> QED
      BY <3>1, <3>2
  <2>7. WalkInv'
    BY <2>1, <2>2, <2>4, <2>5, <2>6 DEF WalkInv
  <2> QED
    BY <2>2, <2>7
<1>7. ASSUME NEW kinds, Selects(kinds), "events" \notin kinds, walk' = walk
      PROVE  WalkInv' /\ WalkShowsAll'
  <2>1. request.kind # "events"
    BY <1>7 DEF Selects
  <2> QED
    BY <1>3, <1>7, <2>1 DEF WalkInv, Walking
<1>8. CASE OtherSelect \/ RiskSelect
  <2>1. "events" \notin OtherKinds /\ "events" \notin Risks
    BY DEF OtherKinds, Lists, Risks
  <2> QED
    BY <1>7, <1>8, <2>1, OtherSelects, RiskSelects
<1>9. CASE CountEvents
  <2>1. /\ Open /\ request.kind = "events" /\ Len(answer) = 0
        /\ answer' = Append(answer, Cardinality(Listed(table)))
        /\ request' = [request EXCEPT !.status = "open"]
        /\ UNCHANGED <<table, walk>>
    BY <1>9 DEF CountEvents, Pending, Result, Answered, Count
  <2>2. /\ request'.kind = "events" /\ request'.ip = request.ip
        /\ request'.status = "open" /\ Open'
    BY <2>1 DEF RequestTyped, Requests, Open
  <2>3. answer'[1] \in Nat
    <3>1. answer'[Len(answer) + 1] = Cardinality(Listed(table))
      BY <2>1, AppendFacts DEF RequestTyped
    <3>2. IsFiniteSet(Listed(table))
      BY FS_Subset DEF RequestTyped, Listed, Of
    <3> QED
      BY <2>1, <3>1, <3>2, FS_CardinalityType
  <2>4. WalkInv'
    BY <2>1, <2>2, <2>3 DEF WalkInv, Walking, PagesDone, Listed, Of, UniqueTime, NewerRows
  <2> QED
    BY <2>2, <2>4 DEF WalkShowsAll
<1>10. CASE PageOfEvents
  <2>1. CASE Walking
    BY <1>10, <2>1, WalkPage
  <2>2. CASE ~Walking
    <3>1. walk'.page = walk.page
      BY <1>10, PageFacts
    <3> QED
      BY <1>3, <2>2, <3>1 DEF Walking
  <2> QED
    BY <2>1, <2>2
<1> QED
  BY <1>1, <1>2, <1>4, <1>5, <1>6, <1>8, <1>9, <1>10, StepCases DEF ListSelect

-----------------------------------------------------------------------------
(* The risk score.                                                         *)

LEMMA DivMonotonic ==
    ASSUME NEW a \in Nat, NEW b \in Nat, a <= b, NEW d \in Nat \ {0}
    PROVE  a \div d \in Nat /\ b \div d \in Nat /\ a \div d <= b \div d
<1> DEFINE p == a \div d
           q == b \div d
<1>1. /\ p \in Nat /\ q \in Nat
      /\ p * d <= a /\ b < (q + 1) * d
  OBVIOUS
<1> HIDE DEF p, q
<1>2. p * d < (q + 1) * d
  BY <1>1
<1>3. ASSUME p >= q + 1 PROVE FALSE
  <2>1. p * d >= (q + 1) * d
    BY <1>1, <1>3
  <2> QED
    BY <1>1, <1>2, <2>1
<1>4. p <= q
  BY <1>1, <1>3
<1> QED
  BY <1>1, <1>4 DEF p, q

LEMMA SeverityMonotonic ==
    ASSUME NEW S, NEW T, S \subseteq T
    PROVE  /\ SeverityScore(S) \in Nat /\ SeverityScore(T) \in Nat
           /\ SeverityScore(S) <= SeverityScore(T)
<1> DEFINE points(U) == {0} \cup {SeverityPoints[s] : s \in U \cap Severities}
<1>1. ASSUME NEW U
      PROVE  /\ points(U) \subseteq Nat
             /\ Max(points(U)) \in points(U) /\ \A p \in points(U) : Max(points(U)) >= p
  <2>1. points(U) \subseteq {0, 5, 15, 30} /\ 0 \in points(U)
    BY DEF SeverityPoints, Severities
  <2> HIDE DEF points
  <2>2. \E p \in points(U) : \A q \in points(U) : p >= q
    <3>1. CASE 30 \in points(U)
      BY <2>1, <3>1
    <3>2. CASE 30 \notin points(U) /\ 15 \in points(U)
      BY <2>1, <3>2
    <3>3. CASE 30 \notin points(U) /\ 15 \notin points(U) /\ 5 \in points(U)
      BY <2>1, <3>3
    <3>4. CASE 30 \notin points(U) /\ 15 \notin points(U) /\ 5 \notin points(U)
      BY <2>1, <3>4
    <3> QED
      BY <3>1, <3>2, <3>3, <3>4
  <2> QED
    BY <2>1, <2>2 DEF Max
<1>2. points(S) \subseteq points(T)
  OBVIOUS
<1>3. SeverityScore(S) = Max(points(S)) /\ SeverityScore(T) = Max(points(T))
  BY DEF SeverityScore
<1> HIDE DEF points
<1> QED
  BY <1>1, <1>2, <1>3

\* More events, more attack types and more severities never lower the score.
LEMMA ScoreMonotonic ==
    ASSUME NEW m \in Nat, NEW n \in Nat, m <= n,
           NEW A, NEW B, IsFiniteSet(B), A \subseteq B,
           NEW S, NEW T, S \subseteq T
    PROVE  /\ Score(m, A, S) \in Nat /\ Score(n, B, T) \in Nat
           /\ Score(m, A, S) <= Score(n, B, T)
<1> DEFINE x(k) == (k * 40) \div Saturation
           y(U) == 10 * Cardinality(U)
           parts(k, U, V) == Min({40, x(k)}) + Min({30, y(U)}) + SeverityScore(V)
<1>1. x(m) \in Nat /\ x(n) \in Nat /\ x(m) <= x(n)
  <2>1. m * 40 \in Nat /\ n * 40 \in Nat /\ m * 40 <= n * 40 /\ Saturation \in Nat \ {0}
    BY ApiAssumption
  <2> QED
    BY <2>1, DivMonotonic
<1>2. y(A) \in Nat /\ y(B) \in Nat /\ y(A) <= y(B)
  <2>1. IsFiniteSet(A) /\ Cardinality(A) <= Cardinality(B)
    BY FS_Subset
  <2>2. Cardinality(A) \in Nat /\ Cardinality(B) \in Nat
    BY <2>1, FS_CardinalityType
  <2> QED
    BY <2>1, <2>2
<1>3. /\ SeverityScore(S) \in Nat /\ SeverityScore(T) \in Nat
      /\ SeverityScore(S) <= SeverityScore(T)
  BY SeverityMonotonic
<1> HIDE DEF x, y
<1>4. /\ Min({40, x(m)}) \in Nat /\ Min({40, x(n)}) \in Nat
      /\ Min({40, x(m)}) <= Min({40, x(n)})
  BY <1>1, LeastOfTwo
<1>5. /\ Min({30, y(A)}) \in Nat /\ Min({30, y(B)}) \in Nat
      /\ Min({30, y(A)}) <= Min({30, y(B)})
  BY <1>2, LeastOfTwo
<1>6. /\ parts(m, A, S) \in Nat /\ parts(n, B, T) \in Nat
      /\ parts(m, A, S) <= parts(n, B, T)
  BY <1>3, <1>4, <1>5
<1>7. Score(m, A, S) = Min({100, parts(m, A, S)}) /\ Score(n, B, T) = Min({100, parts(n, B, T)})
  BY DEF Score, x, y
<1> HIDE DEF parts
<1> QED
  BY <1>6, <1>7, LeastOfTwo

\* What the statements return of a table that has grown.
LEMMA FoundMonotonic ==
    ASSUME NEW S, NEW T, S \subseteq T, IsFiniteSet(T)
    PROVE  /\ IsFiniteSet(S) /\ Cardinality(S) \in Nat /\ Cardinality(T) \in Nat
           /\ Cardinality(S) <= Cardinality(T)
           /\ TypesOf(S) \subseteq TypesOf(T)
           /\ IsFiniteSet(TypesOf(T))
           /\ SeveritiesOf(S) \subseteq SeveritiesOf(T)
<1>1. IsFiniteSet(S) /\ Cardinality(S) <= Cardinality(T)
  BY FS_Subset
<1>2. Cardinality(S) \in Nat /\ Cardinality(T) \in Nat
  BY <1>1, FS_CardinalityType
<1>3. TypesOf(S) \subseteq TypesOf(T) /\ SeveritiesOf(S) \subseteq SeveritiesOf(T)
  BY DEF TypesOf, SeveritiesOf, Classified
<1>4. IsFiniteSet(TypesOf(T))
  <2> DEFINE f == [r \in Classified(T) |-> Rows[r].type]
  <2>1. IsFiniteSet(Classified(T))
    BY FS_Subset DEF Classified
  <2>2. f \in Surjection(Classified(T), TypesOf(T))
    BY DEF Surjection, TypesOf
  <2> QED
    BY <2>1, <2>2, FS_Surjection
<1> QED
  BY <1>1, <1>2, <1>3, <1>4

\* The rows of an address, in the period and in all, grow with the table.
LEMMA OfMonotonic ==
    ASSUME NEW S, NEW T, S \subseteq T, IsFiniteSet(T), NEW ip
    PROVE  /\ Of(S, ip) \subseteq Of(T, ip) /\ IsFiniteSet(Of(T, ip))
           /\ Of(Within(S), ip) \subseteq Of(Within(T), ip) /\ IsFiniteSet(Of(Within(T), ip))
BY FS_Subset DEF Of, Within

\* A profile's score lies between those of the two tables.
LEMMA ProfileBracketed ==
    ASSUME RequestTyped, ProfileInv, Is("profile")
    PROVE  Score(answer[1], answer[2], answer[3])
               \in Score(Count(Of(request.before, request.ip)),
                         TypesOf(Of(request.before, request.ip)),
                         SeveritiesOf(Of(request.before, request.ip))) ..
                   Score(Count(Of(table, request.ip)), TypesOf(Of(table, request.ip)),
                         SeveritiesOf(Of(table, request.ip)))
<1> DEFINE old == Of(request.before, request.ip)
           all == Of(table, request.ip)
<1>1. old \subseteq all /\ IsFiniteSet(all)
  BY OfMonotonic DEF RequestTyped, Requests
<1>2. /\ answer[1] \in Cardinality(old) .. Cardinality(all)
      /\ Between(TypesOf(old), answer[2], TypesOf(all))
      /\ Between(SeveritiesOf(old), answer[3], SeveritiesOf(all))
  <2>1. Len(answer) = 3
    BY DEF ProfileInv, Is
  <2>2. Len(answer) >= 1 /\ Len(answer) >= 2 /\ Len(answer) >= 3
    BY <2>1
  <2> QED
    BY <2>2 DEF ProfileInv, Is
<1> HIDE DEF old, all
<1>3. /\ Cardinality(old) \in Nat /\ Cardinality(all) \in Nat
      /\ IsFiniteSet(TypesOf(all)) /\ IsFiniteSet(answer[2])
  BY <1>1, <1>2, FoundMonotonic, FS_Subset DEF Between
<1>4. answer[1] \in Nat /\ Cardinality(old) <= answer[1] /\ answer[1] <= Cardinality(all)
  BY <1>2, <1>3
<1>5. /\ Score(Cardinality(old), TypesOf(old), SeveritiesOf(old)) \in Nat
      /\ Score(answer[1], answer[2], answer[3]) \in Nat
      /\ Score(Cardinality(old), TypesOf(old), SeveritiesOf(old))
             <= Score(answer[1], answer[2], answer[3])
  BY <1>2, <1>3, <1>4, ScoreMonotonic DEF Between
<1>6. /\ Score(Cardinality(all), TypesOf(all), SeveritiesOf(all)) \in Nat
      /\ Score(answer[1], answer[2], answer[3])
             <= Score(Cardinality(all), TypesOf(all), SeveritiesOf(all))
  BY <1>2, <1>3, <1>4, ScoreMonotonic DEF Between
<1> QED
  BY <1>5, <1>6 DEF Count, old, all

\* So does the score of every candidate of a ranking.
LEMMA CandidateBracketed ==
    ASSUME RequestTyped, RankingInv, Is("ranking"), NEW n \in DOMAIN answer[1],
           NEW ip, ip = answer[1][n].ip
    PROVE  RankScore(n)
               \in Score(Count(Of(Within(request.before), ip)),
                         TypesOf(Of(Within(request.before), ip)),
                         SeveritiesOf(Of(Within(request.before), ip))) ..
                   Score(Count(Of(InPeriod, ip)), TypesOf(Of(table, ip)),
                         SeveritiesOf(Of(table, ip)))
<1> DEFINE old == Of(request.before, ip)
           all == Of(table, ip)
           low == Of(Within(request.before), ip)
           high == Of(InPeriod, ip)
           total == answer[1][n].total
<1>1. /\ old \subseteq all /\ IsFiniteSet(all)
      /\ low \subseteq high /\ IsFiniteSet(high)
      /\ low \subseteq old /\ IsFiniteSet(old)
  <2>1. /\ old \subseteq all /\ IsFiniteSet(all)
        /\ low \subseteq high /\ IsFiniteSet(high)
    BY OfMonotonic DEF RequestTyped, Requests, InPeriod
  <2>2. low \subseteq old
    BY DEF Of, Within
  <2> QED
    BY <2>1, <2>2, FS_Subset
<1>2. /\ answer[1] \in Seq([ip : IPs, total : Nat])
      /\ Len(answer) = 2 * Len(answer[1]) + 1
      /\ \A k \in 1 .. Len(answer[1]) : CandidateInv(k)
  BY DEF RankingInv, Is
<1>3. n \in 1 .. Len(answer[1]) /\ Len(answer[1]) \in Nat
  BY <1>2
<1>4. 2 * n + 1 <= Len(answer) /\ 2 * n <= Len(answer)
  BY <1>2, <1>3
<1>5. /\ total \in Cardinality(low) .. Cardinality(high)
      /\ Between(TypesOf(low), answer[2 * n], TypesOf(all))
      /\ Between(SeveritiesOf(low), answer[2 * n + 1], SeveritiesOf(all))
  <2>1. /\ total \in Cardinality(low) .. Cardinality(high)
        /\ Between(TypesOf(old), answer[2 * n], TypesOf(all))
        /\ Between(SeveritiesOf(old), answer[2 * n + 1], SeveritiesOf(all))
    BY <1>2, <1>3, <1>4 DEF CandidateInv
  <2>2. low \subseteq old /\ IsFiniteSet(old)
    BY <1>1
  <2> HIDE DEF old, low
  <2>3. TypesOf(low) \subseteq TypesOf(old) /\ SeveritiesOf(low) \subseteq SeveritiesOf(old)
    BY <2>2, FoundMonotonic
  <2> QED
    BY <2>1, <2>3 DEF Between
<1> HIDE DEF old, all, low, high, total
<1>6. /\ Cardinality(low) \in Nat /\ Cardinality(high) \in Nat
      /\ IsFiniteSet(TypesOf(all)) /\ IsFiniteSet(answer[2 * n])
  BY <1>1, <1>5, FoundMonotonic, FS_Subset DEF Between
<1>7. total \in Nat /\ Cardinality(low) <= total /\ total <= Cardinality(high)
  BY <1>5, <1>6
<1>8. RankScore(n) = Score(total, answer[2 * n], answer[2 * n + 1])
  BY DEF RankScore, total
<1>9. /\ Score(Cardinality(low), TypesOf(low), SeveritiesOf(low)) \in Nat
      /\ RankScore(n) \in Nat
      /\ Score(Cardinality(low), TypesOf(low), SeveritiesOf(low)) <= RankScore(n)
  BY <1>5, <1>6, <1>7, <1>8, ScoreMonotonic DEF Between
<1>10. /\ Score(Cardinality(high), TypesOf(all), SeveritiesOf(all)) \in Nat
       /\ RankScore(n) <= Score(Cardinality(high), TypesOf(all), SeveritiesOf(all))
  BY <1>5, <1>6, <1>7, <1>8, ScoreMonotonic DEF Between
<1> QED
  BY <1>9, <1>10 DEF Count, old, all, low, high

-----------------------------------------------------------------------------
(* The statements of a profile and of a ranking.                           *)

\* A found set or number stays within its bounds while the table grows.
LEMMA BetweenGrows ==
    ASSUME NEW low, NEW found, NEW high, NEW higher,
           Between(low, found, high), high \subseteq higher
    PROVE  Between(low, found, higher)
BY DEF Between

LEMMA RiskInsert ==
    ASSUME RequestTyped, ProfileInv, RankingInv, NEW i \in DOMAIN Rows, Insert(i)
    PROVE  ProfileInv' /\ RankingInv'
<1>1. table \subseteq table' /\ UNCHANGED <<request, answer, walk>> /\ RequestTyped'
  BY InsertFacts
<1>2. IsFiniteSet(table') /\ IsFiniteSet(table) /\ request.before \subseteq table
  BY <1>1 DEF RequestTyped, Requests
<1>3. ASSUME NEW ip
      PROVE  /\ Cardinality(Of(table, ip)) <= Cardinality(Of(table', ip))
             /\ Cardinality(Of(InPeriod, ip)) <= Cardinality(Of(InPeriod, ip)')
             /\ TypesOf(Of(table, ip)) \subseteq TypesOf(Of(table', ip))
             /\ SeveritiesOf(Of(table, ip)) \subseteq SeveritiesOf(Of(table', ip))
             /\ {Cardinality(Of(table, ip)), Cardinality(Of(table', ip)),
                 Cardinality(Of(InPeriod, ip)), Cardinality(Of(InPeriod, ip)'),
                 Cardinality(Of(request.before, ip)),
                 Cardinality(Of(Within(request.before), ip))} \subseteq Nat
  <2>1. /\ Of(table, ip) \subseteq Of(table', ip) /\ IsFiniteSet(Of(table', ip))
        /\ Of(Within(table), ip) \subseteq Of(Within(table'), ip)
        /\ IsFiniteSet(Of(Within(table'), ip))
        /\ Of(request.before, ip) \subseteq Of(table, ip) /\ IsFiniteSet(Of(table, ip))
        /\ Of(Within(request.before), ip) \subseteq Of(Within(table), ip)
        /\ IsFiniteSet(Of(Within(table), ip))
    BY <1>1, <1>2, OfMonotonic
  <2>2. Of(InPeriod, ip)' = Of(Within(table'), ip) /\ Of(InPeriod, ip) = Of(Within(table), ip)
    BY <1>1 DEF InPeriod, Within, Of
  <2> QED
    BY <2>1, <2>2, FoundMonotonic
<1>4. ProfileInv'
  <2> SUFFICES ASSUME request.kind = "profile"
               PROVE  ProfileInv'
    BY <1>1 DEF ProfileInv
  <2> DEFINE old == Of(request.before, request.ip)
             all == Of(table, request.ip)
             more == Of(table', request.ip)
  <2>1. /\ Len(answer) >= 1 => answer[1] \in Cardinality(old) .. Cardinality(all)
        /\ Len(answer) >= 2 => Between(TypesOf(old), answer[2], TypesOf(all))
        /\ Len(answer) >= 3 => Between(SeveritiesOf(old), answer[3], SeveritiesOf(all))
        /\ request.status = "ok" => Len(answer) = 3
    BY DEF ProfileInv
  <2>2. /\ Cardinality(all) <= Cardinality(more)
        /\ TypesOf(all) \subseteq TypesOf(more)
        /\ SeveritiesOf(all) \subseteq SeveritiesOf(more)
        /\ {Cardinality(all), Cardinality(more), Cardinality(old)} \subseteq Nat
    BY <1>3
  <2> HIDE DEF old, all, more
  <2>3. /\ Len(answer) >= 1 => answer[1] \in Cardinality(old) .. Cardinality(more)
        /\ Len(answer) >= 2 => Between(TypesOf(old), answer[2], TypesOf(more))
        /\ Len(answer) >= 3 => Between(SeveritiesOf(old), answer[3], SeveritiesOf(more))
    BY <2>1, <2>2, BetweenGrows
  <2>4. /\ request' = request /\ answer' = answer
        /\ Of(request.before, request.ip)' = old /\ Of(table, request.ip)' = more
    BY <1>1 DEF Of, old, more
  <2>5. /\ TypesOf(Of(request.before, request.ip))' = TypesOf(old)
        /\ SeveritiesOf(Of(request.before, request.ip))' = SeveritiesOf(old)
        /\ TypesOf(Of(table, request.ip))' = TypesOf(more)
        /\ SeveritiesOf(Of(table, request.ip))' = SeveritiesOf(more)
    BY <2>4 DEF TypesOf, SeveritiesOf, Classified
  <2> QED
    BY <2>1, <2>3, <2>4, <2>5 DEF ProfileInv
<1>5. ASSUME NEW n \in Nat, CandidateInv(n) PROVE CandidateInv(n)'
  <2> DEFINE ip == answer[1][n].ip
             old == Of(request.before, ip)
             all == Of(table, ip)
             more == Of(table', ip)
             low == Of(Within(request.before), ip)
             high == Of(InPeriod, ip)
             higher == Of(InPeriod, ip)'
  <2>1. /\ answer[1][n].total \in Cardinality(low) .. Cardinality(high)
        /\ 2 * n <= Len(answer) => Between(TypesOf(old), answer[2 * n], TypesOf(all))
        /\ 2 * n + 1 <= Len(answer)
              => Between(SeveritiesOf(old), answer[2 * n + 1], SeveritiesOf(all))
    BY <1>5 DEF CandidateInv
  <2>2. ip' = ip
    BY <1>1
  <2>3. /\ Cardinality(high) <= Cardinality(higher)
        /\ TypesOf(all) \subseteq TypesOf(more)
        /\ SeveritiesOf(all) \subseteq SeveritiesOf(more)
        /\ {Cardinality(low), Cardinality(high), Cardinality(higher)} \subseteq Nat
    <3>1. PICK a : a = ip
      OBVIOUS
    <3>2. higher = Of(InPeriod, a)'
      BY <2>2, <3>1
    <3> QED
      BY <1>3, <3>1, <3>2
  <2>4. /\ Of(request.before, ip)' = old /\ Of(table, ip)' = more
        /\ Of(Within(request.before), ip)' = low
    BY <1>1 DEF Of, Within
  <2> HIDE DEF old, all, more, low, high, higher, ip
  <2>5. /\ answer[1][n].total \in Cardinality(low) .. Cardinality(higher)
        /\ 2 * n <= Len(answer) => Between(TypesOf(old), answer[2 * n], TypesOf(more))
        /\ 2 * n + 1 <= Len(answer)
              => Between(SeveritiesOf(old), answer[2 * n + 1], SeveritiesOf(more))
    BY <2>1, <2>3, BetweenGrows
  <2>6. /\ TypesOf(Of(request.before, ip))' = TypesOf(old)
        /\ SeveritiesOf(Of(request.before, ip))' = SeveritiesOf(old)
        /\ TypesOf(Of(table, ip))' = TypesOf(more)
        /\ SeveritiesOf(Of(table, ip))' = SeveritiesOf(more)
    BY <2>4 DEF TypesOf, SeveritiesOf, Classified
  <2> QED
    BY <1>1, <2>4, <2>5, <2>6 DEF CandidateInv, ip, higher
<1>6. RankingInv'
  <2> SUFFICES ASSUME request.kind = "ranking" PROVE RankingInv'
    BY <1>1 DEF RankingInv
  <2>1. ASSUME Len(answer) > 0
        PROVE  /\ answer[1] \in Seq([ip : IPs, total : Nat])
               /\ \A n \in 1 .. Len(answer[1]) : CandidateInv(n)'
    <3>1. answer[1] \in Seq([ip : IPs, total : Nat]) /\ Len(answer[1]) \in Nat
      BY <2>1 DEF RankingInv
    <3> QED
      BY <1>5, <2>1, <3>1 DEF RankingInv
  <2> QED
    BY <1>1, <2>1 DEF RankingInv
<1> QED
  BY <1>4, <1>6

\* A SELECT sees all the rows there were when the request came in.
LEMMA RowsSeen ==
    ASSUME RequestTyped, NEW ip
    PROVE  /\ Cardinality(Of(table, ip))
                  \in Cardinality(Of(request.before, ip)) .. Cardinality(Of(table, ip))
           /\ Cardinality(Of(InPeriod, ip))
                  \in Cardinality(Of(Within(request.before), ip)) .. Cardinality(Of(InPeriod, ip))
           /\ Cardinality(Of(InPeriod, ip)) \in Nat
           /\ Between(TypesOf(Of(request.before, ip)), TypesOf(Of(table, ip)),
                      TypesOf(Of(table, ip)))
           /\ Between(SeveritiesOf(Of(request.before, ip)), SeveritiesOf(Of(table, ip)),
                      SeveritiesOf(Of(table, ip)))
<1>1. /\ Of(request.before, ip) \subseteq Of(table, ip) /\ IsFiniteSet(Of(table, ip))
      /\ Of(Within(request.before), ip) \subseteq Of(InPeriod, ip)
      /\ IsFiniteSet(Of(InPeriod, ip))
  BY OfMonotonic DEF RequestTyped, Requests, InPeriod
<1> QED
  BY <1>1, FoundMonotonic DEF Between

\* What a statement leaves as it was.
LEMMA ResultFacts ==
    ASSUME RequestTyped, NEW found, NEW status,
           answer' = Append(answer, found), Answered(status), table' = table
    PROVE  /\ table' = table
           /\ request'.kind = request.kind /\ request'.ip = request.ip
           /\ request'.before = request.before
           /\ request'.status = status
           /\ Within(request.before)' = Within(request.before)
           /\ InPeriod' = InPeriod
           /\ Len(answer) \in Nat
           /\ Len(answer') = Len(answer) + 1
           /\ answer'[Len(answer) + 1] = found
           /\ \A n \in 1 .. Len(answer) : answer'[n] = answer[n]
<1>1. request' = [request EXCEPT !.status = status]
  BY DEF Answered
<1>2. /\ request'.kind = request.kind /\ request'.ip = request.ip
      /\ request'.before = request.before /\ request'.since = request.since
      /\ request'.until = request.until /\ request'.status = status
  BY <1>1 DEF RequestTyped, Requests
<1>3. Within(request.before)' = Within(request.before) /\ InPeriod' = InPeriod
  BY <1>1, <1>2 DEF Within, InPeriod
<1> QED
  BY <1>1, <1>2, <1>3, AppendFacts DEF RequestTyped

LEMMA ProfileStep ==
    ASSUME RequestTyped, ProfileInv, Profile
    PROVE  ProfileInv' /\ RankingInv'
<1> DEFINE old == Of(request.before, request.ip)
           all == Of(table, request.ip)
<1>1. Open /\ request.kind = "profile"
  BY DEF Profile, Pending
<1>2. request' = [request EXCEPT !.status = request'.status] /\ table' = table
  BY DEF Profile, Result, Answered, RequestTyped, Requests
<1>3. /\ request'.kind = "profile" /\ request'.ip = request.ip
      /\ request'.before = request.before
  BY <1>1, <1>2 DEF RequestTyped, Requests
<1>4. RankingInv'
  BY <1>3 DEF RankingInv
<1>5. /\ Of(request.before, request.ip)' = old /\ Of(table, request.ip)' = all
      /\ TypesOf(Of(request.before, request.ip))' = TypesOf(old)
      /\ SeveritiesOf(Of(request.before, request.ip))' = SeveritiesOf(old)
      /\ TypesOf(Of(table, request.ip))' = TypesOf(all)
      /\ SeveritiesOf(Of(table, request.ip))' = SeveritiesOf(all)
  BY <1>2, <1>3 DEF Of, TypesOf, SeveritiesOf, Classified
<1>6. /\ Len(answer) >= 1 => answer[1] \in Cardinality(old) .. Cardinality(all)
      /\ Len(answer) >= 2 => Between(TypesOf(old), answer[2], TypesOf(all))
  BY <1>1 DEF ProfileInv
<1>7. /\ Cardinality(all) \in Cardinality(old) .. Cardinality(all)
      /\ Between(TypesOf(old), TypesOf(all), TypesOf(all))
      /\ Between(SeveritiesOf(old), SeveritiesOf(all), SeveritiesOf(all))
  BY RowsSeen
<1> SUFFICES /\ Len(answer') >= 1 => answer'[1] \in Cardinality(old) .. Cardinality(all)
             /\ Len(answer') >= 2 => Between(TypesOf(old), answer'[2], TypesOf(all))
             /\ Len(answer') >= 3 => Between(SeveritiesOf(old), answer'[3], SeveritiesOf(all))
             /\ request'.status = "ok" => Len(answer') = 3
  BY <1>4, <1>5 DEF ProfileInv
<1>8. CASE Pending("profile", 0) /\ Answered("refused") /\ answer' = answer
  BY <1>8 DEF Pending, Answered, RequestTyped, Requests
<1>9. CASE Pending("profile", 0) /\ Result(Cardinality(all), FALSE)
  <2>1. Len(answer) = 0 /\ request'.status = "open" /\ Len(answer') = 1
        /\ answer'[1] = Cardinality(all)
    <3> DEFINE x == Cardinality(all)
    <3>1. /\ Len(answer) = 0
          /\ answer' = Append(answer, x) /\ Answered("open") /\ table' = table
      BY <1>9 DEF Pending, Result
    <3> HIDE DEF x
    <3>2. /\ request'.status = "open" /\ Len(answer') = Len(answer) + 1
          /\ answer'[Len(answer) + 1] = x
          /\ \A n \in 1 .. Len(answer) : answer'[n] = answer[n]
      BY <3>1, ResultFacts
    <3> QED
      BY <3>1, <3>2 DEF x
  <2> QED
    BY <1>7, <2>1
<1>10. CASE Pending("profile", 1) /\ Result(TypesOf(all), FALSE)
  <2>1. Len(answer) = 1 /\ request'.status = "open" /\ Len(answer') = 2
        /\ answer'[1] = answer[1] /\ answer'[2] = TypesOf(all)
    <3> DEFINE x == TypesOf(all)
    <3>1. /\ Len(answer) = 1
          /\ answer' = Append(answer, x) /\ Answered("open") /\ table' = table
      BY <1>10 DEF Pending, Result
    <3> HIDE DEF x
    <3>2. /\ request'.status = "open" /\ Len(answer') = Len(answer) + 1
          /\ answer'[Len(answer) + 1] = x
          /\ \A n \in 1 .. Len(answer) : answer'[n] = answer[n]
      BY <3>1, ResultFacts
    <3> QED
      BY <3>1, <3>2 DEF x
  <2> QED
    BY <1>6, <1>7, <2>1
<1>11. CASE Pending("profile", 2) /\ Result(SeveritiesOf(all), TRUE)
  <2>1. Len(answer) = 2 /\ Len(answer') = 3
        /\ answer'[1] = answer[1] /\ answer'[2] = answer[2] /\ answer'[3] = SeveritiesOf(all)
    <3> DEFINE x == SeveritiesOf(all)
    <3>1. /\ Len(answer) = 2
          /\ answer' = Append(answer, x) /\ Answered("ok") /\ table' = table
      BY <1>11 DEF Pending, Result
    <3> HIDE DEF x
    <3>2. /\ request'.status = "ok" /\ Len(answer') = Len(answer) + 1
          /\ answer'[Len(answer) + 1] = x
          /\ \A n \in 1 .. Len(answer) : answer'[n] = answer[n]
      BY <3>1, ResultFacts
    <3> QED
      BY <3>1, <3>2 DEF x
  <2> QED
    BY <1>6, <1>7, <2>1
<1> QED
  BY <1>8, <1>9, <1>10, <1>11 DEF Profile, Count

\* The addresses a ranking is made of.
LEMMA TopIPsFacts ==
    ASSUME RequestTyped, NEW limit, NEW s \in TopIPs(InPeriod, limit)
    PROVE  s \in Seq(IPs)
<1> DEFINE seen == {Rows[r].ip : r \in InPeriod}
<1>1. InPeriod \subseteq DOMAIN Rows /\ IsFiniteSet(InPeriod)
  BY FS_Subset DEF InPeriod, Within, RequestTyped
<1>2. IsFiniteSet(seen)
  <2> DEFINE f == [r \in InPeriod |-> Rows[r].ip]
  <2>1. f \in Surjection(InPeriod, seen)
    BY DEF Surjection
  <2> QED
    BY <1>1, <2>1, FS_Surjection
<1>3. seen \subseteq IPs
  BY <1>1 DEF IPs
<1>4. s \in SetToAllKPermutations(seen)
  BY DEF TopIPs
<1> HIDE DEF seen
<1>5. PICK U \in SUBSET seen : s \in [1 .. Cardinality(U) -> U]
  BY <1>4 DEF SetToAllKPermutations, SetToSeqs
<1>6. Cardinality(U) \in Nat
  BY <1>2, FS_Subset, FS_CardinalityType
<1>7. s \in [1 .. Cardinality(U) -> IPs]
  BY <1>3, <1>5
<1> QED
  BY <1>6, <1>7, SeqDef

LEMMA CandidatesStep ==
    ASSUME RequestTyped, RankCandidates
    PROVE  ProfileInv' /\ RankingInv'
<1>1. PICK s \in TopIPs(InPeriod, Candidates) :
          Result([n \in DOMAIN s |->
                    [ip |-> s[n], total |-> Count(Of(InPeriod, s[n]))]], s = <<>>)
  BY DEF RankCandidates
<1>2. s \in Seq(IPs) /\ Len(s) \in Nat /\ DOMAIN s = 1 .. Len(s)
  BY TopIPsFacts
<1> DEFINE found == [n \in DOMAIN s |-> [ip |-> s[n], total |-> Count(Of(InPeriod, s[n]))]]
<1>3. /\ found \in [1 .. Len(s) -> [ip : IPs, total : Nat]]
      /\ found \in Seq([ip : IPs, total : Nat]) /\ Len(found) = Len(s)
  <2>1. \A n \in 1 .. Len(s) : s[n] \in IPs /\ Count(Of(InPeriod, s[n])) \in Nat
    BY <1>2, RowsSeen DEF Count
  <2>2. found \in [1 .. Len(s) -> [ip : IPs, total : Nat]]
    BY <1>2, <2>1
  <2> DEFINE T == [ip : IPs, total : Nat]
  <2> HIDE DEF found, T
  <2>3. found \in [1 .. Len(s) -> T]
    BY <2>2 DEF T
  <2>4. found \in Seq(T)
    BY <1>2, <2>3, SeqDef
  <2>5. Len(found) \in Nat /\ DOMAIN found = 1 .. Len(found) /\ DOMAIN found = 1 .. Len(s)
    BY <2>3, <2>4, LenProperties
  <2>6. Len(found) = Len(s)
    <3>1. ASSUME NEW a \in Nat, NEW b \in Nat, 1 .. a = 1 .. b, a < b PROVE FALSE
      <4>1. b \in 1 .. b /\ b \notin 1 .. a
        BY <3>1
      <4> QED
        BY <3>1, <4>1
    <3>2. 1 .. Len(found) = 1 .. Len(s) /\ 1 .. Len(s) = 1 .. Len(found)
      BY <2>5
    <3> DEFINE a == Len(found)
               b == Len(s)
    <3>3. a \in Nat /\ b \in Nat
      BY <1>2, <2>5
    <3> HIDE DEF a, b
    <3>4. ~(a < b) /\ ~(b < a)
      BY <3>1, <3>2, <3>3 DEF a, b
    <3>5. a = b
      BY <3>3, <3>4
    <3> QED
      BY <3>5 DEF a, b
  <2> QED
    BY <2>2, <2>4, <2>6 DEF T
<1>4. \A n \in 1 .. Len(s) :
          found[n].ip = s[n] /\ found[n].total = Cardinality(Of(InPeriod, s[n]))
  BY <1>2 DEF Count
<1> HIDE DEF found
<1>5. Open /\ request.kind = "ranking" /\ Len(answer) = 0
  BY DEF RankCandidates, Pending
<1>6. /\ answer' = Append(answer, found)
      /\ Answered(IF s = <<>> THEN "ok" ELSE "open")
      /\ table' = table
  BY <1>1 DEF found, Result
<1>7. /\ table' = table /\ request'.kind = "ranking"
      /\ request'.before = request.before
      /\ request'.status = "ok" => s = <<>>
      /\ Within(request.before)' = Within(request.before) /\ InPeriod' = InPeriod
      /\ Len(answer') = 1 /\ answer'[1] = found
  <2> DEFINE status == IF s = <<>> THEN "ok" ELSE "open"
  <2>1. status = "ok" => s = <<>>
    OBVIOUS
  <2> HIDE DEF status
  <2>2. answer' = Append(answer, found) /\ Answered(status) /\ table' = table
    BY <1>6 DEF status
  <2>3. /\ table' = table /\ request'.kind = request.kind
        /\ request'.before = request.before
        /\ request'.status = status
        /\ Within(request.before)' = Within(request.before) /\ InPeriod' = InPeriod
        /\ Len(answer') = Len(answer) + 1 /\ answer'[Len(answer) + 1] = found
    BY <2>2, ResultFacts
  <2> QED
    BY <1>5, <2>1, <2>3
<1>8. ASSUME NEW n \in 1 .. Len(s) PROVE CandidateInv(n)'
  <2>1. n \in Nat /\ ~(2 * n <= Len(answer')) /\ ~(2 * n + 1 <= Len(answer'))
    BY <1>2, <1>7
  <2>2. found[n].total \in Cardinality(Of(Within(request.before), s[n]))
                               .. Cardinality(Of(InPeriod, s[n]))
    BY <1>4, RowsSeen
  <2>3. found[n].ip = s[n]
    BY <1>4
  <2>4. /\ Of(Within(request.before), s[n])' = Of(Within(request.before), s[n])
        /\ Of(InPeriod, s[n])' = Of(InPeriod, s[n])
    BY <1>7 DEF Of
  <2> QED
    BY <1>7, <2>1, <2>2, <2>3, <2>4 DEF CandidateInv, Of
<1>9. request'.status = "ok" => Len(answer') = 2 * Len(answer'[1]) + 1
  BY <1>3, <1>7
<1> QED
  BY <1>3, <1>7, <1>8, <1>9 DEF ProfileInv, RankingInv

\* The statements for a candidate fill in what is missing at its place.
LEMMA DetailsStep ==
    ASSUME RequestTyped, RankingInv, RankDetails
    PROVE  ProfileInv' /\ RankingInv'
<1> DEFINE L == Len(answer)
           types(n) == TypesOf(Of(table, answer[1][n].ip))
           severities(n) == SeveritiesOf(Of(table, answer[1][n].ip))
<1>1. request.kind = "ranking" /\ L > 0 /\ L \in Nat
  BY DEF RankDetails, RequestTyped
<1>2. /\ answer[1] \in Seq([ip : IPs, total : Nat]) /\ Len(answer[1]) \in Nat
      /\ \A n \in 1 .. Len(answer[1]) : CandidateInv(n)
  BY <1>1 DEF RankingInv
<1>3. \E found, status :
          /\ answer' = Append(answer, found) /\ Answered(status) /\ table' = table
          /\ \A n \in Nat : 2 * n = L + 1 => found = types(n)
          /\ \A n \in Nat : 2 * n + 1 = L + 1 => found = severities(n)
          /\ status = "ok" => L = 2 * Len(answer[1])
  <2> DEFINE k == (L + 1) \div 2
  <2>1. Turn = answer[1][k].ip
    BY DEF Turn
  <2>2. CASE L % 2 = 1
    <3>1. answer' = Append(answer, types(k)) /\ Answered("open") /\ table' = table
      BY <2>1, <2>2 DEF RankDetails, Result
    <3>2. \A n \in Nat : /\ 2 * n = L + 1 => n = k
                         /\ 2 * n + 1 # L + 1
      BY <1>1, <2>2
    <3> HIDE DEF k
    <3>3. /\ \A n \in Nat : 2 * n = L + 1 => types(k) = types(n)
          /\ \A n \in Nat : 2 * n + 1 = L + 1 => types(k) = severities(n)
      BY <3>2
    <3> HIDE DEF types, severities
    <3> QED
      BY <3>1, <3>3
  <2>3. CASE L % 2 # 1
    <3> DEFINE status == IF L = 2 * Len(answer[1]) THEN "ok" ELSE "open"
    <3>1. answer' = Append(answer, severities(k)) /\ Answered(status) /\ table' = table
      BY <2>1, <2>3 DEF RankDetails, Result
    <3>2. \A n \in Nat : /\ 2 * n # L + 1
                         /\ 2 * n + 1 = L + 1 => n = k
      BY <1>1, <2>3
    <3> HIDE DEF k
    <3>3. /\ \A n \in Nat : 2 * n = L + 1 => severities(k) = types(n)
          /\ \A n \in Nat : 2 * n + 1 = L + 1 => severities(k) = severities(n)
      BY <3>2
    <3>4. status = "ok" => L = 2 * Len(answer[1])
      OBVIOUS
    <3> HIDE DEF types, severities, status
    <3> QED
      BY <3>1, <3>3, <3>4
  <2> QED
    BY <2>2, <2>3
<1>4. PICK found, status :
          /\ answer' = Append(answer, found) /\ Answered(status) /\ table' = table
          /\ \A n \in Nat : 2 * n = L + 1 => found = types(n)
          /\ \A n \in Nat : 2 * n + 1 = L + 1 => found = severities(n)
          /\ status = "ok" => L = 2 * Len(answer[1])
  BY <1>3
<1>5. /\ table' = table /\ request'.kind = "ranking"
      /\ request'.before = request.before /\ request'.status = status
      /\ Within(request.before)' = Within(request.before) /\ InPeriod' = InPeriod
      /\ Len(answer') = L + 1 /\ answer'[L + 1] = found
      /\ \A n \in 1 .. L : answer'[n] = answer[n]
  BY <1>1, <1>4, ResultFacts
<1>6. answer'[1] = answer[1]
  <2>1. 1 \in 1 .. L
    BY <1>1
  <2> QED
    BY <1>5, <2>1
<1>7. ASSUME NEW n \in 1 .. Len(answer[1]) PROVE CandidateInv(n)'
  <2> DEFINE ip == answer[1][n].ip
             old == Of(request.before, ip)
             all == Of(table, ip)
             low == Of(Within(request.before), ip)
             high == Of(InPeriod, ip)
  <2>1. n \in Nat /\ n >= 1
    BY <1>2
  <2>2. /\ answer[1][n].total \in Cardinality(low) .. Cardinality(high)
        /\ 2 * n <= L => Between(TypesOf(old), answer[2 * n], TypesOf(all))
        /\ 2 * n + 1 <= L => Between(SeveritiesOf(old), answer[2 * n + 1], SeveritiesOf(all))
    BY <1>2 DEF CandidateInv
  <2>3. /\ Between(TypesOf(old), types(n), TypesOf(all))
        /\ Between(SeveritiesOf(old), severities(n), SeveritiesOf(all))
    BY RowsSeen
  <2>4. 2 * n <= L + 1 => Between(TypesOf(old), answer'[2 * n], TypesOf(all))
    <3>1. CASE 2 * n <= L
      <4>1. 2 * n \in 1 .. L
        BY <1>1, <2>1, <3>1
      <4> QED
        BY <1>5, <2>2, <3>1, <4>1
    <3>2. CASE 2 * n = L + 1
      <4>1. answer'[2 * n] = types(n)
        BY <1>4, <1>5, <2>1, <3>2
      <4> QED
        BY <2>3, <4>1
    <3> QED
      BY <1>1, <2>1, <3>1, <3>2
  <2>5. 2 * n + 1 <= L + 1 => Between(SeveritiesOf(old), answer'[2 * n + 1], SeveritiesOf(all))
    <3>1. CASE 2 * n + 1 <= L
      <4>1. 2 * n + 1 \in 1 .. L
        BY <1>1, <2>1, <3>1
      <4> QED
        BY <1>5, <2>2, <3>1, <4>1
    <3>2. CASE 2 * n + 1 = L + 1
      <4>1. answer'[2 * n + 1] = severities(n)
        BY <1>4, <1>5, <2>1, <3>2
      <4> QED
        BY <2>3, <4>1
    <3> QED
      BY <1>1, <2>1, <3>1, <3>2
  <2>6. ip' = ip
    BY <1>6
  <2>7. /\ old' = old /\ all' = all /\ low' = low /\ high' = high
    BY <1>5, <2>6 DEF Of
  <2>8. TypesOf(old)' = TypesOf(old) /\ TypesOf(all)' = TypesOf(all)
        /\ SeveritiesOf(old)' = SeveritiesOf(old) /\ SeveritiesOf(all)' = SeveritiesOf(all)
    BY <2>7 DEF TypesOf, SeveritiesOf, Classified
  <2> HIDE DEF old, all, low, high
  <2>9. /\ answer'[1][n].total \in Cardinality(low)' .. Cardinality(high)'
        /\ 2 * n <= Len(answer') => Between(TypesOf(old)', answer'[2 * n], TypesOf(all)')
        /\ 2 * n + 1 <= Len(answer')
              => Between(SeveritiesOf(old)', answer'[2 * n + 1], SeveritiesOf(all)')
    BY <1>5, <1>6, <2>2, <2>4, <2>5, <2>7, <2>8
  <2> QED
    BY <2>9 DEF CandidateInv, old, all, low, high
<1>8. request'.status = "ok" => Len(answer') = 2 * Len(answer'[1]) + 1
  BY <1>2, <1>4, <1>5, <1>6
<1>9. Len(answer') > 0
  BY <1>1, <1>5
<1> QED
  BY <1>2, <1>5, <1>6, <1>7, <1>8, <1>9 DEF ProfileInv, RankingInv

LEMMA RiskStep ==
    ASSUME RequestTyped, ProfileInv, RankingInv, [Next]_vars
    PROVE  ProfileInv' /\ RankingInv'
<1>1. CASE UNCHANGED <<table, request, answer, walk>>
  BY <1>1 DEF ProfileInv, RankingInv, CandidateInv, Of, InPeriod, Within, TypesOf,
              SeveritiesOf, Classified
<1>2. ASSUME NEW i \in DOMAIN Rows, Insert(i) PROVE ProfileInv' /\ RankingInv'
  BY <1>2, RiskInsert
<1>3. ASSUME request'.kind \notin Risks PROVE ProfileInv' /\ RankingInv'
  BY <1>3 DEF Risks, ProfileInv, RankingInv
<1>4. CASE Begins
  <2>1. answer' = <<>> /\ request'.status # "ok"
    BY <1>4 DEF Begins, Begin, BeginCountry, Opened
  <2>2. Len(answer') = 0
    BY <2>1
  <2> QED
    BY <2>1, <2>2 DEF ProfileInv, RankingInv
<1>5. CASE \E ip \in IPs \cup {"any"} : AskPage(ip)
  <2>1. request'.kind = "events"
    BY <1>5, AskReopens
  <2> QED
    BY <1>3, <2>1 DEF Risks
<1>6. CASE Leave \/ ShutDown
  <2>1. request'.kind = "none"
    BY <1>6, EndReopens
  <2> QED
    BY <1>3, <2>1 DEF Risks
<1>7. CASE OtherSelect
  <2>1. request'.kind \in OtherKinds
    BY <1>7, OtherSelects, SelectsTyped
  <2> QED
    BY <1>3, <2>1 DEF OtherKinds
<1>8. CASE ListSelect
  <2>1. request'.kind \in Lists
    BY <1>8, ListSelects, SelectsTyped
  <2> QED
    BY <1>3, <2>1 DEF Lists, Risks
<1>9. CASE RiskSelect
  BY <1>9, CandidatesStep, DetailsStep, ProfileStep DEF RiskSelect
<1> QED
  BY <1>1, <1>2, <1>4, <1>5, <1>6, <1>7, <1>8, <1>9, StepCases

-----------------------------------------------------------------------------
(* Sums.                                                                   *)

\* A set of numbers has a least one.
LEMMA LeastNumber ==
    ASSUME NEW S \in SUBSET Nat, S # {}
    PROVE  \E m \in S : \A k \in S : m <= k
<1>1. PICK m \in S : \A k \in S : ~ (<<k, m>> \in OpToRel(<, Nat))
  BY WFMin, NatLessThanWellFounded
<1>2. \A k \in S : ~(k < m)
  BY <1>1 DEF OpToRel
<1> QED
  BY <1>2

\* g satisfies the recursion that a sum of f over the subsets of S is.
SumEquation(g, f, S) ==
    g = [s \in SUBSET S |->
            IF s = {} THEN 0
            ELSE f[CHOOSE x \in s : TRUE] + g[s \ {CHOOSE x \in s : TRUE}]]

\* A sum is the value of a function with its equation, where there is one.
LEMMA SumUnfolds ==
    ASSUME NEW f, NEW S, NEW g, SumEquation(g, f, S)
    PROVE  \E h : SumEquation(h, f, S) /\ SumFunctionOnSet(f, S) = h[S]
<1> DEFINE h == CHOOSE h : SumEquation(h, f, S)
<1>1. SumEquation(h, f, S)
  OBVIOUS
<1>2. SumFunctionOnSet(f, S) = h[S]
  BY DEF SumFunctionOnSet, FoldFunctionOnSet, MapThenFoldSet, SumEquation
<1> QED
  BY <1>1, <1>2

\* No two functions do.
LEMMA SumUnique ==
    ASSUME NEW f, NEW S, IsFiniteSet(S), NEW g, NEW h,
           SumEquation(g, f, S), SumEquation(h, f, S)
    PROVE  \A s \in SUBSET S : g[s] = h[s]
<1> DEFINE Differing == {n \in Nat : \E s \in SUBSET S : Cardinality(s) = n /\ g[s] # h[s]}
<1> SUFFICES ASSUME NEW s \in SUBSET S, g[s] # h[s] PROVE FALSE
  OBVIOUS
<1>1. \A t \in SUBSET S : IsFiniteSet(t) /\ Cardinality(t) \in Nat
  BY FS_Subset, FS_CardinalityType
<1>2. Differing # {}
  BY <1>1
<1>3. PICK m \in Differing : \A k \in Differing : m <= k
  <2> HIDE DEF Differing
  <2>1. Differing \in SUBSET Nat
    BY DEF Differing
  <2> QED
    BY <1>2, <2>1, LeastNumber
<1>4. PICK t \in SUBSET S : Cardinality(t) = m /\ g[t] # h[t]
  BY <1>3
<1>5. t # {}
  BY <1>4 DEF SumEquation
<1> DEFINE x == CHOOSE x \in t : TRUE
           u == t \ {x}
<1>6. x \in t
  BY <1>5
<1>7. /\ g[t] = f[x] + g[u]
      /\ h[t] = f[x] + h[u]
  BY <1>5 DEF SumEquation
<1> HIDE DEF x
<1>8. Cardinality(u) = m - 1 /\ Cardinality(u) \in Nat /\ u \in SUBSET S
  BY <1>1, <1>4, <1>6, FS_RemoveElement
<1>9. g[u] # h[u]
  BY <1>4, <1>7
<1>10. m - 1 \in Differing
  BY <1>8, <1>9
<1> QED
  BY <1>3, <1>10

\* What has the key, or one of the keys.
Keyed(R, key, b) == {r \in R : key[r] = b}
KeyedIn(R, key, S) == {r \in R : key[r] \in S}

\* Counts by a key add up to what has one of the keys.
LEMMA SumOfCounts ==
    ASSUME NEW R, IsFiniteSet(R), NEW key, NEW S, IsFiniteSet(S), NEW f,
           \A b \in S : f[b] = Cardinality(Keyed(R, key, b))
    PROVE  SumFunctionOnSet(f, S) = Cardinality(KeyedIn(R, key, S))
<1> USE DEF Keyed, KeyedIn
<1> DEFINE with(s) == {r \in R : key[r] \in s}
           g == [s \in SUBSET S |-> Cardinality(with(s))]
<1>1. SumEquation(g, f, S)
  <2> SUFFICES ASSUME NEW s \in SUBSET S
               PROVE  g[s] = IF s = {} THEN 0
                             ELSE f[CHOOSE x \in s : TRUE] + g[s \ {CHOOSE x \in s : TRUE}]
    BY DEF SumEquation
  <2>1. CASE s = {}
    <3>1. with(s) = {}
      BY <2>1
    <3>2. Cardinality(with(s)) = 0
      BY <3>1, FS_EmptySet
    <3> QED
      BY <2>1, <3>2
  <2>2. CASE s # {}
    <3> DEFINE x == CHOOSE x \in s : TRUE
               u == s \ {x}
               own == {r \in R : key[r] = x}
    <3>1. x \in s
      BY <2>2
    <3> HIDE DEF x
    <3>2. with(s) = own \cup with(u) /\ own \cap with(u) = {}
      BY <3>1
    <3>3. IsFiniteSet(own) /\ IsFiniteSet(with(u))
      BY FS_Subset
    <3>4. Cardinality(with(s)) = Cardinality(own) + Cardinality(with(u))
      <4> HIDE DEF own, with
      <4>1. Cardinality(own \cup with(u)) =
                Cardinality(own) + Cardinality(with(u)) - Cardinality(own \cap with(u))
        BY <3>3, FS_Union
      <4>2. /\ Cardinality(own \cap with(u)) = 0
            /\ Cardinality(own) \in Nat /\ Cardinality(with(u)) \in Nat
        BY <3>2, <3>3, FS_EmptySet, FS_CardinalityType
      <4> QED
        BY <3>2, <4>1, <4>2
    <3>5. f[x] = Cardinality(own) /\ u \in SUBSET S
      BY <3>1
    <3>6. g[s] = f[x] + g[u]
      BY <3>4, <3>5
    <3> QED
      BY <2>2, <3>6 DEF x
  <2> QED
    BY <2>1, <2>2
<1>2. PICK h : SumEquation(h, f, S) /\ SumFunctionOnSet(f, S) = h[S]
  <2> HIDE DEF g
  <2> QED
    BY <1>1, SumUnfolds
<1>3. g[S] = h[S]
  <2> HIDE DEF g
  <2>1. S \in SUBSET S
    OBVIOUS
  <2> QED
    BY <1>1, <1>2, <2>1, SumUnique
<1> QED
  BY <1>2, <1>3

-----------------------------------------------------------------------------
(* The resolver's cache.                                                   *)

\* The history after an address was resolved.
Used(R, ip) == Append(RemoveFirst(R, ip), ip)

\* The elements that are left when the one at n is removed.
LEMMA RemovedAt ==
    ASSUME NEW T, NEW s \in Seq(T), NEW n \in 1 .. Len(s)
    PROVE  /\ RemoveAt(s, n) \in Seq(T)
           /\ Len(RemoveAt(s, n)) = Len(s) - 1
           /\ \A m \in 1 .. Len(s) - 1 : RemoveAt(s, n)[m] = IF m < n THEN s[m] ELSE s[m + 1]
<1> DEFINE a == SubSeq(s, 1, n - 1)
           b == SubSeq(s, n + 1, Len(s))
<1>1. /\ a \in Seq(T) /\ Len(a) = n - 1
      /\ \A m \in 1 .. n - 1 : a[m] = s[m]
  <2>1. 1 \in 1 .. Len(s) + 1 /\ n - 1 \in 1 - 1 .. Len(s)
    OBVIOUS
  <2> QED
    BY <2>1, SubSeqProperties
<1>2. /\ b \in Seq(T) /\ Len(b) = Len(s) - n
      /\ \A m \in 1 .. Len(s) - n : b[m] = s[n + m]
  <2>1. n + 1 \in 1 .. Len(s) + 1 /\ Len(s) \in (n + 1) - 1 .. Len(s)
    OBVIOUS
  <2> QED
    BY <2>1, SubSeqProperties
<1> HIDE DEF a, b
<1>3. /\ a \o b \in Seq(T) /\ Len(a \o b) = Len(s) - 1
      /\ \A m \in 1 .. Len(s) - 1 : (a \o b)[m] = IF m <= n - 1 THEN a[m] ELSE b[m - (n - 1)]
  BY <1>1, <1>2, ConcatProperties
<1>4. ASSUME NEW m \in 1 .. Len(s) - 1
      PROVE  (a \o b)[m] = IF m < n THEN s[m] ELSE s[m + 1]
  <2>1. CASE m < n
    <3>1. m \in 1 .. n - 1 /\ m <= n - 1
      BY <2>1
    <3> QED
      BY <1>1, <1>3, <2>1, <3>1
  <2>2. CASE ~(m < n)
    <3>1. m - (n - 1) \in 1 .. Len(s) - n /\ ~(m <= n - 1) /\ n + (m - (n - 1)) = m + 1
      BY <2>2
    <3> QED
      BY <1>2, <1>3, <2>2, <3>1
  <2> QED
    BY <2>1, <2>2
<1> QED
  BY <1>3, <1>4 DEF RemoveAt, a, b

\* The element at the only place n where it stands.
LEMMA OnlyPlace ==
    ASSUME NEW N \in Nat, NEW n \in 1 .. N, NEW I, I = {m \in 1 .. N : m = n}
    PROVE  I # {} /\ Min(I) = n
<1>1. I = {n}
  OBVIOUS
<1>2. \A x \in I : x = n
  BY <1>1
<1>3. n \in I /\ \A y \in I : n <= y
  BY <1>1
<1>4. \E x \in I : \A y \in I : x <= y
  BY <1>3
<1>5. Min(I) \in I
  BY <1>4 DEF Min
<1> QED
  BY <1>1, <1>2, <1>5

\* RemoveFirst: nothing, when the element is not there; else it is at one place.
LEMMA FirstRemoved ==
    ASSUME NEW T, NEW s \in Seq(T), NEW e
    PROVE  /\ (\A m \in 1 .. Len(s) : s[m] # e) => RemoveFirst(s, e) = s
           /\ \A n \in 1 .. Len(s) :
                 (\A m \in 1 .. Len(s) : s[m] = e <=> m = n)
                     => RemoveFirst(s, e) = RemoveAt(s, n)
<1>1. ASSUME NEW n \in 1 .. Len(s), \A m \in 1 .. Len(s) : s[m] = e <=> m = n
      PROVE  RemoveFirst(s, e) = RemoveAt(s, n)
  <2> DEFINE I == {m \in 1 .. Len(s) : s[m] = e}
  <2>1. I = {m \in 1 .. Len(s) : m = n} /\ Len(s) \in Nat
    BY <1>1
  <2>2. I # {} /\ Min(I) = n
    <3> HIDE DEF I
    <3> QED
      BY <2>1, OnlyPlace
  <2>3. SelectInSeq(s, LAMBDA v : v = e) = n
    BY <2>2 DEF SelectInSeq
  <2> QED
    BY <1>1, <2>3 DEF RemoveFirst
<1> QED
  BY <1>1 DEF RemoveFirst

\* Without: the same for the entry of an address.
LEMMA EntryRemoved ==
    ASSUME NEW c \in Seq(Entries), NEW ip
    PROVE  /\ Geo!Cached(c, ip) = {} => Geo!Without(c, ip) = c
           /\ \A n \in 1 .. Len(c) :
                 (\A m \in 1 .. Len(c) : c[m].ip = ip <=> m = n)
                     => /\ Geo!Without(c, ip) = RemoveAt(c, n)
                        /\ Geo!Cached(c, ip) # {}
                        /\ Geo!Entry(c, ip) = c[n]
<1>0. DOMAIN c = 1 .. Len(c) /\ Len(c) \in Nat
  OBVIOUS
<1>1. ASSUME NEW n \in 1 .. Len(c), \A m \in 1 .. Len(c) : c[m].ip = ip <=> m = n
      PROVE  /\ Geo!Without(c, ip) = RemoveAt(c, n)
             /\ Geo!Cached(c, ip) # {}
             /\ Geo!Entry(c, ip) = c[n]
  <2> DEFINE I == {m \in 1 .. Len(c) : c[m].ip = ip}
  <2>1. I = {m \in 1 .. Len(c) : m = n}
    BY <1>1
  <2>2. I # {} /\ Min(I) = n
    <3> HIDE DEF I
    <3> QED
      BY <1>0, <2>1, OnlyPlace
  <2>3. Geo!SelectInSeq(c, LAMBDA e : e.ip = ip) = n
    BY <2>2 DEF Geo!SelectInSeq, Geo!Min, Min
  <2>4. Geo!Cached(c, ip) = {n}
    BY <1>0, <1>1 DEF Geo!Cached
  <2>5. Geo!Without(c, ip) = RemoveAt(c, n)
    <3>1. Geo!Without(c, ip) = Geo!RemoveAt(c, Geo!SelectInSeq(c, LAMBDA e : e.ip = ip))
      BY <1>1 DEF Geo!Without, Geo!RemoveFirstMatch
    <3> QED
      BY <2>3, <3>1 DEF Geo!RemoveAt, RemoveAt
  <2>6. Geo!Entry(c, ip) = c[n]
    BY <2>4 DEF Geo!Entry
  <2> QED
    BY <2>4, <2>5, <2>6
<1>2. Geo!Cached(c, ip) = {} => Geo!Without(c, ip) = c
  BY <1>0 DEF Geo!Cached, Geo!Without, Geo!RemoveFirstMatch
<1> QED
  BY <1>1, <1>2

\* The cache of a history: its length, its entries, and where an address is.
LEMMA CacheOfFacts ==
    ASSUME NEW R, History(R)
    PROVE  /\ Len(R) \in Nat /\ Bound \in Nat
           /\ Kept(R) \in Nat /\ Kept(R) <= Len(R) /\ Kept(R) <= Bound
           /\ CacheOf(R) \in Seq(Entries)
           /\ Len(CacheOf(R)) = Kept(R)
           /\ \A n \in 1 .. Kept(R) : /\ CacheOf(R)[n] = EntryOf(R[Len(R) - Kept(R) + n])
                                      /\ CacheOf(R)[n].ip = R[Len(R) - Kept(R) + n]
                                      /\ CacheOf(R)[n].place = Place[R[Len(R) - Kept(R) + n]]
                                      /\ Len(R) - Kept(R) + n \in 1 .. Len(R)
<1>1. Len(R) \in Nat
  BY DEF History
<1>2. Bound \in Nat
  BY ApiAssumption DEF Geo!GeoAssumption, Bound
<1>3. Kept(R) \in Nat /\ Kept(R) <= Len(R) /\ Kept(R) <= Bound
  BY <1>1, <1>2 DEF Kept
<1>4. \A n \in 1 .. Kept(R) : Len(R) - Kept(R) + n \in 1 .. Len(R)
  BY <1>1, <1>3
<1>5. \A n \in 1 .. Kept(R) : EntryOf(R[Len(R) - Kept(R) + n]) \in Entries
  <2>1. \A n \in 1 .. Kept(R) : R[Len(R) - Kept(R) + n] \in Geo!Public
    BY <1>4, ElementOfSeq DEF History
  <2>2. \A a \in Geo!Public : Place[a] \in Nat
    BY ApiAssumption DEF Geo!GeoAssumption
  <2> QED
    BY <2>1, <2>2 DEF Entries, EntryOf
<1>6. CacheOf(R) \in [1 .. Kept(R) -> Entries]
  BY <1>5 DEF CacheOf
<1>7. CacheOf(R) \in Seq(Entries) /\ Len(CacheOf(R)) = Kept(R)
  <2> DEFINE c == CacheOf(R)
             k == Kept(R)
  <2>1. c \in [1 .. k -> Entries] /\ k \in Nat
    BY <1>3, <1>6
  <2> HIDE DEF c, k
  <2>2. c \in Seq(Entries) /\ Len(c) = k
    BY <2>1
  <2> QED
    BY <2>2 DEF c, k
<1>8. \A n \in 1 .. Kept(R) : CacheOf(R)[n] = EntryOf(R[Len(R) - Kept(R) + n])
  BY DEF CacheOf
<1> QED
  BY <1>1, <1>2, <1>3, <1>4, <1>7, <1>8 DEF EntryOf

\* The history after the address was used.
LEMMA UsedFacts ==
    ASSUME NEW R, History(R), NEW ip \in Geo!Public \ Damaged
    PROVE  /\ History(Used(R, ip))
           /\ (\A m \in 1 .. Len(R) : R[m] # ip) =>
                 /\ Len(Used(R, ip)) = Len(R) + 1
                 /\ \A m \in 1 .. Len(R) : Used(R, ip)[m] = R[m]
                 /\ Used(R, ip)[Len(R) + 1] = ip
           /\ \A p \in 1 .. Len(R) : R[p] = ip =>
                 /\ Len(Used(R, ip)) = Len(R)
                 /\ \A m \in 1 .. Len(R) - 1 :
                       Used(R, ip)[m] = IF m < p THEN R[m] ELSE R[m + 1]
                 /\ Used(R, ip)[Len(R)] = ip
<1> DEFINE T == Geo!Public \ Damaged
           U == Used(R, ip)
<1>1. R \in Seq(T) /\ Len(R) \in Nat
  BY DEF History
<1>2. \A m \in 1 .. Len(R) : R[m] \in T
  BY <1>1, ElementOfSeq
<1>3. \A m, n \in 1 .. Len(R) : R[m] = R[n] => m = n
  BY DEF History
<1> HIDE DEF T
<1>4. ip \in T
  BY DEF T
<1>5. ASSUME \A m \in 1 .. Len(R) : R[m] # ip
      PROVE  /\ History(U)
             /\ Len(U) = Len(R) + 1
             /\ \A m \in 1 .. Len(R) : U[m] = R[m]
             /\ U[Len(R) + 1] = ip
  <2>1. U = Append(R, ip)
    BY <1>1, <1>5, FirstRemoved DEF Used
  <2>2. /\ U \in Seq(T)
        /\ Len(U) = Len(R) + 1
        /\ \A m \in 1 .. Len(R) : U[m] = R[m]
        /\ U[Len(R) + 1] = ip
    BY <1>1, <1>4, <2>1
  <2> HIDE DEF U
  <2>3. ASSUME NEW m \in 1 .. Len(U), NEW n \in 1 .. Len(U), U[m] = U[n] PROVE m = n
    <3>1. (m \in 1 .. Len(R) \/ m = Len(R) + 1) /\ (n \in 1 .. Len(R) \/ n = Len(R) + 1)
      BY <1>1, <2>2
    <3> QED
      BY <1>3, <1>5, <2>2, <2>3, <3>1
  <2> QED
    BY <2>2, <2>3 DEF History, T
<1>6. ASSUME NEW p \in 1 .. Len(R), R[p] = ip
      PROVE  /\ History(U)
             /\ Len(U) = Len(R)
             /\ \A m \in 1 .. Len(R) - 1 : U[m] = IF m < p THEN R[m] ELSE R[m + 1]
             /\ U[Len(R)] = ip
  <2> DEFINE S == RemoveAt(R, p)
  <2>1. \A m \in 1 .. Len(R) : R[m] = ip <=> m = p
    BY <1>3, <1>6
  <2>2. U = Append(S, ip)
    BY <1>1, <2>1, FirstRemoved DEF Used
  <2>3. /\ S \in Seq(T) /\ Len(S) = Len(R) - 1
        /\ \A m \in 1 .. Len(R) - 1 : S[m] = IF m < p THEN R[m] ELSE R[m + 1]
    BY <1>1, RemovedAt
  <2> HIDE DEF S, U
  <2>4. /\ U \in Seq(T) /\ Len(U) = Len(R)
        /\ \A m \in 1 .. Len(R) - 1 : U[m] = S[m]
        /\ U[Len(R)] = ip
    BY <1>1, <1>4, <2>2, <2>3
  <2>5. \A m \in 1 .. Len(R) - 1 : U[m] = IF m < p THEN R[m] ELSE R[m + 1]
    BY <2>3, <2>4
  <2>6. ASSUME NEW m \in 1 .. Len(U), NEW n \in 1 .. Len(U), U[m] = U[n] PROVE m = n
    <3> DEFINE from(k) == IF k = Len(R) THEN p ELSE IF k < p THEN k ELSE k + 1
    <3>1. \A k \in 1 .. Len(R) : from(k) \in 1 .. Len(R) /\ U[k] = R[from(k)]
      BY <1>1, <1>6, <2>4, <2>5
    <3>2. from(m) = from(n)
      <4>1. m \in 1 .. Len(R) /\ n \in 1 .. Len(R)
        BY <2>4
      <4> HIDE DEF from
      <4>2. /\ from(m) \in 1 .. Len(R) /\ U[m] = R[from(m)]
            /\ from(n) \in 1 .. Len(R) /\ U[n] = R[from(n)]
        BY <3>1, <4>1
      <4> QED
        BY <1>3, <2>6, <4>2
    <3> QED
      BY <1>1, <2>4, <3>2
  <2> QED
    BY <2>4, <2>5, <2>6 DEF History, T
<1>7. History(U)
  <2> HIDE DEF U
  <2> QED
    BY <1>5, <1>6
<1> QED
  BY <1>5, <1>6, <1>7

\* Two caches are the same when they have the same length and the same entries.
LEMMA SameCache ==
    ASSUME NEW U, History(U), NEW c \in Seq(Entries), Len(c) = Kept(U),
           \A m \in 1 .. Kept(U) : c[m] = EntryOf(U[Len(U) - Kept(U) + m])
    PROVE  c = CacheOf(U)
<1>1. /\ CacheOf(U) \in Seq(Entries) /\ Len(CacheOf(U)) = Kept(U) /\ Kept(U) \in Nat
      /\ \A n \in 1 .. Kept(U) : CacheOf(U)[n] = EntryOf(U[Len(U) - Kept(U) + n])
  BY CacheOfFacts
<1> QED
  BY <1>1, SeqEqual

\* move_to_end: the address was one of the last.
LEMMA HitStep ==
    ASSUME NEW R, History(R), NEW ip \in Geo!Public \ Damaged,
           NEW p \in 1 .. Len(R), R[p] = ip, p > Len(R) - Kept(R)
    PROVE  /\ Geo!Cached(CacheOf(R), ip) # {}
           /\ Geo!Entry(CacheOf(R), ip) = EntryOf(ip)
           /\ Geo!Touched(CacheOf(R), ip) = CacheOf(Used(R, ip))
<1> DEFINE c == CacheOf(R)
           k == Kept(R)
           d == Len(R) - k
           U == Used(R, ip)
<1>1. /\ Len(R) \in Nat /\ k \in Nat /\ k <= Len(R) /\ d \in Nat
      /\ c \in Seq(Entries) /\ Len(c) = k
      /\ \A m \in 1 .. k : c[m] = EntryOf(R[d + m]) /\ c[m].ip = R[d + m] /\ d + m \in 1 .. Len(R)
  BY CacheOfFacts
<1>2. \A m, j \in 1 .. Len(R) : R[m] = R[j] => m = j
  BY DEF History
<1>3. /\ History(U) /\ Len(U) = Len(R) /\ U[Len(R)] = ip
      /\ \A m \in 1 .. Len(R) - 1 : U[m] = IF m < p THEN R[m] ELSE R[m + 1]
  BY UsedFacts
<1>4. Kept(U) = k
  BY <1>3 DEF Kept
<1>5. PICK n \in 1 .. k : d + n = p
  <2>1. p - d \in 1 .. k /\ d + (p - d) = p
    <3> HIDE DEF k
    <3>1. Len(R) \in Nat /\ k \in Nat /\ k <= Len(R) /\ p \in 1 .. Len(R) /\ p > Len(R) - k
      BY <1>1 DEF k
    <3> QED
      BY ONLY <3>1
  <2> QED
    BY <2>1
<1> DEFINE S == RemoveAt(c, n)
<1> HIDE DEF c, k, U, d
<1>6. \A m \in 1 .. Len(c) : c[m].ip = ip <=> m = n
  <2>1. \A m \in 1 .. k : d + m = d + n => m = n
    BY <1>1
  <2> QED
    BY <1>1, <1>2, <1>5, <2>1
<1>7. /\ Geo!Without(c, ip) = S
      /\ Geo!Cached(c, ip) # {}
      /\ Geo!Entry(c, ip) = c[n]
  BY <1>1, <1>5, <1>6, EntryRemoved
<1>8. c[n] = EntryOf(ip) /\ c[n] \in Entries
  BY <1>1, <1>5, ElementOfSeq
<1>9. /\ S \in Seq(Entries) /\ Len(S) = k - 1
      /\ \A m \in 1 .. k - 1 : S[m] = IF m < n THEN c[m] ELSE c[m + 1]
  BY <1>1, <1>5, RemovedAt
<1> HIDE DEF S
<1> DEFINE t == Append(S, EntryOf(ip))
<1>10. /\ t \in Seq(Entries) /\ Len(t) = k
       /\ \A m \in 1 .. k - 1 : t[m] = S[m]
       /\ t[k] = EntryOf(ip)
  <2> DEFINE e == EntryOf(ip)
  <2>1. e \in Entries
    BY <1>8
  <2> HIDE DEF e
  <2>2. /\ Append(S, e) \in Seq(Entries) /\ Len(Append(S, e)) = k
        /\ \A m \in 1 .. k - 1 : Append(S, e)[m] = S[m]
        /\ Append(S, e)[k] = e
    BY <1>1, <1>5, <1>9, <2>1, AppendProperties
  <2> QED
    BY <2>2 DEF e
<1> HIDE DEF t
<1>11. ASSUME NEW m \in 1 .. k PROVE t[m] = EntryOf(U[d + m])
  <2>1. CASE m = k
    <3>1. d + m = Len(R)
      BY <1>1, <2>1 DEF d
    <3> QED
      BY <1>3, <1>10, <2>1, <3>1
  <2>2. CASE m # k
    <3>1. m \in 1 .. k - 1 /\ m + 1 \in 1 .. k /\ d + m \in 1 .. Len(R) - 1
      BY <1>1, <2>2 DEF d
    <3>2. t[m] = IF m < n THEN c[m] ELSE c[m + 1]
      BY <1>9, <1>10, <3>1
    <3>3. U[d + m] = IF d + m < p THEN R[d + m] ELSE R[d + m + 1]
      BY <1>3, <3>1
    <3>4. m < n <=> d + m < p
      BY <1>1, <1>5
    <3>5. c[m] = EntryOf(R[d + m]) /\ c[m + 1] = EntryOf(R[d + (m + 1)])
      BY <1>1, <3>1
    <3>6. d + (m + 1) = d + m + 1
      BY <1>1
    <3> QED
      BY <3>2, <3>3, <3>4, <3>5, <3>6
  <2> QED
    BY <2>1, <2>2
<1>12. t = CacheOf(U)
  BY <1>1, <1>3, <1>4, <1>10, <1>11, SameCache DEF d
<1> QED
  BY <1>7, <1>8, <1>12 DEF Geo!Touched, c, U, t

\* _cache_put: the address was not one of the last.
LEMMA MissStep ==
    ASSUME NEW R, History(R), NEW ip \in Geo!Public \ Damaged,
           \A p \in 1 .. Len(R) : R[p] = ip => p <= Len(R) - Kept(R)
    PROVE  Geo!CachePut(CacheOf(R), ip, Place[ip]) = CacheOf(Used(R, ip))
<1> DEFINE c == CacheOf(R)
           k == Kept(R)
           d == Len(R) - k
           U == Used(R, ip)
<1>1. /\ Len(R) \in Nat /\ k \in Nat /\ k <= Len(R) /\ d \in Nat
      /\ c \in Seq(Entries) /\ Len(c) = k
      /\ \A m \in 1 .. k : c[m] = EntryOf(R[d + m]) /\ c[m].ip = R[d + m] /\ d + m \in 1 .. Len(R)
  BY CacheOfFacts
<1>2. History(U)
  BY UsedFacts
<1>3. /\ Len(U) \in Nat /\ Len(U) >= k + 1 /\ U[Len(U)] = ip
      /\ k = Len(R) => Len(U) = k + 1
      /\ \A m \in 1 .. k : U[Len(U) - 1 - k + m] = R[d + m]
  <2>1. CASE \A m \in 1 .. Len(R) : R[m] # ip
    <3>1. /\ Len(U) = Len(R) + 1
          /\ \A m \in 1 .. Len(R) : U[m] = R[m]
          /\ U[Len(R) + 1] = ip
      BY <2>1, UsedFacts
    <3>2. \A m \in 1 .. k : Len(U) - 1 - k + m = d + m
      BY <1>1, <3>1
    <3> HIDE DEF U, k
    <3> QED
      BY <1>1, <3>1, <3>2
  <2>2. CASE \E p \in 1 .. Len(R) : R[p] = ip
    <3>1. PICK p \in 1 .. Len(R) : R[p] = ip
      BY <2>2
    <3>2. /\ Len(U) = Len(R) /\ U[Len(R)] = ip
          /\ \A m \in 1 .. Len(R) - 1 : U[m] = IF m < p THEN R[m] ELSE R[m + 1]
      BY <3>1, UsedFacts
    <3>3. p <= d
      BY <3>1
    <3> HIDE DEF U, k
    <3>4. ASSUME NEW m \in 1 .. k PROVE U[Len(U) - 1 - k + m] = R[d + m]
      <4> DEFINE j == Len(U) - 1 - k + m
      <4>1. j = d + m - 1
        BY <1>1, <3>2
      <4>2. j \in 1 .. Len(R) - 1 /\ ~(j < p) /\ j + 1 = d + m
        BY <1>1, <3>3, <4>1
      <4> HIDE DEF j
      <4>3. U[j] = R[j + 1]
        BY <3>2, <4>2
      <4> QED
        BY <4>2, <4>3 DEF j
    <3> QED
      BY <1>1, <3>2, <3>3, <3>4
  <2> QED
    BY <2>1, <2>2
<1>4. Bound \in Nat /\ CacheSize \in Int /\ k = IF Len(R) > Bound THEN Bound ELSE Len(R)
  BY CacheOfFacts, ApiAssumption DEF Geo!GeoAssumption, Kept
<1>5. Kept(U) = IF Len(U) > Bound THEN Bound ELSE Len(U)
  BY DEF Kept
<1>6. Geo!Without(c, ip) = c
  <2>1. \A m \in 1 .. k : c[m].ip # ip
    <3> HIDE DEF k
    <3>1. \A m \in 1 .. k : d + m \in 1 .. Len(R) /\ ~(d + m <= d)
      BY <1>1
    <3> QED
      BY <1>1, <3>1 DEF k
  <2> HIDE DEF c, k
  <2>2. DOMAIN c = 1 .. Len(c)
    BY <1>1
  <2>3. Geo!Cached(c, ip) = {}
    BY <1>1, <2>1, <2>2 DEF Geo!Cached
  <2> QED
    BY <1>1, <2>3, EntryRemoved
<1> HIDE DEF c, k, U
<1> DEFINE e == [ip |-> ip, place |-> Place[ip]]
           all == Append(c, e)
<1>7. e \in Entries /\ e = EntryOf(ip)
  BY ApiAssumption DEF Geo!GeoAssumption, Entries, EntryOf
<1> HIDE DEF e
<1>8. /\ all \in Seq(Entries) /\ Len(all) = k + 1
      /\ \A m \in 1 .. k : all[m] = c[m]
      /\ all[k + 1] = e
  BY <1>1, <1>7, AppendProperties
<1> HIDE DEF all
<1>9. Geo!CachePut(c, ip, Place[ip]) =
          IF CacheSize <= 0 THEN c
          ELSE IF Len(all) <= CacheSize THEN all
          ELSE SubSeq(all, Len(all) - CacheSize + 1, Len(all))
  BY <1>6 DEF Geo!CachePut, all, e
\* What the cache has of the history when one more fits, and when it is full.
<1>10. ASSUME NEW m \in 1 .. k + 1 PROVE all[m] = EntryOf(U[Len(U) - 1 - k + m])
  <2>1. CASE m = k + 1
    <3>1. Len(U) - 1 - k + m = Len(U)
      BY <1>1, <1>3, <2>1
    <3> QED
      BY <1>3, <1>7, <1>8, <2>1, <3>1
  <2>2. CASE m \in 1 .. k
    BY <1>1, <1>3, <1>8, <2>2
  <2> QED
    BY <1>1, <2>1, <2>2
<1>11. CASE CacheSize <= 0
  <2>1. k = 0 /\ Kept(U) = 0
    BY <1>1, <1>3, <1>4, <1>5, <1>11 DEF Bound
  <2>2. \A m \in 1 .. Kept(U) : FALSE
    BY <2>1
  <2>3. c = CacheOf(U)
    BY <1>1, <1>2, <2>1, <2>2, SameCache
  <2> QED
    BY <1>9, <1>11, <2>3 DEF c, U
<1>12. CASE CacheSize > 0 /\ k + 1 <= CacheSize
  <2>1. Kept(U) = k + 1 /\ Len(U) = k + 1
    BY <1>1, <1>3, <1>4, <1>5, <1>12 DEF Bound
  <2>2. \A m \in 1 .. k + 1 : Len(U) - 1 - k + m = Len(U) - Kept(U) + m
    BY <1>1, <2>1
  <2>3. all = CacheOf(U)
    BY <1>2, <1>8, <1>10, <2>1, <2>2, SameCache
  <2> QED
    <3>1. ~(CacheSize <= 0) /\ Len(all) <= CacheSize
      BY <1>4, <1>8, <1>12
    <3> QED
      BY <1>9, <2>3, <3>1 DEF c, U
<1>13. CASE CacheSize > 0 /\ ~(k + 1 <= CacheSize)
  <2>1. k = CacheSize /\ Kept(U) = k /\ k > 0
    BY <1>1, <1>3, <1>4, <1>5, <1>13 DEF Bound
  <2> DEFINE t == SubSeq(all, 2, k + 1)
  <2>2. Geo!CachePut(c, ip, Place[ip]) = t
    <3>1. Len(all) - CacheSize + 1 = 2
      BY <1>1, <1>8, <2>1
    <3> QED
      <4>1. ~(CacheSize <= 0) /\ ~(Len(all) <= CacheSize)
        BY <1>4, <1>8, <1>13
      <4> QED
        BY <1>8, <1>9, <3>1, <4>1
  <2>3. /\ t \in Seq(Entries) /\ Len(t) = k
        /\ \A m \in 1 .. k : t[m] = all[m + 1]
    <3>1. 2 \in 1 .. Len(all) + 1 /\ k + 1 \in 2 - 1 .. Len(all) /\ (k + 1) - 2 + 1 = k
      BY <1>1, <1>8, <2>1
    <3>2. /\ t \in Seq(Entries) /\ Len(t) = (k + 1) - 2 + 1
          /\ \A m \in 1 .. (k + 1) - 2 + 1 : t[m] = all[2 + m - 1]
      BY <1>8, <3>1, SubSeqProperties
    <3>3. \A m \in 1 .. k : 2 + m - 1 = m + 1
      BY <1>1
    <3> HIDE DEF t
    <3> QED
      BY <3>1, <3>2, <3>3
  <2> HIDE DEF t
  <2>4. \A m \in 1 .. k : /\ m + 1 \in 1 .. k + 1
                         /\ Len(U) - 1 - k + (m + 1) = Len(U) - Kept(U) + m
    BY <1>1, <1>3, <2>1
  <2>5. \A m \in 1 .. k : t[m] = EntryOf(U[Len(U) - Kept(U) + m])
    BY <1>10, <2>3, <2>4
  <2>6. t = CacheOf(U)
    BY <1>2, <2>1, <2>3, <2>5, SameCache
  <2> QED
    BY <2>2, <2>6 DEF c, U
<1>14. CacheSize <= 0 \/ CacheSize > 0
  BY <1>4
<1> QED
  BY <1>11, <1>12, <1>13, <1>14

\* resolve: a place that does not depend on the cache, and the history that
\* the cache has afterwards.
LEMMA ResolutionFacts ==
    ASSUME NEW R, History(R), NEW ip
    PROVE  /\ ~(Geo!Usable /\ ip \in Geo!Public) =>
                  Geo!Resolution(CacheOf(R), ip) =
                      [place |-> Unresolved, cache |-> CacheOf(R), raises |-> FALSE]
           /\ Geo!Usable /\ ip \in Damaged =>
                  Geo!Resolution(CacheOf(R), ip) =
                      [place |-> Unresolved, cache |-> CacheOf(R), raises |-> TRUE]
           /\ Geo!Usable /\ ip \in Geo!Public \ Damaged =>
                  Geo!Resolution(CacheOf(R), ip) =
                      [place |-> Place[ip], cache |-> CacheOf(Used(R, ip)), raises |-> FALSE]
<1> DEFINE c == CacheOf(R)
           k == Kept(R)
           d == Len(R) - k
<1>1. /\ Len(R) \in Nat /\ k \in Nat
      /\ c \in Seq(Entries) /\ Len(c) = k
      /\ \A m \in 1 .. k : c[m].ip = R[d + m] /\ d + m \in 1 .. Len(R)
  BY CacheOfFacts
<1>2. \A m \in 1 .. Len(R) : R[m] \in Geo!Public \ Damaged
  BY <1>1, ElementOfSeq DEF History
<1>3. DOMAIN c = 1 .. k
  BY <1>1
<1>4. Damaged \subseteq Geo!Public
  BY ApiAssumption DEF Geo!GeoAssumption
<1>5. CASE ~(Geo!Usable /\ ip \in Geo!Public)
  BY <1>4, <1>5 DEF Geo!Resolution
<1>6. CASE Geo!Usable /\ ip \in Damaged
  <2>1. Geo!Cached(c, ip) = {}
    <3> HIDE DEF c, k, d
    <3> QED
      BY <1>1, <1>2, <1>3, <1>6 DEF Geo!Cached
  <2> QED
    BY <1>4, <1>6, <2>1 DEF Geo!Resolution
<1>7. CASE Geo!Usable /\ ip \in Geo!Public \ Damaged
  <2>1. CASE \E p \in 1 .. Len(R) : R[p] = ip /\ p > Len(R) - Kept(R)
    <3>1. /\ Geo!Cached(c, ip) # {}
          /\ Geo!Entry(c, ip) = EntryOf(ip)
          /\ Geo!Touched(c, ip) = CacheOf(Used(R, ip))
      BY <1>7, <2>1, HitStep
    <3>2. Geo!Entry(c, ip).place = Place[ip]
      BY <3>1 DEF EntryOf
    <3> HIDE DEF c
    <3>3. Geo!Resolution(c, ip) =
              [place |-> Place[ip], cache |-> CacheOf(Used(R, ip)), raises |-> FALSE]
      BY <1>7, <3>1, <3>2 DEF Geo!Resolution
    <3> QED
      BY <1>7, <3>3 DEF c
  <2>2. CASE ~ \E p \in 1 .. Len(R) : R[p] = ip /\ p > Len(R) - Kept(R)
    <3>1. \A p \in 1 .. Len(R) : R[p] = ip => p <= Len(R) - Kept(R)
      BY <1>1, <2>2
    <3>2. Geo!CachePut(c, ip, Place[ip]) = CacheOf(Used(R, ip))
      BY <1>7, <3>1, MissStep
    <3>3. Geo!Cached(c, ip) = {}
      <4>1. \A m \in 1 .. k : d + m > Len(R) - Kept(R)
        BY <1>1
      <4>2. \A m \in 1 .. k : R[d + m] # ip
        BY <1>1, <2>2, <4>1
      <4> HIDE DEF c, k, d
      <4> QED
        BY <1>1, <1>3, <4>2 DEF Geo!Cached
    <3> HIDE DEF c
    <3>4. Geo!Resolution(c, ip) =
              [place |-> Place[ip], cache |-> CacheOf(Used(R, ip)), raises |-> FALSE]
      BY <1>7, <3>2, <3>3 DEF Geo!Resolution
    <3> QED
      BY <1>7, <3>4 DEF c
  <2> QED
    BY <2>1, <2>2
<1> QED
  BY <1>4, <1>5, <1>6, <1>7

-----------------------------------------------------------------------------
(* ResolveAll: the fold, taken one address at a time.                      *)

Start == [places |-> <<>>, cache |-> cache, raises |-> FALSE, recent |-> recent]

\* g satisfies the recursion of the fold on the sets of the first k indices.
FoldEquation(g, ips, k) ==
    \A s \in SUBSET (1 .. k) :
        g[s] = IF s = {} THEN Start
               ELSE Geo!ResolveNext(g[s \ {Geo!Max(s)}], ips[Geo!Max(s)])

\* The last of the indices up to k.
LEMMA LastIndex ==
    ASSUME NEW k \in Nat, NEW s \in SUBSET (1 .. k), k \in s
    PROVE  Geo!Max(s) = k
<1>1. \A y \in s : k >= y
  OBVIOUS
<1>2. Geo!Max(s) \in s /\ \A y \in s : Geo!Max(s) >= y
  BY <1>1 DEF Geo!Max
<1> HIDE DEF Geo!Max
<1> DEFINE m == Geo!Max(s)
<1>3. m >= k /\ k >= m /\ m \in 1 .. k
  BY <1>1, <1>2
<1> HIDE DEF m
<1>4. m = k
  BY <1>3
<1> QED
  BY <1>4 DEF m

\* The function the fold is defined by, on all sets of indices.
LEMMA FoldExists ==
    ASSUME NEW ips, NEW N \in Nat
    PROVE  \E g : g = [s \in SUBSET (1 .. N) |-> g[s]] /\ FoldEquation(g, ips, N)
<1> DEFINE P(k) == \E g : g = [s \in SUBSET (1 .. k) |-> g[s]] /\ FoldEquation(g, ips, k)
           Without == {k \in Nat : ~P(k)}
<1>1. P(0)
  <2> DEFINE g == [s \in SUBSET (1 .. 0) |-> Start]
  <2>1. \A s \in SUBSET (1 .. 0) : s = {} /\ g[s] = Start
    OBVIOUS
  <2>2. g = [s \in SUBSET (1 .. 0) |-> g[s]]
    OBVIOUS
  <2> HIDE DEF g
  <2>3. FoldEquation(g, ips, 0)
    BY <2>1 DEF FoldEquation
  <2> QED
    BY <2>2, <2>3
<1>2. ASSUME NEW k \in Nat, P(k) PROVE P(k + 1)
  <2>1. PICK f : f = [s \in SUBSET (1 .. k) |-> f[s]] /\ FoldEquation(f, ips, k)
    BY <1>2
  <2> DEFINE g == [s \in SUBSET (1 .. k + 1) |->
                      IF k + 1 \in s THEN Geo!ResolveNext(f[s \ {k + 1}], ips[k + 1])
                      ELSE f[s]]
  <2>2. g = [s \in SUBSET (1 .. k + 1) |-> g[s]]
    OBVIOUS
  <2>3. \A s \in SUBSET (1 .. k + 1) :
            g[s] = IF k + 1 \in s THEN Geo!ResolveNext(f[s \ {k + 1}], ips[k + 1]) ELSE f[s]
    OBVIOUS
  <2> HIDE DEF g
  <2>4. \A s \in SUBSET (1 .. k) : s \in SUBSET (1 .. k + 1) /\ k + 1 \notin s
    OBVIOUS
  <2>5. \A s \in SUBSET (1 .. k) : g[s] = f[s]
    BY <2>3, <2>4
  <2>6. ASSUME NEW s \in SUBSET (1 .. k + 1)
        PROVE  g[s] = IF s = {} THEN Start
                      ELSE Geo!ResolveNext(g[s \ {Geo!Max(s)}], ips[Geo!Max(s)])
    <3>1. CASE k + 1 \in s
      <4>1. Geo!Max(s) = k + 1
        BY <3>1, LastIndex
      <4>2. s \ {k + 1} \in SUBSET (1 .. k)
        OBVIOUS
      <4>3. g[s] = Geo!ResolveNext(g[s \ {k + 1}], ips[k + 1])
        BY <2>3, <2>5, <3>1, <4>2
      <4> QED
        BY <3>1, <4>1, <4>3
    <3>2. CASE k + 1 \notin s
      <4>1. s \in SUBSET (1 .. k) /\ s \ {Geo!Max(s)} \in SUBSET (1 .. k)
        <5>1. \A x \in s : x \in 1 .. k + 1 /\ x # k + 1
          BY <3>2
        <5>2. \A x \in s : x \in 1 .. k
          BY <5>1
        <5> QED
          BY <5>2
      <4>2. f[s] = IF s = {} THEN Start
                   ELSE Geo!ResolveNext(f[s \ {Geo!Max(s)}], ips[Geo!Max(s)])
        BY <2>1, <4>1 DEF FoldEquation
      <4>3. g[s] = f[s] /\ g[s \ {Geo!Max(s)}] = f[s \ {Geo!Max(s)}]
        BY <2>5, <4>1
      <4> QED
        BY <4>2, <4>3
    <3> QED
      BY <3>1, <3>2
  <2>7. FoldEquation(g, ips, k + 1)
    BY <2>6 DEF FoldEquation
  <2> QED
    BY <2>2, <2>7
<1> HIDE DEF P
<1> SUFFICES ASSUME ~P(N) PROVE FALSE
  BY DEF P
<1>3. PICK m \in Without : \A k \in Without : m <= k
  <2>1. Without # {} /\ Without \in SUBSET Nat
    OBVIOUS
  <2> HIDE DEF Without
  <2> QED
    BY <2>1, LeastNumber
<1>4. m \in Nat /\ ~P(m) /\ m # 0
  BY <1>1, <1>3
<1>5. m - 1 \in Nat /\ (m - 1) + 1 = m
  BY <1>4
<1>6. ~P(m - 1)
  BY <1>2, <1>4, <1>5
<1> QED
  BY <1>3, <1>4, <1>5, <1>6

\* One address after the other.
LEMMA FoldSteps ==
    ASSUME NEW ips, NEW N \in Nat, DOMAIN ips = 1 .. N
    PROVE  \E acc : /\ acc[0] = Start
                    /\ \A k \in 1 .. N : acc[k] = Geo!ResolveNext(acc[k - 1], ips[k])
                    /\ Geo!ResolveAll(ips) = acc[N]
<1> DEFINE Eq(g) == g = [s \in SUBSET (1 .. N) |->
                            IF s = {} THEN Start
                            ELSE Geo!ResolveNext(g[s \ {Geo!Max(s)}], ips[Geo!Max(s)])]
           h == CHOOSE h : Eq(h)
<1>1. \E g : Eq(g)
  <2>1. PICK g : g = [s \in SUBSET (1 .. N) |-> g[s]] /\ FoldEquation(g, ips, N)
    BY FoldExists
  <2>2. Eq(g)
    BY <2>1 DEF FoldEquation
  <2> QED
    BY <2>2
<1>2. Eq(h)
  BY <1>1
<1>3. Geo!ResolveAll(ips) = h[1 .. N]
  BY DEF Geo!ResolveAll, Geo!FoldLeft, Geo!MapThenFoldSet, Start
<1> HIDE DEF h
<1> DEFINE acc == [k \in 0 .. N |-> h[1 .. k]]
<1>4. acc[0] = Start
  <2>1. 1 .. 0 = {} /\ {} \in SUBSET (1 .. N) /\ 0 \in 0 .. N
    OBVIOUS
  <2>2. h[{}] = Start
    BY <1>2, <2>1
  <2> QED
    BY <2>1, <2>2
<1>5. ASSUME NEW k \in 1 .. N PROVE acc[k] = Geo!ResolveNext(acc[k - 1], ips[k])
  <2> DEFINE s == 1 .. k
  <2>1. s \in SUBSET (1 .. N) /\ s # {} /\ k \in s /\ k \in Nat /\ s \in SUBSET (1 .. k)
    OBVIOUS
  <2>2. Geo!Max(s) = k
    <3> HIDE DEF s
    <3> QED
      BY <2>1, LastIndex
  <2>3. s \ {k} = 1 .. k - 1 /\ k \in 0 .. N /\ k - 1 \in 0 .. N
    OBVIOUS
  <2>4. h[s] = Geo!ResolveNext(h[s \ {Geo!Max(s)}], ips[Geo!Max(s)])
    BY <1>2, <2>1
  <2>5. acc[k] = h[s] /\ acc[k - 1] = h[1 .. k - 1]
    BY <2>3
  <2> QED
    BY <2>2, <2>3, <2>4, <2>5
<1>6. acc[N] = h[1 .. N]
  OBVIOUS
<1> QED
  BY <1>3, <1>4, <1>5, <1>6

\* What the database says: a number.
LEMMA PlaceTyped == \A ip : PlaceOf(ip) \in Nat
BY ApiAssumption DEF Geo!GeoAssumption, PlaceOf

Undecodable(ip) == Geo!Usable /\ ip \in Damaged

\* The first k addresses have been resolved.
ResolvedSoFar(a, ips, k) ==
    /\ History(a.recent)
    /\ a.cache = CacheOf(a.recent)
    /\ a.raises \in BOOLEAN
    /\ a.raises => \E m \in 1 .. k : Undecodable(ips[m])
    /\ ~a.raises =>
          /\ a.places \in Seq(Nat) /\ Len(a.places) = k
          /\ \A m \in 1 .. k : a.places[m] = PlaceOf(ips[m]) /\ ~Undecodable(ips[m])

\* The resolver's own copy of the library removes the same.
LEMMA SameRemoval == \A R, ip : Append(Geo!RemoveFirst(R, ip), ip) = Used(R, ip)
BY DEF Geo!RemoveFirst, RemoveFirst, Geo!SelectInSeq, SelectInSeq, Geo!RemoveAt, RemoveAt,
       Geo!Min, Min, Used

\* One address more.
LEMMA NextResolved ==
    ASSUME NEW a, NEW ips, NEW k \in Nat \ {0}, ResolvedSoFar(a, ips, k - 1)
    PROVE  ResolvedSoFar(Geo!ResolveNext(a, ips[k]), ips, k)
<1> DEFINE ip == ips[k]
           b == Geo!ResolveNext(a, ip)
           r == Geo!Resolution(a.cache, ip)
<1>1. CASE a.raises
  <2>1. b = a
    BY <1>1 DEF Geo!ResolveNext
  <2>2. \A m \in 1 .. k - 1 : m \in 1 .. k
    OBVIOUS
  <2> HIDE DEF b
  <2> QED
    BY <1>1, <2>1, <2>2 DEF ResolvedSoFar, b
<1>2. CASE ~a.raises
  <2>1. /\ History(a.recent) /\ a.cache = CacheOf(a.recent)
        /\ a.places \in Seq(Nat) /\ Len(a.places) = k - 1
        /\ \A m \in 1 .. k - 1 : a.places[m] = PlaceOf(ips[m]) /\ ~Undecodable(ips[m])
    BY <1>2 DEF ResolvedSoFar
  <2>2. Damaged \subseteq Geo!Public
    BY ApiAssumption DEF Geo!GeoAssumption
  <2>3. CASE Undecodable(ip)
    <3>1. r = [place |-> Unresolved, cache |-> a.cache, raises |-> TRUE]
      BY <2>1, <2>3, ResolutionFacts DEF Undecodable
    <3> HIDE DEF r, ip
    <3>2. b.cache = a.cache /\ b.raises = TRUE /\ b.recent = a.recent
      BY <1>2, <3>1 DEF Geo!ResolveNext, r
    <3> HIDE DEF b
    <3>3. k \in 1 .. k /\ Undecodable(ips[k])
      BY <2>3 DEF ip
    <3>4. ResolvedSoFar(b, ips, k)
      BY <2>1, <3>2, <3>3 DEF ResolvedSoFar
    <3> QED
      BY <3>4 DEF ip, b
  \* One place more.
  <2>4. ASSUME NEW R, History(R), ~Undecodable(ip), b.cache = CacheOf(R), b.recent = R,
               b.raises = FALSE, b.places = Append(a.places, PlaceOf(ip))
        PROVE  ResolvedSoFar(b, ips, k)
    <3>1. PlaceOf(ip) \in Nat
      BY PlaceTyped
    <3> DEFINE place == PlaceOf(ip)
    <3> HIDE DEF place, b
    <3>2. /\ b.places \in Seq(Nat) /\ Len(b.places) = k
          /\ \A m \in 1 .. k - 1 : b.places[m] = a.places[m]
          /\ b.places[k] = place
      BY <2>1, <2>4, <3>1, AppendProperties DEF place
    <3>3. \A m \in 1 .. k : m = k \/ m \in 1 .. k - 1
      OBVIOUS
    <3>4. \A m \in 1 .. k : b.places[m] = PlaceOf(ips[m]) /\ ~Undecodable(ips[m])
      BY <2>1, <2>4, <3>2, <3>3 DEF place
    <3> QED
      BY <2>4, <3>2, <3>4 DEF ResolvedSoFar
  <2>5. CASE ~(Geo!Usable /\ ip \in Geo!Public)
    <3>1. r = [place |-> Unresolved, cache |-> a.cache, raises |-> FALSE]
      BY <2>1, <2>5, ResolutionFacts
    <3>2. PlaceOf(ip) = Unresolved /\ ~Undecodable(ip)
      BY <2>2, <2>5 DEF PlaceOf, Undecodable
    <3> HIDE DEF r, ip
    <3>3. /\ b.cache = a.cache /\ b.raises = FALSE /\ b.recent = a.recent
          /\ b.places = Append(a.places, Unresolved)
      BY <1>2, <2>5, <3>1 DEF Geo!ResolveNext, r
    <3> HIDE DEF b
    <3>4. ResolvedSoFar(b, ips, k)
      BY <2>1, <2>4, <3>2, <3>3
    <3> QED
      BY <3>4 DEF ip, b
  <2>6. CASE Geo!Usable /\ ip \in Geo!Public \ Damaged
    <3>1. r = [place |-> Place[ip], cache |-> CacheOf(Used(a.recent, ip)), raises |-> FALSE]
      BY <2>1, <2>6, ResolutionFacts
    <3>2. PlaceOf(ip) = Place[ip] /\ ~Undecodable(ip) /\ History(Used(a.recent, ip))
      BY <2>1, <2>6, UsedFacts DEF PlaceOf, Undecodable
    <3> HIDE DEF r, ip
    <3>3. /\ b.cache = CacheOf(Used(a.recent, ip)) /\ b.raises = FALSE
          /\ b.recent = Used(a.recent, ip)
          /\ b.places = Append(a.places, Place[ip])
      BY <1>2, <2>6, <3>1, SameRemoval DEF Geo!ResolveNext, r
    <3> HIDE DEF b
    <3>4. ResolvedSoFar(b, ips, k)
      BY <2>4, <3>2, <3>3
    <3> QED
      BY <3>4 DEF ip, b
  <2> QED
    BY <2>2, <2>3, <2>5, <2>6 DEF Undecodable
<1> QED
  BY <1>1, <1>2 DEF ResolvedSoFar

\* resolve in a loop: the places of the database, up to the first address
\* that cannot be decoded.
LEMMA AllResolved ==
    ASSUME GeoInv, NEW ips, NEW N \in Nat, DOMAIN ips = 1 .. N
    PROVE  ResolvedSoFar(Geo!ResolveAll(ips), ips, N)
<1>1. PICK acc : /\ acc[0] = Start
                 /\ \A k \in 1 .. N : acc[k] = Geo!ResolveNext(acc[k - 1], ips[k])
                 /\ Geo!ResolveAll(ips) = acc[N]
  BY FoldSteps
<1> DEFINE Missing == {k \in Nat : k <= N /\ ~ResolvedSoFar(acc[k], ips, k)}
<1>2. ResolvedSoFar(acc[0], ips, 0)
  <2>1. Start.places \in Seq(Nat) /\ Len(Start.places) = 0 /\ Start.raises = FALSE
        /\ Start.cache = cache /\ Start.recent = recent
    BY EmptySeq DEF Start
  <2>2. \A m \in 1 .. 0 : FALSE
    OBVIOUS
  <2> QED
    BY <1>1, <2>1, <2>2 DEF GeoInv, ResolvedSoFar
<1> SUFFICES ASSUME ~ResolvedSoFar(acc[N], ips, N) PROVE FALSE
  BY <1>1
<1>3. PICK m \in Missing : \A k \in Missing : m <= k
  <2>1. Missing # {} /\ Missing \in SUBSET Nat
    OBVIOUS
  <2> HIDE DEF Missing
  <2> QED
    BY <2>1, LeastNumber
<1>4. m \in Nat \ {0} /\ m <= N /\ ~ResolvedSoFar(acc[m], ips, m)
  BY <1>2, <1>3
<1>5. m - 1 \in Nat /\ m - 1 <= N /\ ~(m <= m - 1) /\ m \in 1 .. N
  BY <1>4
<1>6. ResolvedSoFar(acc[m - 1], ips, m - 1)
  BY <1>3, <1>5
<1>7. acc[m] = Geo!ResolveNext(acc[m - 1], ips[m])
  BY <1>1, <1>5
<1> QED
  BY <1>4, <1>6, <1>7, NextResolved

\* What the steps do to the resolver.
LEMMA GeoSteps ==
    ASSUME RequestTyped, [Next]_vars
    PROVE  \/ UNCHANGED geoVars
           \/ Geo!Close
           \/ \E s : \E N \in Nat : DOMAIN s = 1 .. N /\ Geo!Resolve(s)
<1>1. CASE IpGeo
  <2>1. Geo!Resolve(<<request.ip>>)
    BY <1>1 DEF IpGeo, Resolved
  <2>2. DOMAIN <<request.ip>> = 1 .. 1
    OBVIOUS
  <2> QED
    BY <2>1, <2>2
<1>2. ASSUME NEW limit, NEW s \in TopIPs(InPeriod, limit), Geo!Resolve(s)
      PROVE  \E N \in Nat : DOMAIN s = 1 .. N
  <2>1. s \in Seq(IPs)
    BY TopIPsFacts
  <2> QED
    BY <2>1
<1>3. CASE GeoTopIPs \/ CountrySummary
  BY <1>2, <1>3 DEF GeoTopIPs, CountrySummary, Resolved
<1>4. CASE UNCHANGED vars \/ Tick \/ \E r \in DOMAIN Rows : Insert(r)
  BY <1>4 DEF vars, geoVars, Tick, Insert
<1>5. CASE Begins \/ (\E ip \in IPs \cup {"any"} : AskPage(ip)) \/ Leave
  BY <1>5 DEF Begins, Begin, BeginCountry, AskPage, Opened, Leave
<1>6. CASE Summary \/ Timeline \/ AttackTypes \/ SeveritySummary
  BY <1>6 DEF Summary, Timeline, AttackTypes, SeveritySummary, Result
<1>7. CASE CountEvents \/ PageOfEvents \/ RankCandidates \/ RankDetails \/ Profile
  BY <1>7 DEF CountEvents, PageOfEvents, ShowPage, RankCandidates, RankDetails, Profile, Result
<1>8. CASE ShutDown
  BY <1>8 DEF ShutDown
<1> QED
  BY <1>1, <1>3, <1>4, <1>5, <1>6, <1>7, <1>8 DEF Next, Begins

\* The cache is empty when the process starts.
LEMMA GeoInitial == Init => GeoInv
<1> SUFFICES ASSUME Init PROVE GeoInv
  OBVIOUS
<1>1. reader \in BOOLEAN /\ cache = <<>> /\ recent = <<>>
  BY DEF Init, Geo!Init
<1>2. History(<<>>) /\ Len(<<>>) = 0
  BY EmptySeq DEF History
<1>3. Kept(<<>>) = 0
  <2>1. Bound \in Nat
    BY <1>2, CacheOfFacts
  <2> QED
    BY <1>2, <2>1 DEF Kept
<1>4. \A m \in 1 .. Kept(<<>>) : FALSE
  BY <1>3
<1>5. <<>> = CacheOf(<<>>)
  <2>1. <<>> \in Seq(Entries)
    BY EmptySeq
  <2> QED
    BY <1>2, <1>3, <1>4, <2>1, SameCache
<1> QED
  BY <1>1, <1>2, <1>5 DEF GeoInv

\* Every step leaves the cache of a history.
LEMMA GeoStep ==
    ASSUME RequestTyped, GeoInv, [Next]_vars
    PROVE  GeoInv'
<1>1. CASE UNCHANGED geoVars
  BY <1>1 DEF GeoInv, geoVars
<1>2. CASE Geo!Close
  BY <1>2 DEF GeoInv, Geo!Close
<1>3. ASSUME NEW s, NEW N \in Nat, DOMAIN s = 1 .. N, Geo!Resolve(s) PROVE GeoInv'
  <2>1. ResolvedSoFar(Geo!ResolveAll(s), s, N)
    BY <1>3, AllResolved
  <2>2. /\ cache' = Geo!ResolveAll(s).cache
        /\ recent' = Geo!ResolveAll(s).recent
        /\ reader' = reader
    BY <1>3 DEF Geo!Resolve
  <2> QED
    BY <2>1, <2>2 DEF ResolvedSoFar, GeoInv
<1> QED
  BY <1>1, <1>2, <1>3, GeoSteps

\* The cache keeps to its bound and has the addresses used last.
LEMMA GeoTyped == GeoInv => Geo!TypeOK /\ CacheIsMostRecent
<1> SUFFICES ASSUME GeoInv PROVE Geo!TypeOK /\ CacheIsMostRecent
  OBVIOUS
<1>1. /\ reader \in BOOLEAN /\ History(recent) /\ cache = CacheOf(recent)
  BY DEF GeoInv
<1>2. /\ cache \in Seq(Entries) /\ Len(cache) = Kept(recent) /\ Kept(recent) <= Bound
  BY <1>1, CacheOfFacts
<1>3. recent \in Seq(Geo!Public)
  BY <1>1, SeqMonotonic DEF History
<1>4. CacheIsMostRecent
  BY <1>1 DEF CacheIsMostRecent, Geo!CacheIsMostRecent, CacheOf, Kept, Bound, EntryOf
<1> QED
  BY <1>1, <1>2, <1>3, <1>4 DEF Geo!TypeOK, Entries, Bound

\* The addresses of a ranking: each once, and all of them when the limit allows.
LEMMA TopIPsComplete ==
    ASSUME RequestTyped, NEW limit \in Nat, NEW s \in TopIPs(InPeriod, limit)
    PROVE  /\ s \in Seq(IPs) /\ Len(s) <= limit
           /\ \A m, n \in 1 .. Len(s) : s[m] = s[n] => m = n
           /\ limit >= Cardinality(table) =>
                 \A r \in InPeriod : \E n \in 1 .. Len(s) : s[n] = Rows[r].ip
<1> DEFINE seen == {Rows[r].ip : r \in InPeriod}
<1>1. InPeriod \subseteq table /\ IsFiniteSet(InPeriod) /\ Cardinality(InPeriod) <= Cardinality(table)
  BY FS_Subset DEF InPeriod, Within, RequestTyped
<1>2. IsFiniteSet(seen) /\ Cardinality(seen) <= Cardinality(InPeriod)
  <2> DEFINE f == [r \in InPeriod |-> Rows[r].ip]
  <2>1. f \in Surjection(InPeriod, seen)
    BY DEF Surjection
  <2> QED
    BY <1>1, <2>1, FS_Surjection
<1>3. s \in SetToAllKPermutations(seen) /\ Len(s) = Min({limit, Cardinality(seen)})
  BY DEF TopIPs
<1>4. s \in Seq(IPs)
  BY TopIPsFacts
<1>5. \A r \in InPeriod : Rows[r].ip \in seen
  OBVIOUS
<1> HIDE DEF seen
<1>6. PICK U \in SUBSET seen :
          /\ s \in [1 .. Cardinality(U) -> U]
          /\ \A m, n \in 1 .. Cardinality(U) : m # n => s[m] # s[n]
  BY <1>3 DEF SetToAllKPermutations, SetToSeqs
<1>7. /\ Cardinality(U) \in Nat /\ IsFiniteSet(U) /\ Cardinality(seen) \in Nat
      /\ Cardinality(InPeriod) \in Nat /\ Cardinality(table) \in Nat
  BY <1>1, <1>2, FS_Subset, FS_CardinalityType DEF RequestTyped
<1>8. Len(s) = Cardinality(U)
  BY <1>6, <1>7
<1>9. Len(s) = IF limit <= Cardinality(seen) THEN limit ELSE Cardinality(seen)
  BY <1>3, <1>7, LeastOfTwo
<1>10. ASSUME limit >= Cardinality(table), NEW r \in InPeriod
       PROVE  \E n \in 1 .. Len(s) : s[n] = Rows[r].ip
  <2>1. Cardinality(U) = Cardinality(seen)
    BY <1>1, <1>2, <1>7, <1>8, <1>9, <1>10
  <2>2. U = seen
    BY <1>2, <2>1, FS_Subset
  <2>3. s \in Injection(1 .. Cardinality(U), U)
    BY <1>6 DEF Injection, IsInjective
  <2>4. Cardinality(1 .. Cardinality(U)) = Cardinality(U)
    <3>1. 1 \in Int /\ Cardinality(U) \in Int
      BY <1>7
    <3> QED
      BY <1>7, <3>1, FS_Interval
  <2>5. s \in Surjection(1 .. Cardinality(U), U)
    BY <1>7, <2>3, <2>4, FS_Injection
  <2> QED
    BY <1>5, <1>8, <2>2, <2>5 DEF Surjection
<1> QED
  BY <1>4, <1>6, <1>7, <1>8, <1>9, <1>10

-----------------------------------------------------------------------------
(* Places.                                                                 *)

GeoKinds == {"ipgeo", "topips", "country"}

\* Only an answer that is complete shows places.
LEMMA PlacesOther ==
    ASSUME request'.kind \notin GeoKinds \/ request'.status \notin {"ok", "failed"}
    PROVE  PlacesTrue'
BY DEF PlacesTrue, Is, GeoKinds

\* The reader is there until the process ends.
LEMMA ReaderStays ==
    ASSUME [Next]_vars
    PROVE  reader' = reader \/ request'.kind = "none"
<1>1. CASE UNCHANGED vars \/ Tick \/ \E r \in DOMAIN Rows : Insert(r)
  BY <1>1 DEF vars, geoVars, Tick, Insert
<1>2. CASE Begins \/ (\E ip \in IPs \cup {"any"} : AskPage(ip)) \/ Leave
  BY <1>2 DEF Begins, Begin, BeginCountry, AskPage, Opened, Leave, geoVars
<1>3. CASE Summary \/ Timeline \/ AttackTypes \/ SeveritySummary
  BY <1>3 DEF Summary, Timeline, AttackTypes, SeveritySummary, Result, geoVars
<1>4. CASE CountEvents \/ PageOfEvents \/ RankCandidates \/ RankDetails \/ Profile
  BY <1>4 DEF CountEvents, PageOfEvents, ShowPage, RankCandidates, RankDetails, Profile,
              Result, geoVars
<1>5. CASE IpGeo \/ GeoTopIPs \/ CountrySummary
  BY <1>5 DEF IpGeo, GeoTopIPs, CountrySummary, Resolved, Geo!Resolve
<1>6. CASE ShutDown
  BY <1>6 DEF ShutDown, Closed
<1> QED
  BY <1>1, <1>2, <1>3, <1>4, <1>5, <1>6 DEF Next, Begins

\* What resolving leaves: an answer, or a failure.
LEMMA ResolvedFacts ==
    ASSUME RequestTyped, GeoInv, NEW s, NEW N \in Nat, DOMAIN s = 1 .. N, NEW found,
           Len(answer) = 0, Resolved(s, found)
    PROVE  /\ table' = table /\ reader' = reader
           /\ request'.kind = request.kind /\ request'.before = request.before
           /\ request'.since = request.since /\ request'.until = request.until
           /\ \/ /\ request'.status = "failed"
                 /\ \E m \in 1 .. N : Undecodable(s[m])
              \/ /\ request'.status = "ok"
                 /\ answer'[1] = found
                 /\ \A m \in 1 .. N : ~Undecodable(s[m])
                 /\ Geo!ResolveAll(s).places \in Seq(Nat)
                 /\ Len(Geo!ResolveAll(s).places) = N
                 /\ \A m \in 1 .. N : Geo!ResolveAll(s).places[m] = PlaceOf(s[m])
<1> DEFINE A == Geo!ResolveAll(s)
<1>1. ResolvedSoFar(A, s, N)
  BY AllResolved
<1>2. /\ answer' = IF A.raises THEN answer ELSE Append(answer, found)
      /\ request' = [request EXCEPT !.status = IF A.raises THEN "failed" ELSE "ok"]
      /\ table' = table
      /\ reader' = reader
  BY DEF Resolved, Answered, Geo!Resolve
<1> HIDE DEF A
<1>3. ASSUME NEW status, request' = [request EXCEPT !.status = status]
      PROVE  /\ request'.kind = request.kind /\ request'.before = request.before
             /\ request'.since = request.since /\ request'.until = request.until
             /\ request'.status = status
  BY <1>3 DEF RequestTyped, Requests
<1>4. CASE A.raises
  <2>1. request' = [request EXCEPT !.status = "failed"]
    BY <1>2, <1>4
  <2>2. \E m \in 1 .. N : Undecodable(s[m])
    BY <1>1, <1>4 DEF ResolvedSoFar
  <2> QED
    BY <1>2, <1>3, <2>1, <2>2
<1>5. CASE ~A.raises
  <2>1. request' = [request EXCEPT !.status = "ok"] /\ answer' = Append(answer, found)
    BY <1>2, <1>5
  <2>2. /\ A.places \in Seq(Nat) /\ Len(A.places) = N
        /\ \A m \in 1 .. N : A.places[m] = PlaceOf(s[m]) /\ ~Undecodable(s[m])
    BY <1>1, <1>5 DEF ResolvedSoFar
  <2>3. answer'[1] = found
    <3>1. answer'[Len(answer) + 1] = found
      BY <2>1, AppendFacts DEF RequestTyped
    <3> QED
      BY <3>1
  <2>4. /\ request'.kind = request.kind /\ request'.before = request.before
        /\ request'.since = request.since /\ request'.until = request.until
        /\ request'.status = "ok"
    BY <1>3, <2>1
  <2> QED
    BY <1>2, <2>2, <2>3, <2>4 DEF A
<1> QED
  BY <1>4, <1>5

\* get_ip_geo and get_geo_top_ips.
LEMMA LocatedStep ==
    ASSUME RequestTyped, GeoInv, IpGeo \/ GeoTopIPs
    PROVE  PlacesTrue'
<1>1. \E s : \E N \in Nat : /\ DOMAIN s = 1 .. N
                            /\ Resolved(s, Located(s))
                            /\ Len(answer) = 0 /\ request.kind \in {"ipgeo", "topips"}
  <2>1. CASE IpGeo
    <3>1. DOMAIN <<request.ip>> = 1 .. 1 /\ 1 \in Nat
      OBVIOUS
    <3>2. /\ Resolved(<<request.ip>>, Located(<<request.ip>>))
          /\ Len(answer) = 0 /\ request.kind \in {"ipgeo", "topips"}
      BY <2>1 DEF IpGeo, Pending
    <3> QED
      BY <3>1, <3>2
  <2>2. CASE GeoTopIPs
    <3>1. PICK s \in TopIPs(InPeriod, TopLimit) : Resolved(s, Located(s))
      BY <2>2 DEF GeoTopIPs
    <3>2. s \in Seq(IPs)
      BY TopIPsFacts
    <3>3. DOMAIN s = 1 .. Len(s) /\ Len(s) \in Nat
      BY <3>2
    <3> QED
      BY <2>2, <3>1, <3>3 DEF GeoTopIPs, Pending
  <2> QED
    BY <2>1, <2>2
<1> PICK s : \E N \in Nat : /\ DOMAIN s = 1 .. N
                           /\ Resolved(s, Located(s))
                           /\ Len(answer) = 0 /\ request.kind \in {"ipgeo", "topips"}
  BY <1>1
<1>0. PICK N \in Nat : /\ DOMAIN s = 1 .. N
                      /\ Resolved(s, Located(s))
                      /\ Len(answer) = 0 /\ request.kind \in {"ipgeo", "topips"}
  OBVIOUS
<1> DEFINE found == Located(s)
<1>2. \A n \in 1 .. N : /\ found[n].ip = s[n]
                        /\ found[n].place = Geo!ResolveAll(s).places[n]
  BY <1>0 DEF Located
<1>3. DOMAIN found = 1 .. N
  BY <1>0 DEF Located
<1> HIDE DEF found
<1>4. /\ table' = table /\ reader' = reader /\ request'.kind \in {"ipgeo", "topips"}
      /\ \/ request'.status = "failed"
         \/ /\ answer'[1] = found
            /\ \A m \in 1 .. N : Geo!ResolveAll(s).places[m] = PlaceOf(s[m])
  BY <1>0, ResolvedFacts DEF found
<1>5. CASE request'.status = "failed"
  BY <1>4, <1>5 DEF PlacesTrue, Is
<1>6. CASE /\ answer'[1] = found
           /\ \A m \in 1 .. N : Geo!ResolveAll(s).places[m] = PlaceOf(s[m])
  <2>1. \A n \in DOMAIN answer'[1] : answer'[1][n].place = PlaceOf(answer'[1][n].ip)
    BY <1>2, <1>3, <1>6
  <2>2. \A ip : PlaceOf(ip)' = PlaceOf(ip)
    BY <1>4 DEF PlaceOf, Geo!Usable
  <2>3. (\A n \in DOMAIN answer[1] : answer[1][n].place = PlaceOf(answer[1][n].ip))'
    BY <1>4, <2>1 DEF PlaceOf, Geo!Usable
  <2> QED
    BY <1>4, <2>3 DEF PlacesTrue, Is
<1> QED
  BY <1>4, <1>5, <1>6

\* The resolver's own copy of the library adds up the same.
LEMMA SameSum == \A f, S : Geo!SumFunctionOnSet(f, S) = SumFunctionOnSet(f, S)
BY DEF Geo!SumFunctionOnSet, Geo!FoldFunctionOnSet, Geo!MapThenFoldSet,
       SumFunctionOnSet, FoldFunctionOnSet, MapThenFoldSet

\* The events of a country are those of its addresses.
LEMMA CountryCounts ==
    ASSUME RequestTyped, NEW s \in TopIPs(InPeriod, Cardinality(table)),
           NEW places \in Seq(Nat), Len(places) = Len(s),
           \A m \in 1 .. Len(s) : places[m] = PlaceOf(s[m])
    PROVE  LET counts == [n \in DOMAIN s |-> Count(Of(InPeriod, s[n]))]
               countries == Geo!Aggregate(counts, places)
           IN /\ \A c \in DOMAIN countries :
                    countries[c] = Count({r \in InPeriod : PlaceOf(Rows[r].ip) = c})
              /\ \A r \in InPeriod : PlaceOf(Rows[r].ip) \in DOMAIN countries
<1> DEFINE counts == [n \in DOMAIN s |-> Count(Of(InPeriod, s[n]))]
           countries == Geo!Aggregate(counts, places)
           N == Len(s)
           R == InPeriod
           key == [r \in R |-> CHOOSE n \in 1 .. N : s[n] = Rows[r].ip]
           at(c) == {n \in 1 .. N : places[n] = c}
<1>1. /\ N \in Nat /\ DOMAIN s = 1 .. N /\ DOMAIN places = 1 .. N
      /\ \A m, n \in 1 .. N : s[m] = s[n] => m = n
      /\ \A r \in R : \E n \in 1 .. N : s[n] = Rows[r].ip
  <2>1. Cardinality(table) \in Nat /\ Cardinality(table) >= Cardinality(table)
    BY FS_CardinalityType DEF RequestTyped
  <2>2. /\ s \in Seq(IPs)
        /\ \A m, n \in 1 .. Len(s) : s[m] = s[n] => m = n
        /\ \A r \in InPeriod : \E n \in 1 .. Len(s) : s[n] = Rows[r].ip
    BY <2>1, TopIPsComplete
  <2> QED
    BY <2>2
<1>2. IsFiniteSet(R)
  BY FS_Subset DEF InPeriod, Within, RequestTyped
<1>3. \A r \in R : key[r] \in 1 .. N /\ s[key[r]] = Rows[r].ip
  BY <1>1
<1>4. \A n \in 1 .. N : counts[n] = Cardinality(Of(R, s[n]))
  BY <1>1 DEF Count
<1>5. countries = [c \in Geo!ToSet(places) |-> SumFunctionOnSet(counts, at(c))]
  <2> HIDE DEF counts, N
  <2>1. \A c : Geo!SumFunctionOnSet(counts, {n \in DOMAIN places : places[n] = c}) =
                   SumFunctionOnSet(counts, at(c))
    BY <1>1, SameSum
  <2> QED
    BY <2>1 DEF Geo!Aggregate
<1> HIDE DEF counts, countries, N, R, key
<1>6. \A b \in 1 .. N : counts[b] = Cardinality(Keyed(R, key, b))
  <2>1. ASSUME NEW b \in 1 .. N PROVE Of(R, s[b]) = Keyed(R, key, b)
    BY <1>1, <1>3 DEF Of, Keyed
  <2> QED
    BY <1>4, <2>1
<1>7. ASSUME NEW c
      PROVE  SumFunctionOnSet(counts, at(c)) = Cardinality({r \in R : PlaceOf(Rows[r].ip) = c})
  <2> DEFINE S == at(c)
  <2>1. S \subseteq 1 .. N /\ IsFiniteSet(S)
    <3>1. IsFiniteSet(1 .. N)
      BY <1>1, FS_Interval
    <3> QED
      BY <3>1, FS_Subset
  <2>2. KeyedIn(R, key, S) = {r \in R : PlaceOf(Rows[r].ip) = c}
    <3>1. \A r \in R : key[r] \in 1 .. N /\ places[key[r]] = PlaceOf(Rows[r].ip)
      BY <1>3 DEF N
    <3> QED
      BY <3>1 DEF KeyedIn
  <2> HIDE DEF S
  <2>3. \A b \in S : counts[b] = Cardinality(Keyed(R, key, b))
    BY <1>6, <2>1
  <2>4. SumFunctionOnSet(counts, S) = Cardinality(KeyedIn(R, key, S))
    <3>1. IsFiniteSet(R) /\ IsFiniteSet(S)
      BY <1>2, <2>1
    <3> QED
      BY <2>3, <3>1, SumOfCounts
  <2> QED
    BY <2>2, <2>4 DEF S
<1>8. \A c \in DOMAIN countries : countries[c] = Cardinality({r \in R : PlaceOf(Rows[r].ip) = c})
  BY <1>5, <1>7
<1>9. \A r \in R : PlaceOf(Rows[r].ip) \in DOMAIN countries
  <2>1. \A r \in R : key[r] \in DOMAIN places /\ places[key[r]] = PlaceOf(Rows[r].ip)
    BY <1>1, <1>3 DEF N
  <2>2. \A r \in R : PlaceOf(Rows[r].ip) \in Geo!ToSet(places)
    BY <2>1 DEF Geo!ToSet
  <2> QED
    BY <1>5, <2>2
<1> QED
  BY <1>8, <1>9 DEF counts, countries, R, Count

\* get_country_summary.
LEMMA CountryStep ==
    ASSUME RequestTyped, GeoInv, CountrySummary
    PROVE  PlacesTrue'
<1>1. PICK s \in TopIPs(InPeriod, Cardinality(table)) :
          Resolved(s, Geo!Aggregate([n \in DOMAIN s |-> Count(Of(InPeriod, s[n]))],
                                    Geo!ResolveAll(s).places))
  BY DEF CountrySummary
<1> DEFINE N == Len(s)
           A == Geo!ResolveAll(s)
           found == Geo!Aggregate([n \in DOMAIN s |-> Count(Of(InPeriod, s[n]))], A.places)
<1>2. N \in Nat /\ DOMAIN s = 1 .. N
  <2>1. s \in Seq(IPs)
    BY TopIPsFacts
  <2> QED
    BY <2>1
<1>3. Len(answer) = 0 /\ request.kind = "country"
  BY DEF CountrySummary, Pending
<1>4. /\ table' = table /\ reader' = reader
      /\ request'.kind = "country" /\ request'.before = request.before
      /\ request'.since = request.since /\ request'.until = request.until
      /\ \/ request'.status = "failed" /\ \E m \in 1 .. N : Undecodable(s[m])
         \/ /\ request'.status = "ok" /\ answer'[1] = found
            /\ \A m \in 1 .. N : ~Undecodable(s[m])
            /\ A.places \in Seq(Nat) /\ Len(A.places) = N
            /\ \A m \in 1 .. N : A.places[m] = PlaceOf(s[m])
  <2>1. Resolved(s, found)
    BY <1>1
  <2> HIDE DEF found, N
  <2> QED
    BY <1>2, <1>3, <2>1, ResolvedFacts
<1>5. /\ Within(request.before)' = Within(request.before) /\ Within(table)' = Within(table)
      /\ \A ip : PlaceOf(ip)' = PlaceOf(ip)
  BY <1>4 DEF Within, PlaceOf, Geo!Usable
<1>6. CASE request'.status = "failed" /\ \E m \in 1 .. N : Undecodable(s[m])
  <2>1. PICK m \in 1 .. N : Undecodable(s[m])
    BY <1>6
  <2>2. \E r \in Within(table) : Rows[r].ip = s[m]
    <3>1. s \in SetToAllKPermutations({Rows[r].ip : r \in InPeriod})
      BY DEF TopIPs
    <3>2. PICK U \in SUBSET {Rows[r].ip : r \in InPeriod} : s \in [1 .. Cardinality(U) -> U]
      BY <3>1 DEF SetToAllKPermutations, SetToSeqs
    <3>3. s[m] \in U
      BY <1>2, <3>2
    <3> QED
      BY <3>3 DEF InPeriod
  <2>3. ({Rows[r].ip : r \in Within(table)} \cap (IF Geo!Usable THEN Damaged ELSE {}))' # {}
    BY <1>4, <1>5, <2>1, <2>2 DEF Undecodable, Geo!Usable
  <2> QED
    BY <1>4, <1>6, <2>3 DEF PlacesTrue, Is
<1>7. CASE /\ request'.status = "ok" /\ answer'[1] = found
           /\ \A m \in 1 .. N : ~Undecodable(s[m])
           /\ A.places \in Seq(Nat) /\ Len(A.places) = N
           /\ \A m \in 1 .. N : A.places[m] = PlaceOf(s[m])
  <2>1. /\ \A c \in DOMAIN found :
              found[c] = Count({r \in InPeriod : PlaceOf(Rows[r].ip) = c})
        /\ \A r \in InPeriod : PlaceOf(Rows[r].ip) \in DOMAIN found
    <3> DEFINE places == A.places
    <3>1. /\ places \in Seq(Nat) /\ Len(places) = Len(s)
          /\ \A m \in 1 .. Len(s) : places[m] = PlaceOf(s[m])
      BY <1>7
    <3> HIDE DEF places
    <3>2. LET counts == [n \in DOMAIN s |-> Count(Of(InPeriod, s[n]))]
              countries == Geo!Aggregate(counts, places)
          IN /\ \A c \in DOMAIN countries :
                   countries[c] = Count({r \in InPeriod : PlaceOf(Rows[r].ip) = c})
             /\ \A r \in InPeriod : PlaceOf(Rows[r].ip) \in DOMAIN countries
      BY <3>1, CountryCounts
    <3> QED
      BY <3>2 DEF places
  <2> HIDE DEF found, N, A
  <2> DEFINE from(S, c) == {r \in Within(S) : PlaceOf(Rows[r].ip) = c}
  <2>2. Within(request.before) \subseteq Within(table) /\ IsFiniteSet(Within(table))
    BY FS_Subset DEF RequestTyped, Requests, Within
  <2>3. ASSUME NEW c \in DOMAIN found
        PROVE  found[c] \in Count(from(request.before, c)) .. Count(from(table, c))
    <3>1. from(request.before, c) \subseteq from(table, c) /\ IsFiniteSet(from(table, c))
      BY <2>2, FS_Subset
    <3>2. found[c] = Cardinality(from(table, c))
      BY <2>1 DEF Count, InPeriod
    <3> HIDE DEF from
    <3> QED
      BY <3>1, <3>2, FoundMonotonic DEF Count
  <2>4. \A r \in Within(request.before) : PlaceOf(Rows[r].ip) \in DOMAIN found
    BY <2>1, <2>2 DEF InPeriod
  <2>5. \A r \in Within(request.before) : ~Undecodable(Rows[r].ip)
    <3>1. Cardinality(table) \in Nat /\ Cardinality(table) >= Cardinality(table)
      BY FS_CardinalityType DEF RequestTyped
    <3>2. \A r \in InPeriod : \E n \in 1 .. Len(s) : s[n] = Rows[r].ip
      BY <3>1, TopIPsComplete
    <3> QED
      BY <1>7, <2>2, <3>2 DEF InPeriod, N
  <2>6. (\A c \in DOMAIN answer[1] :
            answer[1][c] \in Count({r \in Within(request.before) : PlaceOf(Rows[r].ip) = c})
                             .. Count({r \in Within(table) : PlaceOf(Rows[r].ip) = c}))'
    <3>1. \A c : Count(from(request.before, c))' = Count(from(request.before, c))
                 /\ Count(from(table, c))' = Count(from(table, c))
      BY <1>5 DEF Count
    <3> QED
      BY <1>7, <2>3, <3>1
  <2>7. (\A r \in Within(request.before) : PlaceOf(Rows[r].ip) \in DOMAIN answer[1])'
    BY <1>5, <1>7, <2>4
  <2>8. ({Rows[r].ip : r \in Within(request.before)}
             \cap (IF Geo!Usable THEN Damaged ELSE {}))' = {}
    BY <1>4, <1>5, <2>5 DEF Undecodable, Geo!Usable
  <2> QED
    BY <1>4, <1>7, <2>6, <2>7, <2>8 DEF PlacesTrue, Is
<1> QED
  BY <1>4, <1>6, <1>7

\* A row that is added, or nothing.
LEMMA PlacesGrow ==
    ASSUME RequestTyped, PlacesTrue, UNCHANGED <<request, answer, reader>>,
           table \subseteq table', IsFiniteSet(table')
    PROVE  PlacesTrue'
<1>1. /\ Within(request.before)' = Within(request.before)
      /\ Within(table) \subseteq Within(table)' /\ IsFiniteSet(Within(table)')
      /\ \A ip : PlaceOf(ip)' = PlaceOf(ip)
      /\ Geo!Usable' = Geo!Usable
  <2>1. Within(table)' \subseteq table'
    BY DEF Within
  <2>2. IsFiniteSet(Within(table)')
    BY <2>1, FS_Subset
  <2> QED
    BY <2>2 DEF Within, PlaceOf, Geo!Usable
<1> DEFINE from(S, c) == {r \in Within(S) : PlaceOf(Rows[r].ip) = c}
<1>2. ASSUME NEW c
      PROVE  /\ Count(from(request.before, c))' = Count(from(request.before, c))
             /\ Count(from(request.before, c)) \in Nat /\ Count(from(table, c)) \in Nat
             /\ Count(from(table, c))' \in Nat
             /\ Count(from(table, c)) <= Count(from(table, c))'
  <2>1. from(request.before, c)' = from(request.before, c)
    BY <1>1
  <2>2. from(table, c) \subseteq from(table, c)' /\ IsFiniteSet(from(table, c)')
    <3>1. from(table, c)' \subseteq Within(table)'
      OBVIOUS
    <3>2. IsFiniteSet(from(table, c)')
      BY <1>1, <3>1, FS_Subset
    <3> QED
      BY <1>1, <3>2
  <2>3. IsFiniteSet(from(request.before, c))
    BY FS_Subset DEF RequestTyped, Requests, Within
  <2> HIDE DEF from
  <2> QED
    BY <2>1, <2>2, <2>3, FoundMonotonic DEF Count
<1>3. ASSUME Is("ipgeo") \/ Is("topips")
      PROVE  (\A n \in DOMAIN answer[1] : answer[1][n].place = PlaceOf(answer[1][n].ip))'
  BY <1>1, <1>3 DEF PlacesTrue
<1>4. ASSUME Is("country")
      PROVE  /\ (\A c \in DOMAIN answer[1] :
                    answer[1][c] \in Count(from(request.before, c)) .. Count(from(table, c)))'
             /\ (\A r \in Within(request.before) : PlaceOf(Rows[r].ip) \in DOMAIN answer[1])'
             /\ ({Rows[r].ip : r \in Within(request.before)}
                     \cap (IF Geo!Usable THEN Damaged ELSE {}))' = {}
  <2>1. /\ \A c \in DOMAIN answer[1] :
              answer[1][c] \in Count(from(request.before, c)) .. Count(from(table, c))
        /\ \A r \in Within(request.before) : PlaceOf(Rows[r].ip) \in DOMAIN answer[1]
        /\ {Rows[r].ip : r \in Within(request.before)}
               \cap (IF Geo!Usable THEN Damaged ELSE {}) = {}
    BY <1>4 DEF PlacesTrue
  <2>2. \A c \in DOMAIN answer[1] :
            answer[1][c] \in Count(from(request.before, c))' .. Count(from(table, c))'
    <3> HIDE DEF from
    <3> QED
      BY <1>2, <2>1
  <2> QED
    BY <1>1, <2>1, <2>2
<1>5. ASSUME request.kind = "country" /\ request.status = "failed"
      PROVE  ({Rows[r].ip : r \in Within(table)}
                  \cap (IF Geo!Usable THEN Damaged ELSE {}))' # {}
  <2>1. {Rows[r].ip : r \in Within(table)} \cap (IF Geo!Usable THEN Damaged ELSE {}) # {}
    BY <1>5 DEF PlacesTrue
  <2> QED
    BY <1>1, <2>1
<1> QED
  BY <1>3, <1>4, <1>5 DEF PlacesTrue, Is

\* Every step keeps the places right.
LEMMA PlacesStep ==
    ASSUME RequestTyped, GeoInv, PlacesTrue, [Next]_vars
    PROVE  PlacesTrue'
<1>1. CASE UNCHANGED <<table, request, answer, walk>> \/ \E r \in DOMAIN Rows : Insert(r)
  <2>1. UNCHANGED <<request, answer>> /\ table \subseteq table'
    BY <1>1 DEF Insert
  <2>2. IsFiniteSet(table')
    BY TypedStep DEF RequestTyped
  <2>3. CASE reader' = reader
    BY <2>1, <2>2, <2>3, PlacesGrow
  <2> QED
    BY <2>3, ReaderStays, PlacesOther DEF GeoKinds
<1>2. CASE Begins
  BY <1>2, PlacesOther DEF Begins, Begin, BeginCountry, Opened
<1>3. CASE \E ip \in IPs \cup {"any"} : AskPage(ip)
  BY <1>3, AskReopens, PlacesOther DEF GeoKinds
<1>4. CASE Leave \/ ShutDown
  BY <1>4, EndReopens, PlacesOther DEF GeoKinds
<1>5. CASE RiskSelect
  BY <1>5, RiskSelects, SelectsTyped, PlacesOther DEF GeoKinds, Risks
<1>6. CASE ListSelect
  BY <1>6, ListSelects, SelectsTyped, PlacesOther DEF GeoKinds, Lists
<1>7. CASE Summary \/ Timeline \/ AttackTypes \/ SeveritySummary
  <2>1. Selects(OtherKinds)
    BY <1>7, OtherSelects DEF OtherSelect
  <2>2. request.kind \notin GeoKinds
    BY <1>7 DEF Summary, Timeline, AttackTypes, SeveritySummary, Pending, GeoKinds
  <2> QED
    BY <2>1, <2>2, SelectsTyped, PlacesOther
<1>8. CASE IpGeo \/ GeoTopIPs \/ CountrySummary
  BY <1>8, LocatedStep, CountryStep
<1> QED
  BY <1>1, <1>2, <1>3, <1>4, <1>5, <1>6, <1>7, <1>8, StepCases DEF OtherSelect

-----------------------------------------------------------------------------
(* Summaries.                                                              *)

\* The protocols split the rows, and there are no more addresses than rows.
LEMMA Halves ==
    ASSUME NEW S \in SUBSET DOMAIN Rows, IsFiniteSet(S)
    PROVE  /\ Count(Half(S, "ssh")) \in Nat /\ Count(Half(S, "http")) \in Nat
           /\ Count(S) = Count(Half(S, "ssh")) + Count(Half(S, "http"))
           /\ Count(Sources(S)) \in Nat /\ Count(Sources(S)) <= Count(S)
           /\ Count(S) \in Nat
<1> DEFINE a == Half(S, "ssh")
           b == Half(S, "http")
<1>1. S = a \cup b /\ a \cap b = {}
  <2>1. \A r \in S : Rows[r].protocol \in {"ssh", "http"}
    BY ApiAssumption DEF Protocols
  <2> QED
    BY <2>1 DEF Half
<1>2. IsFiniteSet(a) /\ IsFiniteSet(b)
  BY FS_Subset DEF Half
<1> HIDE DEF a, b
<1>3. Cardinality(a \cup b) = Cardinality(a) + Cardinality(b) - Cardinality(a \cap b)
  BY <1>2, FS_Union
<1>4. Cardinality(a \cap b) = 0 /\ Cardinality(a) \in Nat /\ Cardinality(b) \in Nat
  BY <1>1, <1>2, FS_EmptySet, FS_CardinalityType
<1>5. Cardinality(S) = Cardinality(a) + Cardinality(b)
  BY <1>1, <1>3, <1>4
<1>6. IsFiniteSet(Sources(S)) /\ Cardinality(Sources(S)) <= Cardinality(S)
  <2> DEFINE f == [r \in S |-> Rows[r].ip]
  <2>1. f \in Surjection(S, Sources(S))
    BY DEF Surjection, Sources
  <2> QED
    BY <2>1, FS_Surjection
<1>7. Cardinality(Sources(S)) \in Nat /\ Cardinality(S) \in Nat
  BY <1>6, FS_CardinalityType
<1> QED
  BY <1>4, <1>5, <1>6, <1>7 DEF a, b, Count

\* What is counted in a period does not shrink when rows come in.
LEMMA PeriodGrows ==
    ASSUME NEW S, NEW T \in SUBSET DOMAIN Rows, S \subseteq T, IsFiniteSet(T)
    PROVE  /\ Count(S) \in Nat /\ Count(S) <= Count(T)
           /\ Count(Sources(S)) \in Nat /\ Count(Sources(S)) <= Count(Sources(T))
           /\ \A p : Count(Half(S, p)) <= Count(Half(T, p))
           /\ Count(Classified(S)) \in Nat /\ Count(Classified(T)) \in Nat
           /\ Count(Classified(S)) <= Count(Classified(T))
<1>1. IsFiniteSet(S) /\ S \in SUBSET DOMAIN Rows
  BY FS_Subset
<1>2. Sources(S) \subseteq Sources(T) /\ IsFiniteSet(Sources(T))
  <2> DEFINE f == [r \in T |-> Rows[r].ip]
  <2>1. f \in Surjection(T, Sources(T))
    BY DEF Surjection, Sources
  <2>2. IsFiniteSet(Sources(T))
    BY <2>1, FS_Surjection
  <2> QED
    BY <2>2 DEF Sources
<1>3. \A p : Half(S, p) \subseteq Half(T, p) /\ IsFiniteSet(Half(T, p))
  BY FS_Subset DEF Half
<1>4. Classified(S) \subseteq Classified(T) /\ IsFiniteSet(Classified(T))
  BY FS_Subset DEF Classified
<1> QED
  BY <1>1, <1>2, <1>3, <1>4, FoundMonotonic DEF Count

\* The period's rows when the request came in, and now.
LEMMA PeriodRows ==
    ASSUME RequestTyped
    PROVE  /\ InPeriod \in SUBSET DOMAIN Rows /\ IsFiniteSet(InPeriod)
           /\ Within(request.before) \subseteq InPeriod
BY FS_Subset DEF InPeriod, Within, RequestTyped, Requests

\* One statement of get_summary more.
LEMMA SummaryStep ==
    ASSUME RequestTyped, SummaryInv, Summary
    PROVE  SummaryInv'
<1> DEFINE before == Within(request.before)
           ssh == Count(Half(InPeriod, "ssh"))
           http == Count(Half(InPeriod, "http"))
           all == Count(InPeriod)
           ips == Count(Sources(InPeriod))
           allBefore == Count(before)
           ipsBefore == Count(Sources(before))
<1>1. /\ ssh \in Nat /\ http \in Nat /\ all \in Nat /\ ips \in Nat
      /\ allBefore \in Nat /\ ipsBefore \in Nat
      /\ all = ssh + http /\ ips <= all /\ allBefore <= all /\ ipsBefore <= ips
  BY PeriodRows, Halves, PeriodGrows
<1>2. ASSUME NEW found, NEW status, answer' = Append(answer, found), Answered(status),
             table' = table, request.kind = "summary"
      PROVE  /\ request'.kind = "summary" /\ request'.status = status
             /\ before' = before /\ InPeriod' = InPeriod
             /\ Len(answer) \in Nat
             /\ Len(answer') = Len(answer) + 1
             /\ answer'[Len(answer) + 1] = found
             /\ \A n \in 1 .. Len(answer) : answer'[n] = answer[n]
  BY <1>2, ResultFacts
<1>3. ASSUME before' = before, InPeriod' = InPeriod
      PROVE  /\ Count(before)' = allBefore /\ Count(Sources(before))' = ipsBefore
             /\ Count(InPeriod)' = all /\ Count(Sources(InPeriod))' = ips
             /\ Count(Half(InPeriod, "ssh"))' = ssh /\ Count(Half(InPeriod, "http"))' = http
  BY <1>3 DEF Sources, Half, Count
<1>4. request.kind = "summary" /\ table' = table
  BY DEF Summary, Pending, Result
<1>5. /\ Len(answer) >= 1 => answer[1] \in allBefore .. all
      /\ Len(answer) >= 2 => answer[2] \in ipsBefore .. ips
      /\ Len(answer) = 3 => /\ answer[3] \in 0 .. ssh
                            /\ answer[1] <= answer[3] + http
                            /\ answer[2] <= answer[3] + http
  BY <1>4 DEF SummaryInv
<1>6. CASE Len(answer) = 0 /\ answer' = Append(answer, all) /\ Answered("open")
  <2>1. /\ request'.kind = "summary" /\ request'.status = "open"
        /\ before' = before /\ InPeriod' = InPeriod
        /\ Len(answer') = 1 /\ answer'[1] = all
    <3> HIDE DEF all, before
    <3> QED
      BY <1>2, <1>4, <1>6 DEF before
  <2> QED
    BY <1>1, <1>3, <2>1 DEF SummaryInv
<1>7. CASE Len(answer) = 1 /\ answer' = Append(answer, ips) /\ Answered("open")
  <2>1. /\ request'.kind = "summary" /\ request'.status = "open"
        /\ before' = before /\ InPeriod' = InPeriod
        /\ Len(answer') = 2 /\ answer'[1] = answer[1] /\ answer'[2] = ips
    <3> HIDE DEF ips, before
    <3> QED
      BY <1>2, <1>4, <1>7 DEF before
  <2> QED
    BY <1>1, <1>3, <1>5, <1>7, <2>1 DEF SummaryInv
<1>8. CASE Len(answer) = 2 /\ answer' = Append(answer, ssh) /\ Answered("open")
  <2>1. /\ request'.kind = "summary" /\ request'.status = "open"
        /\ before' = before /\ InPeriod' = InPeriod
        /\ Len(answer') = 3 /\ answer'[1] = answer[1] /\ answer'[2] = answer[2]
        /\ answer'[3] = ssh
    <3> HIDE DEF ssh, before
    <3> QED
      BY <1>2, <1>4, <1>8 DEF before
  <2>2. /\ answer[1] \in allBefore .. all /\ answer[2] \in ipsBefore .. ips
    BY <1>5, <1>8
  <2>3. answer[1] <= ssh + http /\ answer[2] <= ssh + http /\ ssh \in 0 .. ssh
    <3> HIDE DEF ssh, http, all, ips, allBefore, ipsBefore
    <3> QED
      BY <1>1, <2>2
  <2> QED
    BY <1>3, <2>1, <2>2, <2>3 DEF SummaryInv
<1>9. CASE Len(answer) = 3 /\ answer' = Append(answer, http) /\ Answered("ok")
  <2>1. /\ request'.kind = "summary" /\ request'.status = "ok"
        /\ before' = before /\ InPeriod' = InPeriod
        /\ Len(answer') = 4 /\ answer'[1] = answer[1] /\ answer'[2] = answer[2]
        /\ answer'[3] = answer[3] /\ answer'[4] = http
    <3> HIDE DEF http, before
    <3> QED
      BY <1>2, <1>4, <1>9 DEF before
  <2>2. /\ answer[1] \in allBefore .. all /\ answer[2] \in ipsBefore .. ips
        /\ answer[3] \in 0 .. ssh
        /\ answer[1] <= answer[3] + http /\ answer[2] <= answer[3] + http
    BY <1>5, <1>9
  <2>3. answer[3] \in Nat /\ http \in Nat /\ answer[3] + http <= all
    <3> HIDE DEF ssh, http, all, ips, allBefore, ipsBefore
    <3> QED
      BY <1>1, <2>2
  <2> QED
    BY <1>3, <2>1, <2>2, <2>3 DEF SummaryInv
<1> QED
  BY <1>6, <1>7, <1>8, <1>9 DEF Summary, Pending, Result, Half, Sources, Count

\* Rows that come in.
LEMMA SummaryGrows ==
    ASSUME RequestTyped, SummaryInv, UNCHANGED <<request, answer>>,
           table \subseteq table', IsFiniteSet(table'), table' \subseteq DOMAIN Rows
    PROVE  SummaryInv'
<1> SUFFICES ASSUME request.kind = "summary" PROVE SummaryInv'
  BY DEF SummaryInv
<1> DEFINE before == Within(request.before)
           http == Count(Half(InPeriod, "http"))
           ssh == Count(Half(InPeriod, "ssh"))
           all == Count(InPeriod)
           ips == Count(Sources(InPeriod))
           allBefore == Count(before)
           ipsBefore == Count(Sources(before))
<1>1. /\ InPeriod \subseteq InPeriod' /\ IsFiniteSet(InPeriod') /\ InPeriod' \in SUBSET DOMAIN Rows
      /\ before' = before
  <2>1. InPeriod' \subseteq table'
    BY DEF InPeriod, Within
  <2>2. IsFiniteSet(InPeriod')
    BY <2>1, FS_Subset
  <2> QED
    BY <2>1, <2>2 DEF InPeriod, Within
<1>2. /\ all' \in Nat /\ all <= all' /\ all \in Nat
      /\ ips' \in Nat /\ ips <= ips' /\ ips \in Nat
      /\ ssh' \in Nat /\ ssh <= ssh' /\ ssh \in Nat
      /\ http' \in Nat /\ http <= http' /\ http \in Nat
      /\ allBefore' = allBefore /\ ipsBefore' = ipsBefore
      /\ allBefore \in Nat /\ ipsBefore \in Nat
  <2> DEFINE S == InPeriod
             T == InPeriod'
  <2>1. /\ Count(T) \in Nat /\ Count(S) <= Count(T) /\ Count(S) \in Nat
        /\ Count(Sources(T)) \in Nat /\ Count(Sources(S)) <= Count(Sources(T))
        /\ Count(Sources(S)) \in Nat
        /\ Count(Half(T, "ssh")) \in Nat /\ Count(Half(S, "ssh")) <= Count(Half(T, "ssh"))
        /\ Count(Half(S, "ssh")) \in Nat
        /\ Count(Half(T, "http")) \in Nat /\ Count(Half(S, "http")) <= Count(Half(T, "http"))
        /\ Count(Half(S, "http")) \in Nat
    <3>1. S \in SUBSET DOMAIN Rows /\ IsFiniteSet(S)
      BY PeriodRows
    <3>2. S \subseteq T /\ T \in SUBSET DOMAIN Rows /\ IsFiniteSet(T)
      BY <1>1
    <3> HIDE DEF S, T
    <3> QED
      BY <3>1, <3>2, Halves, PeriodGrows
  <2>2. /\ all' = Count(T) /\ ips' = Count(Sources(T))
        /\ ssh' = Count(Half(T, "ssh")) /\ http' = Count(Half(T, "http"))
        /\ allBefore' = allBefore /\ ipsBefore' = ipsBefore
    BY <1>1 DEF Count, Sources, Half
  <2>3. allBefore \in Nat /\ ipsBefore \in Nat
    BY PeriodRows, PeriodGrows
  <2> QED
    BY <2>1, <2>2, <2>3
<1>3. /\ Len(answer) >= 1 => answer[1] \in allBefore .. all
      /\ Len(answer) >= 2 => answer[2] \in ipsBefore .. ips
      /\ Len(answer) = 3 => /\ answer[3] \in 0 .. ssh
                            /\ answer[1] <= answer[3] + http
                            /\ answer[2] <= answer[3] + http
      /\ Len(answer) >= 4 => /\ answer[3] \in Nat /\ answer[4] \in Nat
                             /\ answer[1] <= answer[3] + answer[4]
                             /\ answer[2] <= answer[3] + answer[4]
                             /\ answer[3] + answer[4] <= all
      /\ request.status = "ok" => Len(answer) = 4
  BY DEF SummaryInv
<1>4. Len(answer) \in Nat
  BY DEF RequestTyped
<1>5. /\ Len(answer) >= 1 => answer[1] \in allBefore' .. all'
      /\ Len(answer) >= 2 => answer[2] \in ipsBefore' .. ips'
      /\ Len(answer) = 3 => /\ answer[3] \in 0 .. ssh'
                            /\ answer[1] <= answer[3] + http'
                            /\ answer[2] <= answer[3] + http'
      /\ Len(answer) >= 4 => /\ answer[3] \in Nat /\ answer[4] \in Nat
                             /\ answer[1] <= answer[3] + answer[4]
                             /\ answer[2] <= answer[3] + answer[4]
                             /\ answer[3] + answer[4] <= all'
  <2> HIDE DEF ssh, http, all, ips, allBefore, ipsBefore
  <2>1. /\ Len(answer) >= 1 => answer[1] \in allBefore' .. all'
        /\ Len(answer) >= 2 => answer[2] \in ipsBefore' .. ips'
    BY <1>2, <1>3
  <2>2. ASSUME Len(answer) = 3
        PROVE  /\ answer[3] \in 0 .. ssh'
               /\ answer[1] <= answer[3] + http'
               /\ answer[2] <= answer[3] + http'
    <3>1. /\ answer[1] \in Int /\ answer[2] \in Int /\ answer[3] \in Nat /\ answer[3] <= ssh
          /\ answer[1] <= answer[3] + http /\ answer[2] <= answer[3] + http
      BY <1>2, <1>3, <2>2
    <3> QED
      BY <1>2, <3>1
  <2>3. ASSUME Len(answer) >= 4
        PROVE  /\ answer[3] \in Nat /\ answer[4] \in Nat
               /\ answer[1] <= answer[3] + answer[4]
               /\ answer[2] <= answer[3] + answer[4]
               /\ answer[3] + answer[4] <= all'
    <3>1. /\ answer[3] \in Nat /\ answer[4] \in Nat /\ answer[3] + answer[4] <= all
          /\ answer[1] <= answer[3] + answer[4] /\ answer[2] <= answer[3] + answer[4]
      BY <1>3, <2>3
    <3> QED
      BY <1>2, <3>1
  <2> QED
    BY <2>1, <2>2, <2>3
<1> QED
  BY <1>3, <1>5 DEF SummaryInv

\* The bounds of the single statements are what SummaryAddsUp compares.
LEMMA AddsUp ==
    ASSUME RequestTyped, SummaryInv, SplitInv
    PROVE  SummaryAddsUp
<1>1. ASSUME Is("summary")
      PROVE  LET before == Within(request.before)
             IN /\ Count(before) <= answer[1] /\ answer[1] <= answer[3] + answer[4]
                /\ answer[3] + answer[4] <= Count(InPeriod)
                /\ Count(Sources(before)) <= answer[2]
                /\ answer[2] <= Count(Sources(InPeriod))
                /\ answer[2] <= answer[3] + answer[4]
  <2>0. Len(answer) = 4 /\ request.kind = "summary"
    BY <1>1 DEF SummaryInv, Is
  <2>1. /\ answer[1] \in Count(Within(request.before)) .. Count(InPeriod)
        /\ answer[2] \in Count(Sources(Within(request.before))) .. Count(Sources(InPeriod))
        /\ answer[1] <= answer[3] + answer[4]
        /\ answer[2] <= answer[3] + answer[4]
        /\ answer[3] + answer[4] <= Count(InPeriod)
    BY <2>0 DEF SummaryInv
  <2>2. /\ Count(Within(request.before)) \in Nat /\ Count(InPeriod) \in Nat
        /\ Count(Sources(Within(request.before))) \in Nat /\ Count(Sources(InPeriod)) \in Nat
    BY PeriodRows, PeriodGrows, Halves
  <2> QED
    BY <2>1, <2>2
<1>2. ASSUME Is("timeline")
      PROVE  LET total == [b \in DOMAIN answer[1] |-> answer[1][b].total]
             IN /\ SumFunction(total) \in Count(Within(request.before)) .. Count(InPeriod)
                /\ \A b \in DOMAIN total : total[b] = answer[1][b].ssh + answer[1][b].http
  BY <1>2 DEF SplitInv
<1> QED
  BY <1>1, <1>2 DEF SummaryAddsUp, SplitInv, Sources

\* The rows of a set by a key: their counts add up to the set.
LEMMA SplitByKey ==
    ASSUME NEW R, IsFiniteSet(R), NEW key, NEW S, IsFiniteSet(S), \A r \in R : key[r] \in S,
           NEW f, DOMAIN f = S, \A b \in S : f[b] = Cardinality(Keyed(R, key, b))
    PROVE  SumFunction(f) = Count(R)
<1>1. KeyedIn(R, key, S) = R
  BY DEF KeyedIn
<1>2. SumFunctionOnSet(f, S) = Cardinality(KeyedIn(R, key, S))
  BY SumOfCounts
<1> QED
  BY <1>1, <1>2 DEF SumFunction, Count

Buckets(width) == {Rows[r].at \div width : r \in InPeriod}
InBucket(width, b, p) ==
    {r \in InPeriod : Rows[r].at \div width = b /\ Rows[r].protocol \in p}
TimelineOf(width) ==
    [b \in Buckets(width) |-> [total |-> Count(InBucket(width, b, Protocols)),
                               ssh   |-> Count(InBucket(width, b, {"ssh"})),
                               http  |-> Count(InBucket(width, b, {"http"}))]]

\* get_timeline: every row of the period is in one bucket.
LEMMA TimelineFacts ==
    ASSUME RequestTyped, NEW width
    PROVE  /\ SumFunction([b \in DOMAIN TimelineOf(width) |-> TimelineOf(width)[b].total])
                  = Count(InPeriod)
           /\ \A b \in DOMAIN TimelineOf(width) :
                 TimelineOf(width)[b].total = TimelineOf(width)[b].ssh + TimelineOf(width)[b].http
<1> DEFINE f == [b \in DOMAIN TimelineOf(width) |-> TimelineOf(width)[b].total]
           S == Buckets(width)
           R == InPeriod
           key == [r \in R |-> Rows[r].at \div width]
<1>1. IsFiniteSet(R) /\ R \in SUBSET DOMAIN Rows
  BY PeriodRows
<1>2. IsFiniteSet(S)
  <2>1. key \in Surjection(R, S)
    BY DEF Surjection, Buckets
  <2> HIDE DEF key, R, S
  <2> QED
    BY <1>1, <2>1, FS_Surjection
<1>3. DOMAIN f = S /\ DOMAIN TimelineOf(width) = S
  BY DEF TimelineOf
<1>4. ASSUME NEW b \in S
      PROVE  /\ f[b] = Cardinality(Keyed(R, key, b))
             /\ TimelineOf(width)[b].total = TimelineOf(width)[b].ssh + TimelineOf(width)[b].http
  <2> DEFINE rows == Keyed(R, key, b)
  <2>1. \A r \in R : Rows[r].protocol \in Protocols
    BY <1>1, ApiAssumption
  <2>2. /\ InBucket(width, b, Protocols) = rows
        /\ InBucket(width, b, {"ssh"}) = Half(rows, "ssh")
        /\ InBucket(width, b, {"http"}) = Half(rows, "http")
    BY <2>1 DEF InBucket, Keyed, Half
  <2>3. rows \in SUBSET DOMAIN Rows /\ IsFiniteSet(rows)
    BY <1>1, FS_Subset DEF Keyed
  <2>4. TimelineOf(width)[b] = [total |-> Count(rows), ssh |-> Count(Half(rows, "ssh")),
                                http |-> Count(Half(rows, "http"))]
    BY <2>2 DEF TimelineOf
  <2>5. f[b] = TimelineOf(width)[b].total
    BY <1>3
  <2> HIDE DEF rows, f
  <2>6. Count(rows) = Count(Half(rows, "ssh")) + Count(Half(rows, "http"))
    BY <2>3, Halves
  <2> QED
    BY <2>4, <2>5, <2>6 DEF Count, rows
<1>5. \A r \in R : key[r] \in S
  BY DEF Buckets
<1> HIDE DEF f, S, R, key
<1>6. SumFunction(f) = Count(R)
  BY <1>1, <1>2, <1>3, <1>4, <1>5, SplitByKey
<1> QED
  BY <1>3, <1>4, <1>6 DEF f, R

\* count_by_attack_type and count_by_severity: every classified row of the
\* period has one type and one severity.
LEMMA TypesFacts ==
    ASSUME RequestTyped
    PROVE  /\ SumFunction([t \in TypesOf(InPeriod) |->
                  Count({r \in Classified(InPeriod) : Rows[r].type = t})])
                  = Count(Classified(InPeriod))
           /\ SumFunction([s \in Severities |->
                  Count({r \in Classified(InPeriod) : Rows[r].severity = s})])
                  = Count(Classified(InPeriod))
<1> DEFINE R == Classified(InPeriod)
           T == TypesOf(InPeriod)
           f == [t \in T |-> Count({r \in R : Rows[r].type = t})]
           g == [s \in Severities |-> Count({r \in R : Rows[r].severity = s})]
           typeOf == [r \in R |-> Rows[r].type]
           severityOf == [r \in R |-> Rows[r].severity]
<1>1. /\ IsFiniteSet(InPeriod) /\ InPeriod \in SUBSET DOMAIN Rows
      /\ R \subseteq InPeriod /\ IsFiniteSet(R) /\ IsFiniteSet(T)
  BY PeriodRows, FoundMonotonic, FS_Subset DEF Classified
<1>2. IsFiniteSet(Severities)
  <2>1. IsFiniteSet({"HIGH"})
    BY FS_Singleton
  <2>2. IsFiniteSet({"HIGH"} \cup {"MEDIUM"})
    BY <2>1, FS_AddElement
  <2>3. IsFiniteSet(({"HIGH"} \cup {"MEDIUM"}) \cup {"LOW"})
    BY <2>2, FS_AddElement
  <2>4. Severities = ({"HIGH"} \cup {"MEDIUM"}) \cup {"LOW"}
    BY DEF Severities
  <2> QED
    BY <2>3, <2>4
<1>3. /\ \A r \in R : typeOf[r] \in T
      /\ \A r \in R : severityOf[r] \in Severities
  BY <1>1, ApiAssumption DEF TypesOf, Classified
<1>4. /\ \A t \in T : f[t] = Cardinality(Keyed(R, typeOf, t))
      /\ \A s \in Severities : g[s] = Cardinality(Keyed(R, severityOf, s))
  <2>1. \A t : {r \in R : Rows[r].type = t} = Keyed(R, typeOf, t)
    BY DEF Keyed
  <2>2. \A s : {r \in R : Rows[r].severity = s} = Keyed(R, severityOf, s)
    BY DEF Keyed
  <2> QED
    BY <2>1, <2>2 DEF Count
<1>5. DOMAIN f = T /\ DOMAIN g = Severities
  OBVIOUS
<1> HIDE DEF R, T, f, g, typeOf, severityOf
<1>6. SumFunction(f) = Count(R)
  BY <1>1, <1>3, <1>4, <1>5, SplitByKey
<1>7. SumFunction(g) = Count(R)
  BY <1>1, <1>2, <1>3, <1>4, <1>5, SplitByKey
<1> QED
  BY <1>6, <1>7 DEF R, T, f, g

\* The one statement of these requests returns.
LEMMA SplitStep ==
    ASSUME RequestTyped, Timeline \/ AttackTypes \/ SeveritySummary
    PROVE  SplitInv'
<1>1. /\ Count(InPeriod) \in Count(Within(request.before)) .. Count(InPeriod)
      /\ Count(Classified(InPeriod))
            \in Count(Classified(Within(request.before))) .. Count(Classified(InPeriod))
  BY PeriodRows, PeriodGrows, Halves
<1>2. ASSUME NEW found, Len(answer) = 0, Result(found, TRUE)
      PROVE  /\ request'.kind = request.kind /\ answer'[1] = found
             /\ Within(request.before)' = Within(request.before) /\ InPeriod' = InPeriod
  <2>1. answer' = Append(answer, found) /\ Answered("ok") /\ table' = table
    BY <1>2 DEF Result
  <2>2. /\ request'.kind = request.kind /\ answer'[Len(answer) + 1] = found
        /\ Within(request.before)' = Within(request.before) /\ InPeriod' = InPeriod
    BY <2>1, ResultFacts
  <2> QED
    BY <1>2, <2>2
<1>3. CASE Timeline
  <2>1. request.kind = "timeline" /\ Len(answer) = 0
    BY <1>3 DEF Timeline, Pending
  <2>2. CASE Answered("failed")
    <3>1. request' = [request EXCEPT !.status = "failed"]
      BY <2>2 DEF Answered
    <3>2. request'.status = "failed"
      BY <3>1 DEF RequestTyped, Requests
    <3> QED
      BY <3>2 DEF SplitInv, Is
  <2>3. ASSUME NEW width, Result(TimelineOf(width), TRUE) PROVE SplitInv'
    <3> DEFINE found == TimelineOf(width)
    <3>1. /\ SumFunction([b \in DOMAIN found |-> found[b].total]) = Count(InPeriod)
          /\ \A b \in DOMAIN found : found[b].total = found[b].ssh + found[b].http
      BY TimelineFacts
    <3>2. /\ request'.kind = "timeline" /\ answer'[1] = found
          /\ Within(request.before)' = Within(request.before) /\ InPeriod' = InPeriod
      BY <1>2, <2>1, <2>3
    <3> HIDE DEF found
    <3>3. /\ SumFunction([b \in DOMAIN answer'[1] |-> answer'[1][b].total])
                 \in Count(Within(request.before)') .. Count(InPeriod')
          /\ \A b \in DOMAIN answer'[1] :
                answer'[1][b].total = answer'[1][b].ssh + answer'[1][b].http
      BY <1>1, <3>1, <3>2
    <3> QED
      BY <3>2, <3>3 DEF SplitInv, Is
  <2>4. Answered("failed") \/ \E width : Result(TimelineOf(width), TRUE)
    <3>1. ASSUME NEW months, NEW interval,
                 IF Unit(months, interval) = "quarter_hour"
                 THEN /\ Answered("failed")
                      /\ UNCHANGED <<now, table, answer, walk, up, geoVars>>
                 ELSE \E width : Result(TimelineOf(width), TRUE)
          PROVE  Answered("failed") \/ \E width : Result(TimelineOf(width), TRUE)
      BY <3>1
    <3> QED
      BY <1>3, <3>1 DEF Timeline, TimelineOf, Buckets, InBucket
  <2> QED
    BY <2>2, <2>3, <2>4
<1>4. CASE AttackTypes
  <2> DEFINE found == [t \in TypesOf(InPeriod) |->
                          Count({r \in Classified(InPeriod) : Rows[r].type = t})]
  <2>1. request.kind = "types" /\ Len(answer) = 0 /\ Result(found, TRUE)
    BY <1>4 DEF AttackTypes, Pending
  <2>2. SumFunction(found) = Count(Classified(InPeriod))
    BY TypesFacts
  <2> HIDE DEF found
  <2>3. /\ request'.kind = "types" /\ answer'[1] = found
        /\ Within(request.before)' = Within(request.before) /\ InPeriod' = InPeriod
    BY <1>2, <2>1
  <2>4. SumFunction(answer'[1])
            \in Count(Classified(Within(request.before)')) .. Count(Classified(InPeriod'))
    BY <1>1, <2>2, <2>3
  <2> QED
    BY <2>3, <2>4 DEF SplitInv, Is, Classified
<1>5. CASE SeveritySummary
  <2> DEFINE found == [s \in Severities |->
                          Count({r \in Classified(InPeriod) : Rows[r].severity = s})]
  <2>1. request.kind = "severity" /\ Len(answer) = 0 /\ Result(found, TRUE)
    BY <1>5 DEF SeveritySummary, Pending
  <2>2. SumFunction(found) = Count(Classified(InPeriod))
    BY TypesFacts
  <2> HIDE DEF found
  <2>3. /\ request'.kind = "severity" /\ answer'[1] = found
        /\ Within(request.before)' = Within(request.before) /\ InPeriod' = InPeriod
    BY <1>2, <2>1
  <2>4. SumFunction(answer'[1])
            \in Count(Classified(Within(request.before)')) .. Count(Classified(InPeriod'))
    BY <1>1, <2>2, <2>3
  <2> QED
    BY <2>3, <2>4 DEF SplitInv, Is, Classified
<1> QED
  BY <1>3, <1>4, <1>5

LEMMA SplitGrows ==
    ASSUME RequestTyped, SplitInv, UNCHANGED <<request, answer>>,
           table \subseteq table', IsFiniteSet(table'), table' \subseteq DOMAIN Rows
    PROVE  SplitInv'
<1> DEFINE S == InPeriod
           T == InPeriod'
<1>1. /\ S \subseteq T /\ IsFiniteSet(T) /\ T \in SUBSET DOMAIN Rows
      /\ Within(request.before)' = Within(request.before)
  <2>1. T \subseteq table'
    BY DEF InPeriod, Within
  <2>2. IsFiniteSet(T)
    BY <2>1, FS_Subset
  <2> QED
    BY <2>1, <2>2 DEF InPeriod, Within
<1>2. /\ Count(S) <= Count(T) /\ Count(S) \in Nat /\ Count(T) \in Nat
      /\ Count(Classified(S)) <= Count(Classified(T))
      /\ Count(Classified(S)) \in Nat /\ Count(Classified(T)) \in Nat
  <2> HIDE DEF S, T
  <2> QED
    BY <1>1, PeriodGrows
<1>3. /\ Count(Within(request.before)) \in Nat
      /\ Count(Classified(Within(request.before))) \in Nat
  BY PeriodRows, PeriodGrows
<1>4. ASSUME Is("timeline")
      PROVE  /\ SumFunction([b \in DOMAIN answer[1] |-> answer[1][b].total])
                   \in Count(Within(request.before)) .. Count(T)
             /\ \A b \in DOMAIN answer[1] :
                   answer[1][b].total = answer[1][b].ssh + answer[1][b].http
  <2> DEFINE sum == SumFunction([b \in DOMAIN answer[1] |-> answer[1][b].total])
  <2>1. /\ sum \in Count(Within(request.before)) .. Count(S)
        /\ \A b \in DOMAIN answer[1] :
              answer[1][b].total = answer[1][b].ssh + answer[1][b].http
    BY <1>4 DEF SplitInv
  <2> HIDE DEF sum, S, T
  <2>2. sum \in Count(Within(request.before)) .. Count(T)
    BY <1>2, <1>3, <2>1
  <2> QED
    BY <2>1, <2>2 DEF sum
<1>5. ASSUME Is("types") \/ Is("severity")
      PROVE  SumFunction(answer[1])
                 \in Count(Classified(Within(request.before))) .. Count(Classified(T))
  <2>1. SumFunction(answer[1])
            \in Count(Classified(Within(request.before))) .. Count(Classified(S))
    BY <1>5 DEF SplitInv
  <2> HIDE DEF S, T
  <2> QED
    BY <1>2, <1>3, <2>1
<1>6. Is("timeline")' = Is("timeline") /\ Is("types")' = Is("types")
      /\ Is("severity")' = Is("severity")
  BY DEF Is
<1> QED
  BY <1>1, <1>4, <1>5, <1>6 DEF SplitInv, Count, Classified

-----------------------------------------------------------------------------
(* Sizes.                                                                  *)

\* The parts of TypeOK, from the invariant.
LEMMA TypesBounded ==
    ASSUME RequestTyped, GeoInv, SizeInv
    PROVE  TypeOK
<1>1. Len(answer) <= Max({4, 2 * Candidates + 1})
  <2> DEFINE b == 2 * Candidates + 1
             m == Max({4, b})
  <2>1. b \in Nat /\ Len(answer) \in Nat
    BY ApiAssumption DEF RequestTyped
  <2>2. Len(answer) <= 4 \/ Len(answer) <= b
    BY DEF SizeInv, RankingSize
  <2> HIDE DEF b
  <2>3. \E x \in {4, b} : \A y \in {4, b} : x >= y
    BY <2>1
  <2>4. m \in {4, b} /\ m >= 4 /\ m >= b
    BY <2>3 DEF Max
  <2> HIDE DEF m
  <2>5. Len(answer) <= m
    BY <2>1, <2>2, <2>4
  <2> QED
    BY <2>5 DEF m, b
<1>2. walk.page \in 0 .. Cardinality(table) + 1
  BY FS_CardinalityType DEF RequestTyped, Walks, SizeInv, PageBounded
<1> QED
  BY <1>1, <1>2, GeoTyped DEF TypeOK, SizeInv, RequestTyped, Requests, Walks

\* Every statement but the details of a ranking has its place among the first four.
LEMMA EarlyStatement ==
    ASSUME OtherSelect \/ Profile \/ ListSelect
    PROVE  Len(answer) < 4
<1>1. \E kind : \E step \in {0, 1, 2, 3} : Pending(kind, step)
  <2>1. CASE Summary \/ AttackTypes \/ SeveritySummary
    BY <2>1 DEF Summary, AttackTypes, SeveritySummary
  <2>2. CASE Timeline
    BY <2>2 DEF Timeline
  <2>3. CASE IpGeo \/ GeoTopIPs \/ CountrySummary
    BY <2>3 DEF IpGeo, GeoTopIPs, CountrySummary
  <2>4. CASE Profile
    BY <2>4 DEF Profile
  <2>5. CASE ListSelect
    BY <2>5 DEF ListSelect, CountEvents, PageOfEvents
  <2> QED
    BY <2>1, <2>2, <2>3, <2>4, <2>5 DEF OtherSelect
<1>2. \E step \in {0, 1, 2, 3} : Len(answer) = step
  BY <1>1 DEF Pending
<1> QED
  BY <1>2

\* A statement with its place among the first four adds one part to the answer.
LEMMA SelectLengthens ==
    ASSUME RequestTyped, NEW kinds, Selects(kinds), Len(answer) < 4
    PROVE  Len(answer') <= 4
<1>0. Len(answer) \in Nat
  BY DEF RequestTyped
<1>1. CASE answer' = answer
  BY <1>0, <1>1
<1>2. ASSUME NEW x, answer' = Append(answer, x) PROVE Len(answer') <= 4
  <2>1. Len(Append(answer, x)) = Len(answer) + 1
    BY AppendFacts DEF RequestTyped
  <2> QED
    BY <1>0, <1>2, <2>1
<1> QED
  BY <1>1, <1>2 DEF Selects

\* No more pages than rows.
LEMMA PagesOfRows ==
    ASSUME NEW a \in Nat, NEW p \in Nat \ {0}
    PROVE  (a + p - 1) \div p <= a
<1> DEFINE q == (a + p - 1) \div p
<1>1. q \in Int /\ q * p <= a + p - 1
  <2>1. a + p - 1 \in Int /\ p > 0
    OBVIOUS
  <2> QED
    BY <2>1
<1> HIDE DEF q
<1>2. ASSUME q >= a + 1 PROVE FALSE
  <2>1. q * p >= (a + 1) * p
    BY <1>1, <1>2
  <2>2. (a + 1) * p = a * p + p
    OBVIOUS
  <2>3. a * p >= a
    OBVIOUS
  <2> QED
    BY <1>1, <2>1, <2>2, <2>3
<1> QED
  BY <1>1, <1>2 DEF q

\* What changes besides the request.
LEMMA ClockAndProcess ==
    ASSUME SizeInv, [Next]_vars
    PROVE  now' \in Day + 1 .. MaxTime /\ up' \in BOOLEAN
<1>1. now' \in Day + 1 .. MaxTime
  <2>1. now' = now \/ (now < MaxTime /\ now' = now + 1)
    BY StepCases
  <2>2. Day \in Nat /\ MaxTime \in Nat
    BY ApiAssumption
  <2> QED
    BY <2>1, <2>2 DEF SizeInv
<1>2. up' \in BOOLEAN
  <2>1. CASE UNCHANGED vars \/ Tick \/ \E r \in DOMAIN Rows : Insert(r)
    BY <2>1 DEF vars, Tick, Insert, SizeInv
  <2>2. CASE Begins \/ (\E ip \in IPs \cup {"any"} : AskPage(ip)) \/ Leave
    BY <2>2 DEF Begins, Begin, BeginCountry, AskPage, Opened, Leave, SizeInv
  <2>3. CASE Summary \/ Timeline \/ AttackTypes \/ SeveritySummary
    BY <2>3 DEF Summary, Timeline, AttackTypes, SeveritySummary, Result, SizeInv
  <2>4. CASE CountEvents \/ PageOfEvents \/ RankCandidates \/ RankDetails \/ Profile
    BY <2>4 DEF CountEvents, PageOfEvents, ShowPage, RankCandidates, RankDetails, Profile,
                Result, SizeInv
  <2>5. CASE IpGeo \/ GeoTopIPs \/ CountrySummary
    BY <2>5 DEF IpGeo, GeoTopIPs, CountrySummary, Resolved, SizeInv
  <2>6. CASE ShutDown
    BY <2>6 DEF ShutDown
  <2> QED
    BY <2>1, <2>2, <2>3, <2>4, <2>5, <2>6 DEF Next, Begins
<1> QED
  BY <1>1, <1>2

\* RankCandidates and RankDetails.
LEMMA RankingSizeStep ==
    ASSUME RequestTyped, SizeInv, RankCandidates \/ RankDetails
    PROVE  request'.kind = "ranking" /\ RankingSize'
<1>0. Candidates \in Nat
  BY ApiAssumption
<1>1. CASE RankCandidates
  <2>1. PICK s \in TopIPs(InPeriod, Candidates) :
            Result([n \in DOMAIN s |->
                      [ip |-> s[n], total |-> Count(Of(InPeriod, s[n]))]], s = <<>>)
    BY <1>1 DEF RankCandidates
  <2> DEFINE found == [n \in DOMAIN s |-> [ip |-> s[n], total |-> Count(Of(InPeriod, s[n]))]]
  <2>2. s \in Seq(IPs) /\ Len(s) <= Candidates /\ Len(s) \in Nat
    BY <1>0, TopIPsComplete
  <2>3. Len(found) = Len(s)
    BY <2>2
  <2> HIDE DEF found
  <2>4. Len(answer) = 0 /\ request.kind = "ranking"
    BY <1>1 DEF RankCandidates, Pending
  <2>5. ASSUME NEW status, Answered(status), answer' = Append(answer, found), table' = table
        PROVE  /\ request'.kind = "ranking" /\ request'.status = status
               /\ Len(answer') = 1 /\ answer'[1] = found
    BY <2>4, <2>5, ResultFacts
  <2>6. CASE s = <<>>
    <3>1. Answered("ok") /\ answer' = Append(answer, found) /\ table' = table
      BY <2>1, <2>6 DEF Result, found
    <3>2. /\ request'.kind = "ranking" /\ request'.status = "ok"
          /\ Len(answer') = 1 /\ answer'[1] = found
      BY <2>5, <3>1
    <3> QED
      BY <1>0, <2>2, <2>3, <3>2 DEF RankingSize, Open
  <2>7. CASE s # <<>>
    <3>1. Answered("open") /\ answer' = Append(answer, found) /\ table' = table
      BY <2>1, <2>7 DEF Result, found
    <3>2. /\ request'.kind = "ranking" /\ Len(answer') = 1 /\ answer'[1] = found
      BY <2>5, <3>1
    <3>3. Len(s) # 0
      BY <2>2, <2>7, EmptySeq
    <3> QED
      BY <1>0, <2>2, <2>3, <3>2, <3>3 DEF RankingSize
  <2> QED
    BY <2>6, <2>7
<1>2. CASE RankDetails
  <2> DEFINE L == Len(answer)
             K == Len(answer[1])
  <2>1. /\ request.kind = "ranking" /\ Open /\ L > 0 /\ L \in Nat
        /\ K \in Nat /\ K <= Candidates /\ L <= 2 * K
    BY <1>2 DEF RankDetails, RequestTyped, SizeInv, RankingSize
  <2>2. ASSUME NEW found, NEW status,
               Answered(status), answer' = Append(answer, found), table' = table
        PROVE  /\ request'.kind = "ranking" /\ request'.status = status
               /\ Len(answer') = L + 1 /\ Len(answer'[1]) = K
    <3>1. /\ request'.kind = request.kind /\ request'.status = status
          /\ Len(answer') = L + 1 /\ \A n \in 1 .. L : answer'[n] = answer[n]
      BY <2>2, ResultFacts
    <3>2. 1 \in 1 .. L
      BY <2>1
    <3> QED
      BY <2>1, <3>1, <3>2
  <2>3. CASE L % 2 = 1
    <3>1. /\ request'.kind = "ranking" /\ Len(answer') = L + 1 /\ Len(answer'[1]) = K
      <4>1. \E found : Result(found, FALSE)
        BY <1>2, <2>3 DEF RankDetails
      <4> QED
        BY <2>2, <4>1 DEF Result
    <3>2. L + 1 <= 2 * K
      BY <2>1, <2>3
    <3> HIDE DEF L, K
    <3>3. L + 1 <= 2 * Candidates + 1
      BY <1>0, <2>1
    <3> QED
      BY <2>1, <3>1, <3>2, <3>3 DEF RankingSize
  <2>4. CASE L % 2 # 1
    <3>1. CASE L = 2 * K
      <4>1. \E found : Answered("ok") /\ answer' = Append(answer, found) /\ table' = table
        BY <1>2, <2>4, <3>1 DEF RankDetails, Result
      <4>2. /\ request'.kind = "ranking" /\ request'.status = "ok"
            /\ Len(answer') = L + 1 /\ Len(answer'[1]) = K
        BY <2>2, <4>1
      <4>3. L + 1 <= 2 * Candidates + 1
        <5> HIDE DEF L, K
        <5> QED
          BY <1>0, <2>1
      <4> QED
        BY <2>1, <4>2, <4>3 DEF RankingSize, Open
    <3>2. CASE L # 2 * K
      <4>1. \E found : Answered("open") /\ answer' = Append(answer, found) /\ table' = table
        BY <1>2, <2>4, <3>2 DEF RankDetails, Result
      <4>2. /\ request'.kind = "ranking"
            /\ Len(answer') = L + 1 /\ Len(answer'[1]) = K
        BY <2>2, <4>1
      <4>3. L + 1 <= 2 * Candidates + 1 /\ L + 1 <= 2 * K
        <5> HIDE DEF L, K
        <5> QED
          BY <1>0, <2>1, <3>2
      <4> QED
        BY <2>1, <4>2, <4>3 DEF RankingSize
    <3> QED
      BY <3>1, <3>2
  <2> QED
    BY <2>3, <2>4
<1> QED
  BY <1>1, <1>2

\* The end of a period: the clock when the request came in, or given.
LEMMA UntilBounded ==
    ASSUME RequestTyped, SizeInv, [Next]_vars
    PROVE  request'.until \in 0 .. MaxTime
<1>0. /\ Day \in Nat /\ MaxTime \in Nat /\ now \in 0 .. MaxTime /\ now - 1 \in 0 .. MaxTime
      /\ MaxTime \in 0 .. MaxTime /\ 0 \in 0 .. MaxTime
  BY ApiAssumption DEF SizeInv
<1>1. CASE UNCHANGED request
  BY <1>1 DEF SizeInv
<1>2. CASE Begins
  BY <1>0, <1>2 DEF Begins, Begin, BeginCountry, Opened
<1>3. CASE \E ip \in IPs \cup {"any"} : AskPage(ip)
  BY <1>0, <1>3 DEF AskPage, Opened
<1>4. CASE Leave \/ ShutDown
  BY <1>0, <1>4 DEF Leave, ShutDown, Closed
<1>5. CASE OtherSelect \/ RiskSelect \/ ListSelect
  BY <1>5, OtherSelects, RiskSelects, ListSelects, SelectsTyped DEF SizeInv
<1>6. CASE \E r \in DOMAIN Rows : Insert(r)
  BY <1>1, <1>6 DEF Insert
<1> QED
  BY <1>1, <1>2, <1>3, <1>4, <1>5, <1>6, StepCases

\* A new request, or none, has no answer yet.
LEMMA AnswerSizeStep ==
    ASSUME RequestTyped, SizeInv, [Next]_vars
    PROVE  /\ request'.kind # "ranking" => Len(answer') <= 4
           /\ request'.kind = "ranking" => RankingSize'
<1>0. Candidates \in Nat
  BY ApiAssumption
<1>1. ASSUME Len(answer') = 0
      PROVE  /\ request'.kind # "ranking" => Len(answer') <= 4
             /\ request'.kind = "ranking" => RankingSize'
  BY <1>0, <1>1 DEF RankingSize
<1>2. CASE UNCHANGED <<request, answer>>
  BY <1>2 DEF SizeInv, RankingSize, Open
<1>3. CASE \E r \in DOMAIN Rows : Insert(r)
  BY <1>2, <1>3 DEF Insert
<1>4. CASE Begins \/ (\E ip \in IPs \cup {"any"} : AskPage(ip)) \/ Leave \/ ShutDown
  <2>1. answer' = <<>>
    BY <1>4 DEF Begins, Begin, BeginCountry, AskPage, Opened, Leave, ShutDown
  <2> QED
    BY <1>1, <2>1, EmptySeq
<1>5. CASE RankCandidates \/ RankDetails
  BY <1>5, RankingSizeStep
<1>6. CASE OtherSelect \/ Profile \/ ListSelect
  <2>1. Len(answer') <= 4
    BY <1>6, EarlyStatement, SelectLengthens, OtherSelects, RiskSelects, ListSelects DEF RiskSelect
  <2>2. request'.kind # "ranking"
    <3>1. CASE OtherSelect
      BY <3>1, OtherSelects, SelectsTyped DEF OtherKinds, Risks
    <3>2. CASE Profile
      <4>1. Selects(Risks) /\ request.kind = "profile"
        BY <3>2, RiskSelects DEF RiskSelect, Profile, Pending
      <4> QED
        BY <4>1, SelectsTyped
    <3>3. CASE ListSelect
      BY <3>3, ListSelects, SelectsTyped DEF Lists
    <3> QED
      BY <1>6, <3>1, <3>2, <3>3
  <2> QED
    BY <2>1, <2>2
<1> QED
  BY <1>2, <1>3, <1>4, <1>5, <1>6, StepCases DEF RiskSelect

\* The client asks for the next page while there is one.
LEMMA PageStep ==
    ASSUME RequestTyped, WalkInv, PageBounded, [Next]_vars
    PROVE  PageBounded'
<1> DEFINE n == Cardinality(table)
<1>0. n \in Nat /\ walk.page \in Nat
  BY FS_CardinalityType DEF RequestTyped, Walks
<1>1. CASE /\ UNCHANGED <<answer, walk>> /\ table \subseteq table'
  <2>1. IsFiniteSet(table')
    BY TypedStep DEF RequestTyped
  <2>2. Cardinality(table) <= Cardinality(table') /\ Cardinality(table') \in Nat
    BY <1>1, <2>1, FoundMonotonic
  <2> QED
    BY <1>0, <1>1, <2>2 DEF PageBounded, Walking
<1>2. CASE Begins
  BY <1>2, BeginReopens DEF PageBounded, Reopens, Walking
<1>3. CASE \E ip \in IPs \cup {"any"} : AskPage(ip)
  <2>1. PICK ip \in IPs \cup {"any"} : AskPage(ip)
    BY <1>3
  <2>2. table' = table /\ Len(answer') = 0
    BY <2>1, AskReopens, EmptySeq DEF Reopens
  <2>3. walk'.page <= n + 1
    <3>1. CASE Walking
      <4>1. ~Open /\ walk.page < Pages
        BY <2>1, <3>1 DEF AskPage
      <4>2. Len(answer) > 0 /\ answer[1] \in Nat
        BY <3>1, <4>1 DEF WalkInv
      <4>3. answer[1] <= n
        BY <3>1, <4>2 DEF PageBounded
      <4>4. Pages <= answer[1]
        BY <4>2, ApiAssumption, PagesOfRows DEF Pages
      <4>5. walk' = [walk EXCEPT !.page = @ + 1]
        BY <2>1, <3>1 DEF AskPage
      <4>6. walk'.page = walk.page + 1
        BY <4>5 DEF RequestTyped, Walks
      <4>7. Pages \in Int
        BY <4>2, ApiAssumption DEF Pages
      <4> HIDE DEF n
      <4> QED
        BY <1>0, <4>1, <4>2, <4>3, <4>4, <4>6, <4>7
    <3>2. CASE ~Walking
      <4>1. walk' = [NoWalk EXCEPT !.page = 1, !.began = table]
        BY <2>1, <3>2 DEF AskPage
      <4>2. walk'.page = 1
        BY <4>1 DEF NoWalk
      <4> QED
        BY <1>0, <4>2
    <3> QED
      BY <3>1, <3>2
  <2> QED
    BY <2>2, <2>3 DEF PageBounded
<1>4. CASE Leave \/ ShutDown
  <2>1. walk' = NoWalk /\ table' = table
    BY <1>4, EndReopens DEF Reopens
  <2> QED
    BY <1>0, <2>1 DEF PageBounded, NoWalk, Walking
<1>5. CASE OtherSelect \/ RiskSelect
  <2>1. walk' = walk /\ table' = table
    BY <1>5, OtherSelects, RiskSelects DEF Selects
  <2>2. ~Walking
    <3>1. request.kind # "events"
      BY <1>5, OtherSelects, RiskSelects DEF Selects, OtherKinds, Lists, Risks
    <3> QED
      BY <3>1 DEF WalkInv
  <2> QED
    BY <2>1, <2>2 DEF PageBounded, Walking
<1>6. CASE CountEvents
  <2> DEFINE found == Count(Listed(table))
  <2>1. found \in Nat /\ found <= n
    <3>1. Listed(table) \subseteq table
      BY DEF Listed, Of
    <3> QED
      BY <3>1, FoundMonotonic DEF RequestTyped, Count
  <2>2. /\ answer' = Append(answer, found) /\ walk' = walk /\ table' = table
        /\ Len(answer) = 0
    BY <1>6 DEF CountEvents, Result, Pending
  <2> HIDE DEF found
  <2>3. answer'[Len(answer) + 1] = found
    BY <2>2, AppendFacts DEF RequestTyped
  <2>4. answer'[1] = found
    BY <2>2, <2>3
  <2> QED
    BY <2>1, <2>2, <2>4 DEF PageBounded
<1>7. CASE PageOfEvents
  <2>1. PICK X : answer' = Append(answer, X) /\ walk'.page = walk.page /\ table' = table
    BY <1>7, PageFacts DEF PageOfEvents, ShowPage
  <2>2. Len(answer) = 1
    BY <1>7 DEF PageOfEvents, Pending
  <2>3. answer'[1] = answer[1]
    BY <2>1, <2>2, AppendFacts DEF RequestTyped
  <2> QED
    BY <2>1, <2>2, <2>3 DEF PageBounded, Walking
<1> QED
  BY <1>1, <1>2, <1>3, <1>4, <1>5, <1>6, <1>7, StepCases DEF ListSelect, Insert

-----------------------------------------------------------------------------
(* The steps, all together.                                                *)

\* Every step keeps the bounds of the summaries.
LEMMA SummariesStep ==
    ASSUME RequestTyped, SummaryInv, SplitInv, [Next]_vars
    PROVE  SummaryInv' /\ SplitInv'
<1>1. CASE UNCHANGED <<table, request, answer, walk>> \/ \E r \in DOMAIN Rows : Insert(r)
  <2>1. UNCHANGED <<request, answer>> /\ table \subseteq table'
    BY <1>1 DEF Insert
  <2>2. IsFiniteSet(table') /\ table' \subseteq DOMAIN Rows
    BY TypedStep DEF RequestTyped
  <2> QED
    BY <2>1, <2>2, SummaryGrows, SplitGrows
<1>2. ASSUME request'.kind \notin {"summary", "timeline", "types", "severity"}
      PROVE  SummaryInv' /\ SplitInv'
  BY <1>2 DEF SummaryInv, SplitInv, Is
<1>3. CASE Begins
  <2>1. answer' = <<>> /\ request'.status # "ok"
    BY <1>3 DEF Begins, Begin, BeginCountry, Opened
  <2>2. Len(answer') = 0
    BY <2>1, EmptySeq
  <2> QED
    BY <2>1, <2>2 DEF SummaryInv, SplitInv, Is
<1>4. CASE \E ip \in IPs \cup {"any"} : AskPage(ip)
  BY <1>2, <1>4, AskReopens
<1>5. CASE Leave \/ ShutDown
  BY <1>2, <1>5, EndReopens
<1>6. CASE RiskSelect
  BY <1>2, <1>6, RiskSelects, SelectsTyped DEF Risks
<1>7. CASE ListSelect
  BY <1>2, <1>7, ListSelects, SelectsTyped DEF Lists
<1>8. CASE IpGeo \/ GeoTopIPs \/ CountrySummary
  <2>1. request'.kind = request.kind
    BY <1>8, OtherSelects, SelectsTyped DEF OtherSelect
  <2> QED
    BY <1>2, <1>8, <2>1 DEF IpGeo, GeoTopIPs, CountrySummary, Pending
<1>9. CASE Summary
  <2>1. request'.kind = request.kind /\ request.kind = "summary"
    BY <1>9, OtherSelects, SelectsTyped DEF OtherSelect, Summary, Pending
  <2> QED
    BY <1>9, <2>1, SummaryStep DEF SplitInv, Is
<1>10. CASE Timeline \/ AttackTypes \/ SeveritySummary
  <2>1. request'.kind = request.kind
    BY <1>10, OtherSelects, SelectsTyped DEF OtherSelect
  <2>2. request.kind # "summary"
    BY <1>10 DEF Timeline, AttackTypes, SeveritySummary, Pending
  <2> QED
    BY <1>10, <2>1, <2>2, SplitStep DEF SummaryInv
<1> QED
  BY <1>1, <1>3, <1>4, <1>5, <1>6, <1>7, <1>8, <1>9, <1>10, StepCases DEF OtherSelect

\* Every step keeps the sizes.
LEMMA SizeStep ==
    ASSUME RequestTyped, WalkInv, SizeInv, [Next]_vars
    PROVE  SizeInv'
<1>1. PageBounded'
  BY PageStep DEF SizeInv
<1> QED
  BY <1>1, ClockAndProcess, UntilBounded, AnswerSizeStep DEF SizeInv

LEMMA StepPreserves == IInv /\ [Next]_vars => IInv'
BY TypedStep, WalkStep, RiskStep, SummariesStep, GeoStep, PlacesStep, SizeStep DEF IInv

LEMMA InitEstablishes == Init => IInv
<1> SUFFICES ASSUME Init PROVE IInv
  OBVIOUS
<1>1. RequestTyped
  BY TypedInit
<1>2. ~Walking /\ request.kind = "none" /\ walk.page = 0
  BY DEF Init, Walking, NoWalk, Closed
<1>3. SizeInv
  <2>1. Len(answer) = 0 /\ request.until = 0 /\ up = TRUE /\ now = Day + 1
    BY EmptySeq DEF Init, Closed
  <2>2. Day \in Nat /\ MaxTime \in Nat /\ MaxTime > Day /\ Cardinality(table) \in Nat
    BY <1>1, ApiAssumption, FS_CardinalityType DEF RequestTyped
  <2> QED
    BY <1>2, <2>1, <2>2 DEF SizeInv, PageBounded
<1> QED
  BY <1>1, <1>2, <1>3, GeoInitial
     DEF IInv, WalkInv, WalkShowsAll, ProfileInv, RankingInv, SummaryInv, SplitInv, PlacesTrue, Is

-----------------------------------------------------------------------------
(* The theorems.                                                           *)

\* Requests are well formed, a row of the list that has not been seen has the
\* pages that were shown above it, each statement of a risk score or a summary
\* found no less than there was and no more than there is, the resolver's cache
\* is what its history leaves of it, and places are the database's.
THEOREM InductiveInvariant == Spec => []IInv
<1>1. Init => IInv
  BY InitEstablishes
<1>2. IInv /\ [Next]_vars => IInv'
  BY StepPreserves
<1> QED
  BY <1>1, <1>2, PTL DEF Spec

\* list_events: whoever walks the list to its end has seen every row that was
\* there at the beginning, though rows came in between the pages.
THEOREM WalkComplete == Spec => []WalkShowsAll
<1>1. IInv => WalkShowsAll
  BY DEF IInv
<1> QED
  BY <1>1, InductiveInvariant, PTL

\* get_ip_profile and get_risk_ranking: a score put together from several
\* statements lies between that of the first table and that of the last; in a
\* ranking, the first is taken of the period alone, and the last with the types
\* and severities of all times.
THEOREM RiskBetween == Spec => []RiskBracketed
<1>1. IInv => RiskBracketed
  <2> SUFFICES ASSUME IInv PROVE RiskBracketed
    OBVIOUS
  <2>1. RequestTyped /\ ProfileInv /\ RankingInv
    BY DEF IInv
  <2>2. ASSUME Is("profile")
        PROVE  Score(answer[1], answer[2], answer[3])
                   \in Score(Count(Of(request.before, request.ip)),
                             TypesOf(Of(request.before, request.ip)),
                             SeveritiesOf(Of(request.before, request.ip))) ..
                       Score(Count(Of(table, request.ip)), TypesOf(Of(table, request.ip)),
                             SeveritiesOf(Of(table, request.ip)))
    BY <2>1, <2>2, ProfileBracketed
  <2>3. ASSUME Is("ranking"), NEW n \in DOMAIN answer[1], NEW ip, ip = answer[1][n].ip
        PROVE  RankScore(n)
                   \in Score(Count(Of(Within(request.before), ip)),
                             TypesOf(Of(Within(request.before), ip)),
                             SeveritiesOf(Of(Within(request.before), ip))) ..
                       Score(Count(Of(InPeriod, ip)), TypesOf(Of(table, ip)),
                             SeveritiesOf(Of(table, ip)))
    BY <2>1, <2>3, CandidateBracketed
  <2> QED
    BY <2>2, <2>3 DEF RiskBracketed
<1> QED
  BY <1>1, InductiveInvariant, PTL

\* The API's state has its types: periods end by the clock's bound, an answer
\* has as many parts as its request has statements, a client walks no more
\* pages than there are, and the cache keeps to GEOIP_CACHE_SIZE.
THEOREM Typed == Spec => []TypeOK
<1>1. IInv => TypeOK
  BY TypesBounded DEF IInv
<1> QED
  BY <1>1, InductiveInvariant, PTL

\* get_summary, get_timeline, count_by_attack_type, count_by_severity: figures
\* of several statements add up, and none counts what is not in the period or
\* misses what was there when the request came in.
THEOREM SummariesAddUp == Spec => []SummaryAddsUp
<1>1. IInv => SummaryAddsUp
  BY AddsUp DEF IInv
<1> QED
  BY <1>1, InductiveInvariant, PTL

\* get_ip_geo, get_geo_top_ips, get_country_summary: whatever is in the
\* resolver's cache, an address stands where the database has it, and the
\* events of a country are those of its addresses.
THEOREM PlacesCorrect == Spec => []PlacesTrue
<1>1. IInv => PlacesTrue
  BY DEF IInv
<1> QED
  BY <1>1, InductiveInvariant, PTL

\* GeoIPResolver's cache: the addresses resolved last, whatever its size.
THEOREM CacheLeastRecentlyUsed == Spec => []CacheIsMostRecent
<1>1. IInv => CacheIsMostRecent
  BY GeoTyped DEF IInv
<1> QED
  BY <1>1, InductiveInvariant, PTL

================================================================================
