------------------------------ MODULE GeoResolver ------------------------------
(***************************************************************************)
(* GeoIPResolver (analysis/geoip.py): addresses are turned into places by  *)
(* a MaxMind database, behind an LRU cache that lives as long as the API   *)
(* process and keeps unresolved answers too; and CountryAggregator, which  *)
(* resolves a list of addresses and adds up their events by country.       *)
(*                                                                         *)
(* Nothing in here awaits: a request resolves all its addresses in one     *)
(* step.  A country is a number, in the order of the country codes; a      *)
(* place is its country.                                                   *)
(***************************************************************************)
EXTENDS Integers, Sequences, SequencesExt

CONSTANTS
    Addresses,      \* what resolve may be asked for
    Place,          \* the database: public addresses to countries or Unresolved
    Unresolved,     \* no country; the number of UNKNOWN_COUNTRY in an aggregate
    Damaged,        \* public addresses whose records the reader cannot decode
    Enabled,        \* GEOIP_ENABLED
    CacheSize       \* GEOIP_CACHE_SIZE

Public == DOMAIN Place

\* What is assumed of the constants.
GeoAssumption ==
    /\ Public \subseteq Addresses
    /\ \A a \in Public : Place[a] \in Nat
    /\ Unresolved \in Nat
    /\ Damaged \subseteq Public
    /\ Enabled \in BOOLEAN
    /\ CacheSize \in Int

VARIABLES
    reader,         \* _reader is not None
    cache,          \* _cache: an OrderedDict, the oldest entry first
    recent          \* the public addresses by last use, none evicted (history)

TypeOK ==
    /\ reader \in BOOLEAN
    /\ cache \in Seq([ip : Public, place : Nat])
    /\ Len(cache) <= IF CacheSize > 0 THEN CacheSize ELSE 0
    /\ recent \in Seq(Public)

\* load: the file may be missing or broken.
Init ==
    /\ reader \in BOOLEAN
    /\ cache = <<>>
    /\ recent = <<>>

-----------------------------------------------------------------------------
(* resolve, as functions of the cache it starts from.                      *)

Usable == Enabled /\ reader

Without(c, ip) == RemoveFirstMatch(c, LAMBDA e : e.ip = ip)

\* Where the address is in the cache: at one place or nowhere.
Cached(c, ip) == {n \in DOMAIN c : c[n].ip = ip}
Entry(c, ip) == c[CHOOSE n \in Cached(c, ip) : TRUE]

\* Mutant: a hit does not make the entry the newest.
TouchedNot(c, ip) == c

\* move_to_end of a hit.
Touched(c, ip) == Append(Without(c, ip), Entry(c, ip))

\* Mutant: the entry of another address is overwritten when the cache is full.
CachePutReusing(c, ip, place) ==
    IF Len(c) < CacheSize
    THEN Append(c, [ip |-> ip, place |-> place])
    ELSE Append(Tail(c), [ip |-> c[1].ip, place |-> place])

\* Mutant: room is made only when the cache is over its bound already.
CachePutOver(c, ip, place) ==
    LET all == Append(Without(c, ip), [ip |-> ip, place |-> place])
    IN IF CacheSize <= 0 THEN c
       ELSE IF Len(c) <= CacheSize THEN all
       ELSE SubSeq(all, Len(all) - CacheSize + 1, Len(all))

\* _cache_put: the oldest entries make room.
CachePut(c, ip, place) ==
    LET all == Append(Without(c, ip), [ip |-> ip, place |-> place])
    IN IF CacheSize <= 0 THEN c
       ELSE IF Len(all) <= CacheSize THEN all
       ELSE SubSeq(all, Len(all) - CacheSize + 1, Len(all))

\* What resolve(ip) returns and leaves in the cache; raises: _lookup let an
\* exception through that is not AddressNotFoundError.
Resolution(c, ip) ==
    LET result(place, after, raises) ==
            [place |-> place, cache |-> after, raises |-> raises]
    IN IF ~Usable \/ ip \notin Public
       THEN result(Unresolved, c, FALSE)
       ELSE IF Cached(c, ip) # {}
       THEN result(Entry(c, ip).place, Touched(c, ip), FALSE)
       ELSE IF ip \in Damaged
       THEN result(Unresolved, c, TRUE)
       ELSE result(Place[ip], CachePut(c, ip, Place[ip]), FALSE)

\* One address more, unless an earlier one raised.
ResolveNext(acc, ip) ==
    LET r == Resolution(acc.cache, ip)
    IN IF acc.raises THEN acc
       ELSE [places |-> Append(acc.places, r.place),
             cache  |-> r.cache,
             raises |-> r.raises,
             recent |-> IF r.raises \/ ~Usable \/ ip \notin Public
                        THEN acc.recent
                        ELSE Append(RemoveFirst(acc.recent, ip), ip)]

\* The addresses resolved one after the other, up to the first that raises.
ResolveAll(ips) ==
    FoldLeft(ResolveNext,
             [places |-> <<>>, cache |-> cache, raises |-> FALSE, recent |-> recent],
             ips)

\* A request resolves ips, which leaves their places in the cache.
Resolve(ips) ==
    /\ cache' = ResolveAll(ips).cache
    /\ recent' = ResolveAll(ips).recent
    /\ UNCHANGED reader

\* CountryAggregator.aggregate: counts[n] events of an address at places[n].
\* (max_countries is beyond the number of countries.)
Aggregate(counts, places) ==
    [c \in ToSet(places) |->
        SumFunctionOnSet(counts, {n \in DOMAIN places : places[n] = c})]

\* lifespan closes the reader at shutdown.
Close ==
    /\ reader' = FALSE
    /\ UNCHANGED <<cache, recent>>

-----------------------------------------------------------------------------
(* Correctness.                                                            *)

\* "evicts the oldest when full" (geoip.py:96): whatever requests came in
\* whatever order, the cache holds exactly the CacheSize addresses resolved
\* last, in the order of their last use, each with what the database says.
CacheIsMostRecent ==
    LET bound == IF CacheSize > 0 THEN CacheSize ELSE 0
        kept == IF Len(recent) > bound THEN bound ELSE Len(recent)
    IN cache = [n \in 1 .. kept |->
                  LET ip == recent[Len(recent) - kept + n]
                  IN [ip |-> ip, place |-> Place[ip]]]

=============================================================================
