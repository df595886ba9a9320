------------------------------- MODULE IPContext -------------------------------
(***************************************************************************)
(* IPContextStore.update_and_get (detection/ipcontext.py) as the workers   *)
(* call it, and the classification made from its answer                    *)
(* (EventWorker._classify_event).                                          *)
(*                                                                         *)
(* A worker reads the clock, then awaits one pipelined transaction that    *)
(* records the attempt under that reading, trims the attempts outside the  *)
(* window and counts the rest.  Between the two, other workers read their  *)
(* clocks and run theirs: transactions need not run in the order of their  *)
(* time stamps.  Two readings never give the same value (time.time has a   *)
(* resolution below a microsecond); all clocks are one clock.              *)
(* A worker that dies at the await leaves the traces of one whose answer   *)
(* was lost, or of a transaction that did not run.                         *)
(***************************************************************************)
EXTENDS Classifier, Sequences

CONSTANTS
    Workers,
    IPs,            \* source addresses
    Ports,          \* destination ports the honeypots report
    Kinds,          \* what the rules see of an event, with its port
    Window,         \* attack_types.brute_force.time_window
    TTL,            \* CONTEXT_TTL
    MaxTime,        \* bound: the clock
    MaxEvents,      \* bound: events classified
    MaxFaults       \* bound: failed transactions and lost keys

Events == {[ip |-> i, port |-> k.port, protocol |-> k.protocol,
            type |-> k.type, injects |-> k.injects, weak |-> k.weak,
            scans |-> k.scans] : i \in IPs, k \in Kinds}

ASSUME ContextAssumption ==
    /\ IsFiniteSet(Ports)
    /\ Kinds \subseteq [port : Ports, protocol : Protocols, type : EventTypes,
                        injects : BOOLEAN, weak : BOOLEAN, scans : BOOLEAN]
    /\ Window \in Nat \ {0}
    /\ TTL \in Nat \ {0}
    /\ MaxTime \in Nat
    /\ MaxEvents \in Nat
    /\ MaxFaults \in Nat

VARIABLES
    now,            \* the clock
    lastRead,       \* when it was last read
    \* Redis, per source address
    attempts,       \* the sorted set: members [at, port], scored by at
    ports,          \* the set of ports
    expiry,         \* when both keys expire
    \* workers
    asked,          \* the transactions awaited: worker, event and time stamp
    \* history and bounds
    done,           \* every classification, in the order of the transactions
    losses,         \* how often Redis lost the keys
    faults

vars == <<now, lastRead, attempts, ports, expiry, asked, done, losses, faults>>

Jobs == [by : Workers, event : Events, at : Nat]
Members == [at : Nat, port : Ports]

\* outcome: the transaction ran and was answered (ok), ran and its answer was
\* lost (lost), or did not run (failed).
Classifications ==
    [event : Events, at : Nat, ran : Nat, outcome : {"ok", "lost", "failed"},
     seen : SUBSET Members, ports : SUBSET Ports,
     result : [type : AttackTypes, severity : Severities]]

TypeOK ==
    /\ now \in 1 .. MaxTime + 1
    /\ lastRead \in 0 .. now
    /\ attempts \in [IPs -> SUBSET Members]
    /\ ports \in [IPs -> SUBSET Ports]
    /\ expiry \in [IPs -> Nat]
    /\ asked \subseteq Jobs
    /\ done \in Seq(Classifications)
    /\ losses \in Nat
    /\ faults \in Nat

Init ==
    /\ now = 1
    /\ lastRead = 0
    /\ attempts = [i \in IPs |-> {}]
    /\ ports = [i \in IPs |-> {}]
    /\ expiry = [i \in IPs |-> 0]
    /\ asked = {}
    /\ done = <<>>
    /\ losses = 0
    /\ faults = 0

-----------------------------------------------------------------------------
(* The transaction.                                                        *)

\* What a key still holds: Redis drops it when its TTL is over.
Alive(i, S) == IF expiry[i] > now THEN S ELSE {}

\* A plausible bug: the attempts are counted without trimming the window.
RecordedUntrimmed(j) ==
    Alive(j.event.ip, attempts[j.event.ip])
      \cup {[at |-> j.at, port |-> j.event.port]}

\* A plausible bug: the clock is read a second time to trim the window.
RecordedReread(j) ==
    LET kept == Alive(j.event.ip, attempts[j.event.ip])
                  \cup {[at |-> j.at, port |-> j.event.port]}
    IN {m \in kept : m.at + Window > now}

\* ZADD, then ZREMRANGEBYSCORE 0 .. at - time_window.
Recorded(j) ==
    LET kept == Alive(j.event.ip, attempts[j.event.ip])
                  \cup {[at |-> j.at, port |-> j.event.port]}
    IN {m \in kept : m.at + Window > j.at}

\* A plausible bug: the time stamp is added to the set of ports.
PortsSeenSwapped(j) == Alive(j.event.ip, ports[j.event.ip]) \cup {j.at}

\* SADD, SMEMBERS.
PortsSeen(j) == Alive(j.event.ip, ports[j.event.ip]) \cup {j.event.port}

\* The pipeline runs as one transaction, EXPIREs included.
Executed(j) ==
    /\ attempts' = [attempts EXCEPT ![j.event.ip] = Recorded(j)]
    /\ ports' = [ports EXCEPT ![j.event.ip] = PortsSeen(j)]
    /\ expiry' = [expiry EXCEPT ![j.event.ip] = now + TTL]

\* _classify_event returns: the worker has its answer for the event.
Answer(j, outcome, seen, known, context) ==
    /\ done' = Append(done,
           [event |-> j.event, at |-> j.at, ran |-> now,
            outcome |-> outcome, seen |-> seen, ports |-> known,
            result |-> Classify(j.event, context)])
    /\ asked' = asked \ {j}

-----------------------------------------------------------------------------
(* Actions.                                                                *)

Tick ==
    /\ now <= MaxTime
    /\ now' = now + 1
    /\ UNCHANGED <<lastRead, attempts, ports, expiry, asked, done, losses, faults>>

\* Worker w starts on an event: the clock is read and the transaction issued.
Ask(w, e) ==
    /\ \A j \in asked : j.by # w
    /\ Len(done) + Cardinality(asked) < MaxEvents
    /\ lastRead < now
    /\ lastRead' = now
    /\ asked' = asked \cup {[by |-> w, event |-> e, at |-> now]}
    /\ UNCHANGED <<now, attempts, ports, expiry, done, losses, faults>>

Classified(j) ==
    /\ Executed(j)
    /\ Answer(j, "ok", Recorded(j), PortsSeen(j),
              [attempts |-> Cardinality(Recorded(j)), ports |-> PortsSeen(j)])
    /\ UNCHANGED <<now, lastRead, losses, faults>>

\* Redis refuses the transaction: the event is classified without a context.
Degraded(j) ==
    /\ faults < MaxFaults
    /\ faults' = faults + 1
    /\ Answer(j, "failed", {}, {}, NoContext)
    /\ UNCHANGED <<now, lastRead, attempts, ports, expiry, losses>>

\* The transaction ran and the connection broke before the answer came.
DegradedLate(j) ==
    /\ faults < MaxFaults
    /\ faults' = faults + 1
    /\ Executed(j)
    /\ Answer(j, "lost", {}, {}, NoContext)
    /\ UNCHANGED <<now, lastRead, losses>>

\* Redis restarts without its latest data, or is flushed.
LoseContexts ==
    /\ faults < MaxFaults
    /\ faults' = faults + 1
    /\ losses' = losses + 1
    /\ attempts' = [i \in IPs |-> {}]
    /\ ports' = [i \in IPs |-> {}]
    /\ expiry' = [i \in IPs |-> 0]
    /\ UNCHANGED <<now, lastRead, asked, done>>

Next ==
    \/ Tick
    \/ LoseContexts
    \/ \E w \in Workers, e \in Events : Ask(w, e)
    \/ \E j \in asked :
          \/ Classified(j)
          \/ Degraded(j)
          \/ DegradedLate(j)

Spec == Init /\ [][Next]_vars

-----------------------------------------------------------------------------
(* Properties.  They speak of done, the history of all classifications.    *)

\* The attempts of the same address recorded up to the k-th classification.
Upto(k) == {n \in 1 .. k : /\ done[n].outcome # "failed"
                           /\ done[n].event.ip = done[k].event.ip}

\* Those of them within the window that ends at its time stamp.
InWindow(k) ==
    {n \in Upto(k) : /\ done[k].at < done[n].at + Window
                     /\ done[n].at <= done[k].at}

\* Those of them that overtook it: their worker read the clock later, while
\* the k-th awaited its transaction, and its transaction ran first.
Overtaking(k) ==
    {n \in Upto(k) : /\ done[k].at < done[n].at
                     /\ done[n].at <= done[k].ran}

\* An address is judged by its own attempts within the time window that ends
\* at the event's time stamp, and beyond those by the attempts that overtook
\* it and by nothing else: none that is older than the window, even though the
\* key may hold it (update_and_get, ZREMRANGEBYSCORE before ZCARD), none of
\* another address, and none that was made after its transaction ran.
\* Overtaking attempts are counted because neither ZREMRANGEBYSCORE nor ZCARD
\* has an upper end (ipcontext.py:92); the newest attempt has none of them.
CountsOnlyTheWindow ==
    \A k \in DOMAIN done : done[k].outcome = "ok" =>
        \A m \in done[k].seen :
            \E n \in InWindow(k) \cup Overtaking(k) :
                m = [at |-> done[n].at, port |-> done[n].event.port]

\* The brute-force rule applies to an event whose attempt was the newest of
\* its address when its transaction ran.
Judged(k) ==
    /\ done[k].outcome = "ok"
    /\ done[k].event.protocol = BruteProtocol
    /\ ~IsCommandInjection(done[k].event)
    /\ ~IsCredentialAttack(done[k].event)
    /\ \A n \in Upto(k) : done[n].at <= done[k].at
    /\ done[k].ran + Window <= done[k].at + TTL

\* A burst is caught exactly when it is one: the newest attempt of an address
\* is a brute_force if and only if min_attempts attempts were recorded within
\* the window, also when other workers classified them, their answers were
\* lost or the key expired in between.  Without the retention of CONTEXT_TTL
\* (the worker stalled too long) or with the keys lost there is no promise.
BurstIsCaught ==
    losses = 0 =>
        \A k \in DOMAIN done : Judged(k) =>
            (done[k].result.type = "brute_force"
                <=> Cardinality(InWindow(k)) >= BruteMin)

=============================================================================
