---------------------------- MODULE IPContextProofs ----------------------------
(***************************************************************************)
(* Theorems about IPContext, for any number of workers, addresses, events  *)
(* and faults, any window and any rules.                                   *)
(*                                                                         *)
(* IInv says that nothing of another address and nothing older than the    *)
(* window is counted; with the order of the time stamps (Stamps) what is   *)
(* left are the attempts of the window and those that overtook it.         *)
(* WindowInv says that nothing is missing: a recorded attempt is in its    *)
(* key until a later transaction trims it or finds the key expired (Kept), *)
(* and neither can have happened to an attempt of the window when the      *)
(* newest one is judged.                                                   *)
(***************************************************************************)
EXTENDS IPContext, FiniteSetTheorems, TLAPS

(***************************************************************************)
(* What a key holds was recorded: every member of a sorted set is the      *)
(* attempt of a transaction that ran, of the same address.                 *)
(***************************************************************************)
MembersRecorded ==
    \A i \in IPs : \A m \in attempts[i] :
        \E n \in DOMAIN done :
            /\ done[n].outcome # "failed"
            /\ done[n].event.ip = i
            /\ m = [at |-> done[n].at, port |-> done[n].event.port]

\* The attempts recorded up to the k-th one that its transaction leaves in the
\* key: ZREMRANGEBYSCORE has a lower end only.
Since(k) == {n \in Upto(k) : done[n].at + Window > done[k].at}

CountsSince ==
    \A k \in DOMAIN done : done[k].outcome = "ok" =>
        \A m \in done[k].seen :
            \E n \in Since(k) :
                m = [at |-> done[n].at, port |-> done[n].event.port]

\* The inductive invariant.
IInv == TypeOK /\ MembersRecorded /\ CountsSince

-----------------------------------------------------------------------------

\* The classifier is total: whatever the event and the context, it answers
\* with an attack type and a severity it knows (AttackClassifier.classify).
LEMMA ClassifyTotal ==
    ASSUME NEW e, NEW c
    PROVE  Classify(e, c) \in [type : AttackTypes, severity : Severities]
<1>1. AttackType(e, c) \in AttackTypes
  BY DEF AttackType, AttackTypes
<1>2. ASSUME NEW t PROVE Severity(t, c) \in Severities
  BY DEF Severity, Severities
<1> QED
  BY <1>1, <1>2 DEF Classify

\* An event has the address and the port of its instance.
LEMMA EventParts ==
    ASSUME NEW e \in Events
    PROVE  e.ip \in IPs /\ e.port \in Ports
BY ContextAssumption DEF Events

\* What a transaction leaves in the keys has their types.
LEMMA TransactionTypes ==
    ASSUME TypeOK, NEW j \in asked
    PROVE  /\ j.event \in Events /\ j.at \in Nat /\ j.event.ip \in IPs
           /\ Recorded(j) \in SUBSET Members
           /\ PortsSeen(j) \in SUBSET Ports
<1>1. j.event \in Events /\ j.at \in Nat
  BY DEF TypeOK, Jobs
<1>2. j.event.ip \in IPs /\ j.event.port \in Ports
  BY <1>1, EventParts
<1>3. [at |-> j.at, port |-> j.event.port] \in Members
  BY <1>1, <1>2 DEF Members
<1>4. attempts[j.event.ip] \subseteq Members /\ ports[j.event.ip] \subseteq Ports
  BY <1>2 DEF TypeOK
<1> QED
  BY <1>1, <1>2, <1>3, <1>4 DEF Recorded, PortsSeen, Alive

\* An answer extends the history by one classification of the right type.
LEMMA AnswerType ==
    ASSUME TypeOK, NEW j \in asked, NEW outcome \in {"ok", "lost", "failed"},
           NEW seen \in SUBSET Members, NEW known \in SUBSET Ports,
           NEW context, Answer(j, outcome, seen, known, context)
    PROVE  /\ done' \in Seq(Classifications)
           /\ asked' \subseteq Jobs
           /\ Len(done') = Len(done) + 1
           /\ \A n \in DOMAIN done : n \in DOMAIN done' /\ done'[n] = done[n]
           /\ DOMAIN done' = DOMAIN done \cup {Len(done) + 1}
           /\ done'[Len(done) + 1] =
                  [event |-> j.event, at |-> j.at, ran |-> now,
                   outcome |-> outcome, seen |-> seen, ports |-> known,
                   result |-> Classify(j.event, context)]
<1> DEFINE new == [event |-> j.event, at |-> j.at, ran |-> now,
                   outcome |-> outcome, seen |-> seen, ports |-> known,
                   result |-> Classify(j.event, context)]
<1>1. j.event \in Events /\ j.at \in Nat
  BY TransactionTypes
<1>2. now \in Nat
  BY ContextAssumption DEF TypeOK
<1>3. Classify(j.event, context) \in [type : AttackTypes, severity : Severities]
  BY ClassifyTotal
<1>4. new \in Classifications
  BY <1>1, <1>2, <1>3 DEF Classifications
<1>5. done' = Append(done, new) /\ done \in Seq(Classifications)
  BY DEF Answer, TypeOK
<1>6. asked' \subseteq Jobs
  BY DEF Answer, TypeOK
<1> HIDE DEF new
<1>7. /\ done' \in Seq(Classifications)
      /\ Len(done') = Len(done) + 1
      /\ \A n \in DOMAIN done : n \in DOMAIN done' /\ done'[n] = done[n]
      /\ DOMAIN done' = DOMAIN done \cup {Len(done) + 1}
      /\ done'[Len(done) + 1] = new
  BY <1>4, <1>5
<1> QED
  BY <1>6, <1>7 DEF new

\* A transaction that ran keeps the types of the keys.
LEMMA ExecutedType ==
    ASSUME TypeOK, NEW j \in asked, Executed(j)
    PROVE  /\ attempts' \in [IPs -> SUBSET Members]
           /\ ports' \in [IPs -> SUBSET Ports]
           /\ expiry' \in [IPs -> Nat]
<1>1. now + TTL \in Nat
  BY ContextAssumption DEF TypeOK
<1> QED
  BY <1>1, TransactionTypes DEF Executed, TypeOK

-----------------------------------------------------------------------------

\* Type correctness of every step.
LEMMA TypeStep == TypeOK /\ [Next]_vars => TypeOK'
<1> SUFFICES ASSUME TypeOK, [Next]_vars PROVE TypeOK'
  OBVIOUS
<1> USE ContextAssumption
<1>1. CASE Tick
  BY <1>1 DEF Tick, TypeOK
<1>2. CASE LoseContexts
  BY <1>2 DEF LoseContexts, TypeOK
<1>3. ASSUME NEW w \in Workers, NEW e \in Events, Ask(w, e) PROVE TypeOK'
  <2>1. now \in Nat
    BY DEF TypeOK
  <2>2. asked' \subseteq Jobs
    BY <1>3, <2>1 DEF Ask, TypeOK, Jobs
  <2> QED
    BY <1>3, <2>1, <2>2 DEF Ask, TypeOK
<1>4. ASSUME NEW j \in asked, Classified(j) PROVE TypeOK'
  <2>1. Recorded(j) \in SUBSET Members /\ PortsSeen(j) \in SUBSET Ports
    BY TransactionTypes
  <2>2. done' \in Seq(Classifications) /\ asked' \subseteq Jobs
    BY <1>4, <2>1, AnswerType DEF Classified
  <2>3. /\ attempts' \in [IPs -> SUBSET Members]
        /\ ports' \in [IPs -> SUBSET Ports]
        /\ expiry' \in [IPs -> Nat]
    BY <1>4, ExecutedType DEF Classified
  <2> QED
    BY <1>4, <2>2, <2>3 DEF Classified, TypeOK
<1>5. ASSUME NEW j \in asked, Degraded(j) PROVE TypeOK'
  <2>1. done' \in Seq(Classifications) /\ asked' \subseteq Jobs
    BY <1>5, AnswerType DEF Degraded
  <2> QED
    BY <1>5, <2>1 DEF Degraded, TypeOK
<1>6. ASSUME NEW j \in asked, DegradedLate(j) PROVE TypeOK'
  <2>1. done' \in Seq(Classifications) /\ asked' \subseteq Jobs
    BY <1>6, AnswerType DEF DegradedLate
  <2>2. /\ attempts' \in [IPs -> SUBSET Members]
        /\ ports' \in [IPs -> SUBSET Ports]
        /\ expiry' \in [IPs -> Nat]
    BY <1>6, ExecutedType DEF DegradedLate
  <2> QED
    BY <1>6, <2>1, <2>2 DEF DegradedLate, TypeOK
<1>7. CASE UNCHANGED vars
  BY <1>7 DEF vars, TypeOK
<1> QED
  BY <1>1, <1>2, <1>3, <1>4, <1>5, <1>6, <1>7 DEF Next

-----------------------------------------------------------------------------

\* A transaction that runs is the classification that records its member, and
\* leaves in its key members recorded up to it (ZADD, ZREMRANGEBYSCORE).
LEMMA RecordedBy ==
    ASSUME TypeOK, MembersRecorded, NEW j \in asked,
           NEW outcome \in {"ok", "lost"},
           NEW seen \in SUBSET Members, NEW known \in SUBSET Ports, NEW context,
           Answer(j, outcome, seen, known, context)
    PROVE  \A m \in Recorded(j) :
               /\ m.at + Window > j.at
               /\ \E n \in DOMAIN done' :
                     /\ done'[n].outcome # "failed"
                     /\ done'[n].event.ip = j.event.ip
                     /\ m = [at |-> done'[n].at, port |-> done'[n].event.port]
<1> DEFINE own == [at |-> j.at, port |-> j.event.port]
           Witness(m, n) == /\ done'[n].outcome # "failed"
                            /\ done'[n].event.ip = j.event.ip
                            /\ m = [at |-> done'[n].at,
                                    port |-> done'[n].event.port]
<1>0. outcome \in {"ok", "lost", "failed"}
  OBVIOUS
<1>1. /\ \A n \in DOMAIN done : n \in DOMAIN done' /\ done'[n] = done[n]
      /\ DOMAIN done' = DOMAIN done \cup {Len(done) + 1}
      /\ done'[Len(done) + 1] =
             [event |-> j.event, at |-> j.at, ran |-> now,
              outcome |-> outcome, seen |-> seen, ports |-> known,
              result |-> Classify(j.event, context)]
  BY <1>0, AnswerType, Zenon
<1>2. SUFFICES ASSUME NEW m \in Recorded(j)
               PROVE  /\ m.at + Window > j.at
                      /\ \E n \in DOMAIN done' : Witness(m, n)
  OBVIOUS
<1>3. m.at + Window > j.at
  BY <1>2 DEF Recorded
<1>4. CASE m = own
  <2>1. Witness(m, Len(done) + 1)
    BY <1>1, <1>4
  <2> QED
    BY <1>1, <1>3, <2>1
<1>5. CASE m \in attempts[j.event.ip]
  <2>1. j.event.ip \in IPs
    BY TransactionTypes
  <2>2. PICK n \in DOMAIN done :
            /\ done[n].outcome # "failed"
            /\ done[n].event.ip = j.event.ip
            /\ m = [at |-> done[n].at, port |-> done[n].event.port]
    BY <1>5, <2>1 DEF MembersRecorded
  <2>3. n \in DOMAIN done' /\ Witness(m, n)
    BY <1>1, <2>2
  <2> QED
    BY <1>3, <2>3
<1>6. m = own \/ m \in attempts[j.event.ip]
  BY <1>2 DEF Recorded, Alive
<1> QED
  BY <1>4, <1>5, <1>6

\* A transaction, answered or not, keeps MembersRecorded.
LEMMA ExecutedMembers ==
    ASSUME TypeOK, MembersRecorded, NEW j \in asked, Executed(j),
           NEW outcome \in {"ok", "lost"},
           NEW seen \in SUBSET Members, NEW known \in SUBSET Ports, NEW context,
           Answer(j, outcome, seen, known, context)
    PROVE  MembersRecorded'
<1> SUFFICES ASSUME NEW i \in IPs, NEW m \in attempts'[i]
             PROVE  \E n \in DOMAIN done' :
                       /\ done'[n].outcome # "failed"
                       /\ done'[n].event.ip = i
                       /\ m = [at |-> done'[n].at, port |-> done'[n].event.port]
  BY DEF MembersRecorded
<1>1. \A n \in DOMAIN done : n \in DOMAIN done' /\ done'[n] = done[n]
  BY AnswerType
<1>2. CASE i = j.event.ip
  <2>1. m \in Recorded(j)
    BY <1>2 DEF Executed, TypeOK
  <2> QED
    BY <1>2, <2>1, RecordedBy
<1>3. CASE i # j.event.ip
  <2>1. m \in attempts[i]
    BY <1>3 DEF Executed, TypeOK
  <2> QED
    BY <1>1, <2>1 DEF MembersRecorded
<1> QED
  BY <1>2, <1>3

\* An answer keeps what earlier answers were, so only the new one has to be
\* shown to count nothing older than its window.
LEMMA AnswerCounts ==
    ASSUME TypeOK, CountsSince, NEW j \in asked,
           NEW outcome \in {"ok", "lost", "failed"},
           NEW seen \in SUBSET Members, NEW known \in SUBSET Ports, NEW context,
           Answer(j, outcome, seen, known, context)
    PROVE  (outcome = "ok" =>
               \A m \in seen :
                   /\ m.at + Window > j.at
                   /\ \E n \in DOMAIN done' :
                         /\ done'[n].outcome # "failed"
                         /\ done'[n].event.ip = j.event.ip
                         /\ m = [at |-> done'[n].at,
                                 port |-> done'[n].event.port])
               => CountsSince'
<1>1. /\ \A n \in DOMAIN done : n \in DOMAIN done' /\ done'[n] = done[n]
      /\ DOMAIN done' = DOMAIN done \cup {Len(done) + 1}
      /\ done'[Len(done) + 1] =
             [event |-> j.event, at |-> j.at, ran |-> now,
              outcome |-> outcome, seen |-> seen, ports |-> known,
              result |-> Classify(j.event, context)]
  BY AnswerType, Zenon
<1>2. DOMAIN done = 1 .. Len(done) /\ Len(done) \in Nat
  BY DEF TypeOK
<1> SUFFICES ASSUME outcome = "ok" =>
                       \A m \in seen :
                           /\ m.at + Window > j.at
                           /\ \E n \in DOMAIN done' :
                                 /\ done'[n].outcome # "failed"
                                 /\ done'[n].event.ip = j.event.ip
                                 /\ m = [at |-> done'[n].at,
                                         port |-> done'[n].event.port],
                    NEW k \in DOMAIN done', done'[k].outcome = "ok",
                    NEW m \in done'[k].seen
             PROVE  \E n \in Since(k)' :
                       m = [at |-> done'[n].at, port |-> done'[n].event.port]
  BY DEF CountsSince
<1>3. CASE k = Len(done) + 1
  <2>1. m \in seen /\ outcome = "ok"
    BY <1>1, <1>3
  <2>2. PICK n \in DOMAIN done' :
            /\ done'[n].outcome # "failed"
            /\ done'[n].event.ip = j.event.ip
            /\ m = [at |-> done'[n].at, port |-> done'[n].event.port]
    BY <2>1
  <2>3. m.at = done'[n].at
    BY <2>2
  <2>4. n \in 1 .. k
    BY <1>1, <1>2, <1>3
  <2>5. done'[k].event = j.event /\ done'[k].at = j.at
    BY <1>1, <1>3
  <2>6. n \in Since(k)'
    BY <2>1, <2>2, <2>3, <2>4, <2>5 DEF Since, Upto
  <2> QED
    BY <2>2, <2>6
<1>4. CASE k \in DOMAIN done
  <2>1. done'[k] = done[k]
    BY <1>1, <1>4
  <2>2. PICK n \in Since(k) :
            m = [at |-> done[n].at, port |-> done[n].event.port]
    BY <1>4, <2>1 DEF CountsSince
  <2>3. n \in 1 .. k /\ n \in DOMAIN done
    BY <1>2, <1>4, <2>2 DEF Since, Upto
  <2>4. done'[n] = done[n]
    BY <1>1, <2>3
  <2>5. n \in Since(k)'
    BY <2>1, <2>2, <2>3, <2>4 DEF Since, Upto
  <2> QED
    BY <2>2, <2>4, <2>5
<1> QED
  BY <1>1, <1>3, <1>4

\* The invariant is preserved by every step.
LEMMA InvariantStep == IInv /\ [Next]_vars => IInv'
<1> SUFFICES ASSUME IInv, [Next]_vars PROVE IInv'
  OBVIOUS
<1>1. TypeOK /\ MembersRecorded /\ CountsSince
  BY DEF IInv
<1>2. TypeOK'
  BY <1>1, TypeStep
<1>3. CASE Tick
  <2>1. MembersRecorded' /\ CountsSince'
    BY <1>1, <1>3
       DEF Tick, MembersRecorded, CountsSince, Since, Upto
  <2> QED
    BY <1>2, <2>1 DEF IInv
<1>4. CASE LoseContexts
  <2>1. MembersRecorded' /\ CountsSince'
    BY <1>1, <1>4
       DEF LoseContexts, MembersRecorded, CountsSince, Since, Upto
  <2> QED
    BY <1>2, <2>1 DEF IInv
<1>5. ASSUME NEW w \in Workers, NEW e \in Events, Ask(w, e) PROVE IInv'
  <2>1. MembersRecorded' /\ CountsSince'
    BY <1>1, <1>5
       DEF Ask, MembersRecorded, CountsSince, Since, Upto
  <2> QED
    BY <1>2, <2>1 DEF IInv
<1>6. ASSUME NEW j \in asked, Classified(j) PROVE IInv'
  <2>1. Recorded(j) \in SUBSET Members /\ PortsSeen(j) \in SUBSET Ports
    BY <1>1, TransactionTypes
  <2>2. MembersRecorded'
    BY <1>1, <1>6, <2>1, ExecutedMembers DEF Classified
  <2>3. CountsSince'
    BY <1>1, <1>6, <2>1, RecordedBy, AnswerCounts DEF Classified
  <2> QED
    BY <1>2, <2>2, <2>3 DEF IInv
<1>7. ASSUME NEW j \in asked, Degraded(j) PROVE IInv'
  <2>1. \A n \in DOMAIN done : n \in DOMAIN done' /\ done'[n] = done[n]
    BY <1>1, <1>7, AnswerType DEF Degraded
  <2>2. MembersRecorded'
    BY <1>1, <1>7, <2>1 DEF Degraded, MembersRecorded
  <2>3. CountsSince'
    BY <1>1, <1>7, AnswerCounts DEF Degraded
  <2> QED
    BY <1>2, <2>2, <2>3 DEF IInv
<1>8. ASSUME NEW j \in asked, DegradedLate(j) PROVE IInv'
  <2>1. MembersRecorded'
    BY <1>1, <1>8, ExecutedMembers DEF DegradedLate
  <2>2. CountsSince'
    BY <1>1, <1>8, AnswerCounts DEF DegradedLate
  <2> QED
    BY <1>2, <2>1, <2>2 DEF IInv
<1>9. CASE UNCHANGED vars
  <2>1. MembersRecorded' /\ CountsSince'
    BY <1>1, <1>9
       DEF vars, MembersRecorded, CountsSince, Since, Upto
  <2> QED
    BY <1>2, <2>1 DEF IInv
<1> QED
  BY <1>3, <1>4, <1>5, <1>6, <1>7, <1>8, <1>9 DEF Next

-----------------------------------------------------------------------------

\* The inductive invariant holds in every reachable state.
THEOREM ContextInvariant == Spec => []IInv
<1>1. Init => IInv
  BY ContextAssumption
     DEF Init, IInv, TypeOK, MembersRecorded, CountsSince
<1> QED
  BY <1>1, InvariantStep, PTL DEF Spec

\* Every variable keeps its type (update_and_get, _classify_event).
THEOREM ContextTypeCorrect == Spec => []TypeOK
<1>1. IInv => TypeOK
  BY DEF IInv
<1> QED
  BY <1>1, ContextInvariant, PTL

-----------------------------------------------------------------------------
(* Nothing is missing.                                                     *)

\* The member that the n-th transaction records, if it ran.
Member(n) == [at |-> done[n].at, port |-> done[n].event.port]
Ran(n) == done[n].outcome # "failed"

\* The clock is read at different times, before the transaction runs; the
\* history has the transactions in the order in which they ran.
Stamps ==
    /\ \A j \in asked : j.at <= lastRead
    /\ \A j, h \in asked : j.at = h.at => j = h
    /\ \A n \in DOMAIN done :
          /\ done[n].at <= lastRead
          /\ done[n].at <= done[n].ran
          /\ done[n].ran <= now
          /\ \A j \in asked : j.at # done[n].at
    /\ \A n, m \in DOMAIN done :
          n < m => done[n].at # done[m].at /\ done[n].ran <= done[m].ran

\* A recorded attempt that is no longer in its key was trimmed by a later
\* transaction of the address, or had expired when one ran.
Dropped(n) ==
    \E m \in DOMAIN done :
        /\ n < m
        /\ Ran(m)
        /\ done[m].event.ip = done[n].event.ip
        /\ \/ done[n].at + Window <= done[m].at
           \/ done[n].ran + TTL <= done[m].ran

Kept ==
    losses = 0 =>
        \A n \in DOMAIN done : Ran(n) =>
            /\ done[n].ran + TTL <= expiry[done[n].event.ip]
            /\ Member(n) \in attempts[done[n].event.ip] \/ Dropped(n)

\* Where the brute-force rule applies, no attempt of the window is missing.
SeenComplete ==
    losses = 0 =>
        \A k \in DOMAIN done : Judged(k) =>
            \A n \in InWindow(k) : Member(n) \in done[k].seen

\* An answer is classified by what its transaction counted.
ClassifiedBySeen ==
    \A k \in DOMAIN done : done[k].outcome = "ok" =>
        done[k].result =
            Classify(done[k].event, [attempts |-> Cardinality(done[k].seen),
                                     ports |-> done[k].ports])

WindowInv == Stamps /\ Kept /\ SeenComplete /\ ClassifiedBySeen

\* The history of done only grows.
Grows ==
    /\ \A n \in DOMAIN done : n \in DOMAIN done' /\ done'[n] = done[n]
    /\ DOMAIN done' = DOMAIN done \cup {Len(done) + 1}

\* What is said about an old answer stays so.
LEMMA HistoryKept ==
    ASSUME TypeOK, \A n \in DOMAIN done : n \in DOMAIN done' /\ done'[n] = done[n],
           NEW k \in DOMAIN done
    PROVE  /\ Member(k)' = Member(k) /\ Ran(k)' = Ran(k)
           /\ InWindow(k) \subseteq DOMAIN done /\ InWindow(k)' = InWindow(k)
           /\ Judged(k)' = Judged(k)
           /\ Dropped(k) => Dropped(k)'
<1>1. DOMAIN done = 1 .. Len(done) /\ Len(done) \in Nat
  BY DEF TypeOK
<1>2. \A n \in 1 .. k : n \in DOMAIN done /\ n \in DOMAIN done' /\ done'[n] = done[n]
  BY <1>1
<1>3. Upto(k)' = Upto(k) /\ Upto(k) \subseteq DOMAIN done
  BY <1>2 DEF Upto
<1>4. InWindow(k)' = InWindow(k) /\ InWindow(k) \subseteq DOMAIN done
  BY <1>2, <1>3 DEF InWindow
<1>5. Judged(k)' = Judged(k)
  BY <1>3 DEF Judged
<1>6. Dropped(k) => Dropped(k)'
  BY DEF Dropped, Ran
<1> QED
  BY <1>4, <1>5, <1>6 DEF Member, Ran

\* The types of what is in the history and of what is asked.
LEMMA StampTypes ==
    ASSUME TypeOK
    PROVE  /\ now \in Nat /\ lastRead \in Nat /\ lastRead <= now
           /\ Window \in Nat \ {0} /\ TTL \in Nat
           /\ Len(done) \in Nat /\ DOMAIN done = 1 .. Len(done)
           /\ \A n \in DOMAIN done : /\ done[n].at \in Nat /\ done[n].ran \in Nat
                                    /\ done[n].event \in Events
                                    /\ done[n].event.ip \in IPs
           /\ \A j \in asked : j.at \in Nat /\ j.event \in Events /\ j.event.ip \in IPs
<1>1. now \in Nat /\ lastRead \in Nat /\ lastRead <= now
  BY ContextAssumption DEF TypeOK
<1>2. Len(done) \in Nat /\ DOMAIN done = 1 .. Len(done)
  BY DEF TypeOK
<1>3. \A n \in DOMAIN done : done[n] \in Classifications
  BY DEF TypeOK
<1>4. \A n \in DOMAIN done :
          done[n].at \in Nat /\ done[n].ran \in Nat /\ done[n].event \in Events
  BY <1>3 DEF Classifications
<1> QED
  BY <1>1, <1>2, <1>4, EventParts, TransactionTypes, ContextAssumption

-----------------------------------------------------------------------------
(* What an answer does.                                                    *)

\* The new answer, by its parts.
LEMMA NewAnswer ==
    ASSUME TypeOK, NEW j \in asked, NEW outcome \in {"ok", "lost", "failed"},
           NEW seen \in SUBSET Members, NEW known \in SUBSET Ports,
           NEW context, Answer(j, outcome, seen, known, context)
    PROVE  /\ Grows
           /\ asked' = asked \ {j}
           /\ Len(done) + 1 \in DOMAIN done'
           /\ done'[Len(done) + 1].event = j.event
           /\ done'[Len(done) + 1].at = j.at
           /\ done'[Len(done) + 1].ran = now
           /\ done'[Len(done) + 1].outcome = outcome
           /\ done'[Len(done) + 1].seen = seen
           /\ done'[Len(done) + 1].ports = known
           /\ done'[Len(done) + 1].result = Classify(j.event, context)
<1>1. /\ \A n \in DOMAIN done : n \in DOMAIN done' /\ done'[n] = done[n]
      /\ DOMAIN done' = DOMAIN done \cup {Len(done) + 1}
      /\ done'[Len(done) + 1] =
             [event |-> j.event, at |-> j.at, ran |-> now,
              outcome |-> outcome, seen |-> seen, ports |-> known,
              result |-> Classify(j.event, context)]
  BY AnswerType, Zenon
<1>2. asked' = asked \ {j}
  BY DEF Answer
<1> QED
  BY <1>1, <1>2 DEF Grows

\* The stamp of the new answer is its own, and it ran last.
LEMMA AnswerStamps ==
    ASSUME TypeOK, Stamps, NEW j \in asked, Grows, asked' = asked \ {j},
           done'[Len(done) + 1].at = j.at, done'[Len(done) + 1].ran = now,
           UNCHANGED <<now, lastRead>>
    PROVE  Stamps'
<1> DEFINE N == Len(done) + 1
<1>1. /\ j.at <= lastRead /\ lastRead <= now /\ j.at \in Nat /\ now \in Nat
      /\ lastRead \in Nat /\ Len(done) \in Nat /\ DOMAIN done = 1 .. Len(done)
  BY StampTypes DEF Stamps
<1>2. \A n \in DOMAIN done' : n = N \/ (n \in DOMAIN done /\ n < N /\ done'[n] = done[n])
  BY <1>1 DEF Grows
<1>3. ASSUME NEW n \in DOMAIN done'
      PROVE  /\ done'[n].at <= lastRead /\ done'[n].at <= done'[n].ran
             /\ done'[n].ran <= now /\ \A h \in asked' : h.at # done'[n].at
  BY <1>1, <1>2 DEF Stamps
<1>4. ASSUME NEW n \in DOMAIN done', NEW m \in DOMAIN done', n < m
      PROVE  done'[n].at # done'[m].at /\ done'[n].ran <= done'[m].ran
  <2>1. n # N /\ n \in DOMAIN done /\ done'[n] = done[n]
    BY <1>1, <1>2, <1>4
  <2> QED
    BY <1>1, <1>2, <1>4, <2>1 DEF Stamps
<1> QED
  BY <1>3, <1>4 DEF Stamps

\* An answer with a context is classified by it.
LEMMA AnswerClassified ==
    ASSUME ClassifiedBySeen, NEW j \in asked, NEW outcome, NEW context, Grows,
           done'[Len(done) + 1].event = j.event,
           done'[Len(done) + 1].outcome = outcome,
           done'[Len(done) + 1].result = Classify(j.event, context),
           outcome = "ok" =>
               context = [attempts |-> Cardinality(done'[Len(done) + 1].seen),
                          ports |-> done'[Len(done) + 1].ports]
    PROVE  ClassifiedBySeen'
  BY DEF ClassifiedBySeen, Grows

\* The transaction of job j is the new one: a member it does not keep is trimmed
\* by its time stamp or had expired.
LEMMA ExecutedKept ==
    ASSUME TypeOK, Stamps, Kept, NEW j \in asked, Executed(j), Grows,
           done'[Len(done) + 1].event = j.event,
           done'[Len(done) + 1].at = j.at,
           done'[Len(done) + 1].ran = now,
           done'[Len(done) + 1].outcome # "failed",
           UNCHANGED losses
    PROVE  Kept'
<1> DEFINE i == j.event.ip
<1>0. PICK N : N = Len(done) + 1
  OBVIOUS
<1>1. /\ now \in Nat /\ TTL \in Nat /\ Window \in Nat \ {0} /\ Len(done) \in Nat
      /\ DOMAIN done = 1 .. Len(done) /\ i \in IPs /\ j.at \in Nat /\ N = Len(done) + 1
      /\ DOMAIN done' = DOMAIN done \cup {N}
      /\ done'[N].event = j.event /\ done'[N].at = j.at /\ done'[N].ran = now
      /\ done'[N].outcome # "failed"
  BY <1>0, StampTypes DEF Grows
<1>2. /\ attempts' = [attempts EXCEPT ![i] = Recorded(j)]
      /\ expiry' = [expiry EXCEPT ![i] = now + TTL]
  BY DEF Executed
<1>3. /\ attempts'[i] = Recorded(j) /\ expiry'[i] = now + TTL
      /\ \A h \in IPs \ {i} : attempts'[h] = attempts[h] /\ expiry'[h] = expiry[h]
  BY <1>1, <1>2 DEF TypeOK
<1> SUFFICES ASSUME losses = 0, NEW n \in DOMAIN done', Ran(n)'
             PROVE  /\ done'[n].ran + TTL <= expiry'[done'[n].event.ip]
                    /\ Member(n)' \in attempts'[done'[n].event.ip] \/ Dropped(n)'
  BY DEF Kept
<1>4. CASE n = N
  <2>1. Member(n)' = [at |-> j.at, port |-> j.event.port]
    BY <1>1, <1>4 DEF Member
  <2>2. Member(n)' \in Recorded(j)
    BY <1>1, <2>1 DEF Recorded
  <2> QED
    BY <1>1, <1>3, <1>4, <2>2
<1>5. CASE n \in DOMAIN done
  <2>1. /\ done'[n] = done[n] /\ Ran(n) /\ Member(n)' = Member(n)
        /\ Dropped(n) => Dropped(n)'
    BY <1>5, HistoryKept DEF Grows
  <2>2. /\ done[n].ran \in Nat /\ done[n].at \in Nat /\ done[n].event.ip \in IPs
        /\ done[n].ran <= now /\ expiry[done[n].event.ip] \in Nat
    BY <1>5, StampTypes DEF Stamps, TypeOK
  <2>3. /\ done[n].ran + TTL <= expiry[done[n].event.ip]
        /\ Member(n) \in attempts[done[n].event.ip] \/ Dropped(n)
    BY <1>5, <2>1 DEF Kept
  <2>4. CASE done[n].event.ip # i
    BY <1>3, <2>1, <2>2, <2>3, <2>4
  <2>5. CASE done[n].event.ip = i
    <3>1. done'[n].ran + TTL <= expiry'[i]
      BY <1>1, <1>3, <2>1, <2>2
    <3>2. ASSUME done[n].at + Window <= j.at \/ done[n].ran + TTL <= now
          PROVE  Dropped(n)'
      <4>1. N \in DOMAIN done' /\ n < N
        BY <1>1, <1>5 DEF Grows
      <4>2. Ran(N)' /\ done'[N].event.ip = done'[n].event.ip
        BY <1>1, <2>1, <2>5 DEF Ran
      <4> QED
        BY <1>1, <2>1, <3>2, <4>1, <4>2 DEF Dropped
    <3>3. ASSUME Member(n) \in attempts[i], expiry[i] > now, done[n].at + Window > j.at
          PROVE  Member(n) \in Recorded(j)
      BY <3>3 DEF Recorded, Alive, Member
    <3> QED
      BY <1>1, <1>3, <2>1, <2>2, <2>3, <2>5, <3>1, <3>2, <3>3
  <2> QED
    BY <2>4, <2>5
<1> QED
  BY <1>1, <1>4, <1>5

\* An answered transaction of the newest attempt finds every attempt of the
\* window: nothing newer has trimmed one, and none can have expired.
LEMMA AnswerSeen ==
    ASSUME TypeOK, Stamps, Kept, SeenComplete, NEW j \in asked, Grows,
           done'[Len(done) + 1].event = j.event,
           done'[Len(done) + 1].at = j.at,
           done'[Len(done) + 1].ran = now,
           done'[Len(done) + 1].outcome = "ok" =>
               done'[Len(done) + 1].seen = Recorded(j),
           UNCHANGED losses
    PROVE  SeenComplete'
<1> DEFINE i == j.event.ip
<1>0. PICK N : N = Len(done) + 1
  OBVIOUS
<1>1. /\ now \in Nat /\ TTL \in Nat /\ Window \in Nat \ {0} /\ Len(done) \in Nat
      /\ DOMAIN done = 1 .. Len(done) /\ i \in IPs /\ j.at \in Nat /\ N = Len(done) + 1
      /\ DOMAIN done' = DOMAIN done \cup {N}
      /\ done'[N].event = j.event /\ done'[N].at = j.at /\ done'[N].ran = now
      /\ done'[N].outcome = "ok" => done'[N].seen = Recorded(j)
  BY <1>0, StampTypes DEF Grows
<1> SUFFICES ASSUME losses = 0, NEW k \in DOMAIN done', Judged(k)', NEW n \in InWindow(k)'
             PROVE  Member(n)' \in done'[k].seen
  BY DEF SeenComplete
<1>2. CASE k \in DOMAIN done
  <2>1. Judged(k) /\ n \in InWindow(k) /\ n \in DOMAIN done /\ done'[k] = done[k]
    BY <1>2, HistoryKept DEF Grows
  <2>2. Member(n)' = Member(n)
    BY <2>1, HistoryKept DEF Grows
  <2> QED
    BY <1>2, <2>1, <2>2 DEF SeenComplete
<1>3. CASE k = N
  <2>1. /\ done'[N].outcome = "ok" /\ now + Window <= j.at + TTL
        /\ \A m \in Upto(k)' : done'[m].at <= j.at
    BY <1>1, <1>3 DEF Judged
  <2>2. done'[k].seen = Recorded(j)
    BY <1>1, <1>3, <2>1
  <2>3. /\ n \in 1 .. N /\ done'[n].outcome # "failed" /\ done'[n].event.ip = i
        /\ done'[n].at + Window > j.at
    BY <1>1, <1>3 DEF InWindow, Upto
  <2>4. CASE n = N
    <3>1. Member(n)' = [at |-> j.at, port |-> j.event.port]
      BY <1>1, <2>4 DEF Member
    <3> QED
      BY <1>1, <2>2, <3>1 DEF Recorded
  <2>5. CASE n # N
    <3>1. n \in DOMAIN done /\ n < N /\ done'[n] = done[n]
      BY <1>1, <2>3, <2>5 DEF Grows
    <3>2. Member(n)' = Member(n)
      BY <3>1 DEF Member
    <3>3. /\ done[n].at \in Nat /\ done[n].ran \in Nat /\ done[n].at <= done[n].ran
          /\ done[n].event.ip = i /\ Ran(n) /\ done[n].at + Window > j.at
          /\ expiry[i] \in Nat
      BY <1>1, <2>3, <3>1, StampTypes DEF Stamps, Ran, TypeOK
    <3>4. done[n].ran + TTL > now
      <4>1. now + Window <= j.at + TTL /\ j.at < done[n].ran + Window
        BY <1>1, <2>1, <3>3
      <4> QED
        BY <1>1, <3>3, <4>1
    <3>5. ~Dropped(n)
      <4> SUFFICES ASSUME NEW m \in DOMAIN done, n < m, Ran(m), done[m].event.ip = i,
                          \/ done[n].at + Window <= done[m].at
                          \/ done[n].ran + TTL <= done[m].ran
                   PROVE  FALSE
        BY <3>3 DEF Dropped
      <4>1. done'[m] = done[m] /\ m \in 1 .. N
        BY <1>1 DEF Grows
      <4>2. m \in Upto(k)'
        BY <1>1, <1>3, <4>1 DEF Upto, Ran
      <4>3. done[m].at <= j.at /\ done[m].at \in Nat /\ done[m].ran \in Nat /\ done[m].ran <= now
        BY <2>1, <4>1, <4>2, StampTypes DEF Stamps
      <4>4. ~(done[n].at + Window <= done[m].at)
        BY <1>1, <3>3, <4>3
      <4>5. ~(done[n].ran + TTL <= done[m].ran)
        BY <1>1, <3>3, <3>4, <4>3
      <4> QED
        BY <4>4, <4>5
    <3>6. Member(n) \in attempts[i] /\ done[n].ran + TTL <= expiry[i]
      BY <3>1, <3>3, <3>5 DEF Kept
    <3>7. expiry[i] > now
      BY <1>1, <3>3, <3>4, <3>6
    <3>8. Member(n) \in Recorded(j)
      BY <3>3, <3>6, <3>7 DEF Recorded, Alive, Member
    <3> QED
      BY <2>2, <3>2, <3>8
  <2> QED
    BY <2>4, <2>5
<1> QED
  BY <1>1, <1>2, <1>3

-----------------------------------------------------------------------------

\* A transaction that ran, answered or not.
LEMMA AnswerWindowInv ==
    ASSUME IInv, WindowInv, NEW j \in asked, NEW outcome \in {"ok", "lost"}, Executed(j),
           NEW seen \in SUBSET Members, NEW known \in SUBSET Ports, NEW context,
           Answer(j, outcome, seen, known, context),
           outcome = "ok" => /\ seen = Recorded(j)
                             /\ context = [attempts |-> Cardinality(seen), ports |-> known],
           UNCHANGED <<now, lastRead, losses>>
    PROVE  WindowInv'
<1>1. TypeOK /\ Stamps /\ Kept /\ SeenComplete /\ ClassifiedBySeen
  BY DEF IInv, WindowInv
<1>2. outcome \in {"ok", "lost", "failed"} /\ outcome # "failed"
  OBVIOUS
<1>3. /\ Grows
      /\ asked' = asked \ {j}
      /\ done'[Len(done) + 1].event = j.event
      /\ done'[Len(done) + 1].at = j.at
      /\ done'[Len(done) + 1].ran = now
      /\ done'[Len(done) + 1].outcome = outcome
      /\ done'[Len(done) + 1].seen = seen
      /\ done'[Len(done) + 1].ports = known
      /\ done'[Len(done) + 1].result = Classify(j.event, context)
  BY <1>1, <1>2, NewAnswer
<1>4. Stamps'
  BY <1>1, <1>3, AnswerStamps
<1>5. Kept'
  BY <1>1, <1>2, <1>3, ExecutedKept
<1>6. SeenComplete'
  BY <1>1, <1>3, AnswerSeen
<1>7. ClassifiedBySeen'
  BY <1>1, <1>3, AnswerClassified
<1> QED
  BY <1>4, <1>5, <1>6, <1>7 DEF WindowInv

\* A transaction that did not run.
LEMMA DegradedWindowInv ==
    ASSUME IInv, WindowInv, NEW j \in asked, Degraded(j)
    PROVE  WindowInv'
<1>1. TypeOK /\ Stamps /\ Kept /\ SeenComplete /\ ClassifiedBySeen
  BY DEF IInv, WindowInv
<1>2. Answer(j, "failed", {}, {}, NoContext) /\ UNCHANGED <<now, lastRead, attempts, expiry, losses>>
  BY DEF Degraded
<1>3. /\ Grows
      /\ asked' = asked \ {j}
      /\ done'[Len(done) + 1].event = j.event
      /\ done'[Len(done) + 1].at = j.at
      /\ done'[Len(done) + 1].ran = now
      /\ done'[Len(done) + 1].outcome = "failed"
      /\ done'[Len(done) + 1].result = Classify(j.event, NoContext)
  BY <1>1, <1>2, NewAnswer
<1>4. Stamps'
  BY <1>1, <1>2, <1>3, AnswerStamps
<1>5. Kept'
  <2> SUFFICES ASSUME losses = 0, NEW n \in DOMAIN done', Ran(n)'
               PROVE  /\ done'[n].ran + TTL <= expiry[done'[n].event.ip]
                      /\ Member(n)' \in attempts[done'[n].event.ip] \/ Dropped(n)'
    BY <1>2 DEF Kept
  <2>1. n \in DOMAIN done
    BY <1>3 DEF Grows, Ran
  <2>2. /\ done'[n] = done[n] /\ Ran(n) /\ Member(n)' = Member(n)
        /\ Dropped(n) => Dropped(n)'
    BY <1>1, <1>3, <2>1, HistoryKept DEF Grows
  <2> QED
    BY <1>1, <2>1, <2>2 DEF Kept
<1>6. SeenComplete'
  BY <1>1, <1>2, <1>3, AnswerSeen
<1>7. ClassifiedBySeen'
  BY <1>1, <1>3, AnswerClassified
<1> QED
  BY <1>4, <1>5, <1>6, <1>7 DEF WindowInv

\* The invariant about stamps, keys and answers is preserved by every step.
LEMMA WindowStep == IInv /\ WindowInv /\ [Next]_vars => WindowInv'
<1> SUFFICES ASSUME IInv, WindowInv, [Next]_vars PROVE WindowInv'
  OBVIOUS
<1>1. TypeOK /\ Stamps /\ Kept /\ SeenComplete /\ ClassifiedBySeen
  BY DEF IInv, WindowInv
<1>2. now \in Nat /\ lastRead \in Nat /\ lastRead <= now /\ losses \in Nat
  BY <1>1, StampTypes DEF TypeOK
<1>3. ASSUME done' = done
      PROVE  /\ ClassifiedBySeen'
             /\ losses' = losses => SeenComplete'
             /\ UNCHANGED <<attempts, expiry, losses>> => Kept'
  BY <1>1, <1>3 DEF ClassifiedBySeen, SeenComplete, Judged, InWindow, Upto, Kept, Ran,
     Member, Dropped
<1>4. CASE Tick \/ UNCHANGED vars
  <2>1. /\ UNCHANGED <<lastRead, attempts, expiry, asked, done, losses>>
        /\ now <= now'
    BY <1>2, <1>4 DEF Tick, vars
  <2>2. now' \in Nat /\ \A n \in DOMAIN done : done[n].ran \in Nat
    BY <1>1, <1>2, <1>4, StampTypes DEF Tick, vars
  <2>3. Stamps'
    BY <1>1, <1>2, <2>1, <2>2 DEF Stamps
  <2> QED
    BY <1>3, <2>1, <2>3 DEF WindowInv
<1>5. CASE LoseContexts
  <2>1. losses' # 0 /\ UNCHANGED <<now, lastRead, asked, done>>
    BY <1>2, <1>5 DEF LoseContexts
  <2>2. Stamps' /\ Kept' /\ SeenComplete'
    BY <1>1, <2>1 DEF Stamps, Kept, SeenComplete
  <2> QED
    BY <1>3, <2>1, <2>2 DEF WindowInv
<1>6. ASSUME NEW w \in Workers, NEW e \in Events, Ask(w, e) PROVE WindowInv'
  <2>1. /\ lastRead < now /\ lastRead' = now
        /\ asked' = asked \cup {[by |-> w, event |-> e, at |-> now]}
        /\ UNCHANGED <<now, attempts, expiry, done, losses>>
    BY <1>6 DEF Ask
  <2>2. /\ \A j \in asked : j.at \in Nat /\ j.at <= lastRead
        /\ \A n \in DOMAIN done : done[n].at \in Nat /\ done[n].at <= lastRead
    BY <1>1, StampTypes DEF Stamps
  <2>3. \A j \in asked' : j.at <= lastRead' /\ (j \in asked \/ j.at = now)
    BY <1>2, <2>1, <2>2
  <2>4. \A j, h \in asked' : j.at = h.at => j = h
    BY <1>1, <1>2, <2>1, <2>2 DEF Stamps
  <2>5. \A n \in DOMAIN done : /\ done[n].at <= lastRead'
                                /\ \A j \in asked' : j.at # done[n].at
    BY <1>1, <1>2, <2>1, <2>2 DEF Stamps
  <2>6. Stamps'
    BY <1>1, <2>1, <2>3, <2>4, <2>5 DEF Stamps
  <2> QED
    BY <1>3, <2>1, <2>6 DEF WindowInv
<1>7. ASSUME NEW j \in asked, Classified(j) PROVE WindowInv'
  <2>1. Recorded(j) \in SUBSET Members /\ PortsSeen(j) \in SUBSET Ports
    BY <1>1, TransactionTypes
  <2> QED
    BY <1>7, <2>1, AnswerWindowInv DEF Classified
<1>8. ASSUME NEW j \in asked, Degraded(j) PROVE WindowInv'
  BY <1>8, DegradedWindowInv
<1>9. ASSUME NEW j \in asked, DegradedLate(j) PROVE WindowInv'
  BY <1>9, AnswerWindowInv DEF DegradedLate
<1> QED
  BY <1>4, <1>5, <1>6, <1>7, <1>8, <1>9 DEF Next

\* What a judged answer counted are the attempts of its window, one by one.
LEMMA SeenIsWindow ==
    ASSUME IInv, WindowInv, losses = 0, NEW k \in DOMAIN done, Judged(k)
    PROVE  Cardinality(done[k].seen) = Cardinality(InWindow(k))
<1>1. TypeOK /\ CountsSince /\ Stamps /\ SeenComplete
  BY DEF IInv, WindowInv
<1>2. DOMAIN done = 1 .. Len(done) /\ Len(done) \in Nat
  BY <1>1, StampTypes
<1>3. InWindow(k) \subseteq 1 .. k /\ k \in DOMAIN done /\ InWindow(k) \subseteq DOMAIN done
  BY <1>2 DEF InWindow, Upto
<1>4. IsFiniteSet(InWindow(k))
  <2>1. k \in Int /\ IsFiniteSet(1 .. k)
    BY <1>2, FS_Interval
  <2> QED
    BY <1>3, <2>1, FS_Subset
<1> DEFINE f == [n \in InWindow(k) |-> Member(n)]
<1>5. \A m \in done[k].seen : \E n \in InWindow(k) : m = Member(n)
  <2>1. Since(k) \subseteq InWindow(k)
    BY <1>1, <1>2, StampTypes DEF Since, InWindow, Upto, Judged
  <2>2. \A m \in done[k].seen : \E n \in Since(k) : m = Member(n)
    BY <1>1 DEF CountsSince, Judged, Member
  <2> QED
    BY <2>1, <2>2
<1>6. \A n \in InWindow(k) : Member(n) \in done[k].seen
  BY <1>1 DEF SeenComplete
<1>7. \A n, m \in InWindow(k) : Member(n) = Member(m) => n = m
  <2> SUFFICES ASSUME NEW n \in InWindow(k), NEW m \in InWindow(k), Member(n) = Member(m), n # m
               PROVE  FALSE
    OBVIOUS
  <2>1. done[n].at = done[m].at
    BY DEF Member
  <2>2. n \in DOMAIN done /\ m \in DOMAIN done /\ (n < m \/ m < n)
    BY <1>2, <1>3
  <2> QED
    BY <1>1, <2>1, <2>2 DEF Stamps
<1>8. f \in Bijection(InWindow(k), done[k].seen)
  BY <1>5, <1>6, <1>7 DEF Bijection, Injection, Surjection, IsInjective
<1> QED
  BY <1>4, <1>8, FS_Bijection DEF ExistsBijection

\* What the workers keep in the keys and count holds in every state.
THEOREM WindowInvariant == Spec => []WindowInv
<1>1. Init => WindowInv
  <2> SUFFICES ASSUME Init PROVE WindowInv
    OBVIOUS
  <2>1. done = <<>> /\ asked = {} /\ DOMAIN done = {}
    BY DEF Init
  <2> QED
    BY <2>1 DEF WindowInv, Stamps, Kept, SeenComplete, ClassifiedBySeen
<1> QED
  BY <1>1, WindowStep, ContextInvariant, PTL DEF Spec

\* What is newer than the start of the window is in it or overtook the answer.
LEMMA SinceParts ==
    ASSUME TypeOK, Stamps, NEW k \in DOMAIN done
    PROVE  Since(k) \subseteq InWindow(k) \cup Overtaking(k)
<1> SUFFICES ASSUME NEW n \in Since(k) PROVE n \in InWindow(k) \cup Overtaking(k)
  OBVIOUS
<1>1. n \in Upto(k) /\ done[n].at + Window > done[k].at
  BY DEF Since
<1>2. n \in DOMAIN done /\ (n = k \/ n < k)
  BY <1>1, StampTypes DEF Upto
<1>3. /\ done[n].at \in Nat /\ done[k].at \in Nat /\ Window \in Nat
      /\ done[n].ran \in Nat /\ done[k].ran \in Nat
      /\ done[n].at <= done[n].ran /\ done[n].ran <= done[k].ran
  BY <1>2, StampTypes DEF Stamps
<1> QED
  BY <1>1, <1>3 DEF InWindow, Overtaking

\* An answer counts attempts of its own address only: those of the window that
\* ends at its time stamp, and those whose workers overtook it, in whatever
\* order the transactions of the workers run (update_and_get).
THEOREM NothingElseCounted == Spec => []CountsOnlyTheWindow
<1>1. IInv /\ WindowInv => CountsOnlyTheWindow
  <2> SUFFICES ASSUME IInv, WindowInv, NEW k \in DOMAIN done, done[k].outcome = "ok",
                      NEW m \in done[k].seen
               PROVE  \E n \in InWindow(k) \cup Overtaking(k) :
                          m = [at |-> done[n].at, port |-> done[n].event.port]
    BY DEF CountsOnlyTheWindow
  <2>1. TypeOK /\ CountsSince /\ Stamps
    BY DEF IInv, WindowInv
  <2>2. Since(k) \subseteq InWindow(k) \cup Overtaking(k)
    BY <2>1, SinceParts
  <2>3. \E n \in Since(k) : m = [at |-> done[n].at, port |-> done[n].event.port]
    BY <2>1 DEF CountsSince
  <2> QED
    BY <2>2, <2>3
<1> QED
  BY <1>1, ContextInvariant, WindowInvariant, PTL

\* Whichever workers classified the attempts, in whatever order, and with
\* answers lost or keys expired in between: the newest attempt of an address
\* is a brute_force exactly when min_attempts attempts were recorded within
\* the window (update_and_get, IsBruteForce).
THEOREM BurstsCaught == Spec => []BurstIsCaught
<1>1. IInv /\ WindowInv => BurstIsCaught
  <2> SUFFICES ASSUME IInv, WindowInv, losses = 0, NEW k \in DOMAIN done, Judged(k)
               PROVE  done[k].result.type = "brute_force"
                        <=> Cardinality(InWindow(k)) >= BruteMin
    BY DEF BurstIsCaught
  <2> DEFINE e == done[k].event
             c == [attempts |-> Cardinality(done[k].seen), ports |-> done[k].ports]
  <2>1. done[k].result = Classify(e, c)
    BY DEF WindowInv, ClassifiedBySeen, Judged
  <2>2. /\ ~IsCommandInjection(e) /\ ~IsCredentialAttack(e)
        /\ IsBruteForce(e, c) <=> Cardinality(done[k].seen) >= BruteMin
    BY DEF Judged, IsBruteForce
  <2>3. AttackType(e, c) = "brute_force" <=> IsBruteForce(e, c)
    BY <2>2 DEF AttackType
  <2>4. done[k].result.type = AttackType(e, c)
    BY <2>1 DEF Classify
  <2> QED
    BY <2>2, <2>3, <2>4, SeenIsWindow
<1> QED
  BY <1>1, ContextInvariant, WindowInvariant, PTL
=============================================================================
