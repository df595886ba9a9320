--------------------------- MODULE BackfillProofs ---------------------------
(***************************************************************************)
(* Proofs about Backfill, for any table, rules, batch size and number of   *)
(* runs that die.                                                          *)
(*                                                                         *)
(* What a run commits is only as good as what it has pending: the updates  *)
(* of the session keep the committed classes, cover a prefix in time and   *)
(* have their evidence (Sound).  The pending ones stay so because the rows *)
(* the run has not looked at are exactly those without an update, sorted   *)
(* by time (RunConsistent), and because the counters in memory never       *)
(* exceed the rows that have an update (CountersBacked).                   *)
(***************************************************************************)
EXTENDS Backfill, FiniteSetTheorems, SequenceTheorems, TLAPS

\* A map c of classes covers a prefix in time.
InOrder(c) ==
    \A r, s \in Rows :
        c[r] # Null /\ event[s].timestamp < event[r].timestamp => c[s] # Null

\* A map c of classes has evidence for what it says.
Evident(c) ==
    \A r \in Rows :
        /\ c[r].type = "brute_force" => Context(r).attempts >= BruteMin
        /\ c[r].type = "port_scan" => Cardinality(Context(r).ports) >= PortMin

Keeps(c) == \A r \in Rows : class[r] # Null => c[r] = class[r]

\* A map of classes that may be committed.
Sound(c) ==
    /\ c \in [Rows -> Classes \cup {Null}]
    /\ InOrder(c)
    /\ Evident(c)
    /\ Keeps(c)

Waiting == {todo[n] : n \in DOMAIN todo}
Handled == {r \in Rows : updated[r] # Null}
HandledOf(i) == {r \in Handled : event[r].ip = i}

\* What the run has not looked at.
RunConsistent ==
    /\ \A m, n \in DOMAIN todo : m # n => todo[m] # todo[n]
    /\ Selected(todo)
    /\ running => Waiting = Rows \ Handled
    /\ ~running => todo = <<>> /\ updated = class

\* The counters of the run have a row for everything they count.
CountersBacked ==
    /\ processed <= Cardinality(Handled)
    /\ \A i \in IPs :
          /\ seenBy[i].attempts <= Cardinality(HandledOf(i))
          /\ seenBy[i].ports \subseteq {event[s].port : s \in HandledOf(i)}

IInv ==
    /\ TypeOK
    /\ Sound(class)
    /\ Sound(updated)
    /\ RunConsistent
    /\ CountersBacked

-----------------------------------------------------------------------------
(* Facts about the events, the contexts and the classifier.                *)

\* The parts of a stored event.
LEMMA EventParts ==
    ASSUME NEW e \in Events
    PROVE  e.ip \in IPs /\ e.port \in Ports /\ e.timestamp \in Nat
BY BackfillAssumption DEF Events

\* Whatever the rules match, the class is one of the known ones, and the two
\* types that count attempts or ports are only given when the count is reached.
LEMMA ClassifySound ==
    ASSUME NEW e, NEW c
    PROVE  /\ Classify(e, c) \in Classes
           /\ Classify(e, c) # Null
           /\ Classify(e, c).type = "brute_force" => c.attempts >= BruteMin
           /\ Classify(e, c).type = "port_scan" => Cardinality(c.ports) >= PortMin
<1>1. AttackType(e, c) \in AttackTypes /\ AttackType(e, c) # "null"
  BY DEF AttackType, AttackTypes
<1>2. ASSUME NEW t PROVE Severity(t, c) \in Severities
  BY DEF Severity, Severities
<1>3. AttackType(e, c) = "brute_force" => c.attempts >= BruteMin
  BY DEF AttackType, IsBruteForce
<1>4. AttackType(e, c) = "port_scan" => Cardinality(c.ports) >= PortMin
  BY DEF AttackType, IsPortScan
<1>5. Classify(e, c) = [type |-> AttackType(e, c), severity |-> Severity(AttackType(e, c), c)]
  BY DEF Classify
<1> QED
  BY <1>1, <1>2, <1>3, <1>4, <1>5 DEF Classes, Null

\* What an address had done by the time of a row is finite.
LEMMA ContextFinite ==
    ASSUME NEW r \in Rows
    PROVE  /\ IsFiniteSet(Upto(r)) /\ Context(r).attempts = Cardinality(Upto(r))
           /\ IsFiniteSet(Context(r).ports)
           /\ Context(r).ports = {event[s].port : s \in Upto(r)}
<1>1. IsFiniteSet(Upto(r))
  BY BackfillAssumption, FS_Subset DEF Upto
<1> DEFINE P == {event[s].port : s \in Upto(r)}
           f == [s \in Upto(r) |-> event[s].port]
<1>2. f \in Surjection(Upto(r), P)
  BY DEF Surjection
<1>3. IsFiniteSet(P)
  BY <1>1, <1>2, FS_Surjection
<1> QED
  BY <1>1, <1>3 DEF Context

\* The handled rows of an address, among the rows.
LEMMA HandledFinite ==
    /\ IsFiniteSet(Handled) /\ Cardinality(Handled) \in Nat
    /\ Cardinality(Handled) <= Cardinality(Rows) /\ Cardinality(Rows) \in Nat
    /\ \A i \in IPs : /\ IsFiniteSet(HandledOf(i)) /\ Cardinality(HandledOf(i)) \in Nat
                      /\ Cardinality(HandledOf(i)) <= Cardinality(Rows)
  BY BackfillAssumption, FS_Subset, FS_CardinalityType DEF Handled, HandledOf

-----------------------------------------------------------------------------
(* One row.                                                                *)

\* The head of what is left is the earliest row without an update, so the
\* counters of its address count rows up to its time: with its own update the
\* pending ones may be committed too.
LEMMA AfterRowSound ==
    ASSUME IInv, running, todo # <<>>
    PROVE  /\ Head(todo) \in Rows /\ updated[Head(todo)] = Null
           /\ AfterRow[Head(todo)] # Null
           /\ \A s \in Rows \ {Head(todo)} : AfterRow[s] = updated[s]
           /\ Sound(AfterRow)
<1> DEFINE r == Head(todo)
           e == event[r]
           c == Rebuilt(e)[e.ip]
<1>1. /\ todo \in Seq(Rows) /\ r \in Rows /\ r = todo[1] /\ 1 \in DOMAIN todo
      /\ \A n \in DOMAIN todo : n \in Nat /\ (n = 1 \/ 1 < n)
  BY DEF IInv, TypeOK
<1>2. Waiting = Rows \ Handled /\ r \in Waiting
  BY <1>1 DEF IInv, RunConsistent, Waiting
<1>3. updated[r] = Null
  BY <1>1, <1>2 DEF Handled
<1>4. \A s \in Rows : event[s] \in Events /\ event[s].timestamp \in Nat
  BY EventParts DEF IInv, TypeOK
<1>5. ASSUME NEW s \in Rows, event[s].timestamp < e.timestamp PROVE updated[s] # Null
  <2>1. SUFFICES ASSUME s \in Waiting PROVE FALSE
    BY <1>2 DEF Handled
  <2>2. PICK n \in DOMAIN todo : s = todo[n]
    BY <2>1 DEF Waiting
  <2>3. n = 1 \/ e.timestamp <= event[s].timestamp
    BY <1>1, <2>2 DEF IInv, RunConsistent, Selected
  <2> QED
    BY <1>1, <1>4, <1>5, <2>2, <2>3
<1>6. \A s \in Handled : event[s].timestamp <= e.timestamp
  <2> SUFFICES ASSUME NEW s \in Handled, e.timestamp < event[s].timestamp PROVE FALSE
    BY <1>1, <1>4 DEF Handled
  <2> QED
    BY <1>1, <1>3 DEF IInv, Sound, InOrder, Handled
<1>7. e.ip \in IPs /\ e.port \in Ports
  BY <1>1, <1>4, EventParts
<1>8. /\ c = [attempts |-> seenBy[e.ip].attempts + 1,
              ports    |-> seenBy[e.ip].ports \cup {e.port}]
  BY <1>7 DEF IInv, TypeOK, Rebuilt
<1>9. HandledOf(e.ip) \cup {r} \subseteq Upto(r) /\ r \notin HandledOf(e.ip)
  BY <1>1, <1>3, <1>4, <1>6 DEF HandledOf, Handled, Upto
<1>10. c.attempts <= Context(r).attempts /\ c.attempts \in Nat /\ Context(r).attempts \in Nat
  <2>1. Cardinality(HandledOf(e.ip) \cup {r}) = Cardinality(HandledOf(e.ip)) + 1
    BY <1>7, <1>9, HandledFinite, FS_AddElement
  <2>2. /\ Cardinality(HandledOf(e.ip) \cup {r}) <= Cardinality(Upto(r))
        /\ Cardinality(Upto(r)) \in Nat
    BY <1>1, <1>9, ContextFinite, FS_Subset, FS_CardinalityType
  <2>3. seenBy[e.ip].attempts <= Cardinality(HandledOf(e.ip)) /\ seenBy[e.ip].attempts \in Nat
    BY <1>7 DEF IInv, CountersBacked, TypeOK
  <2>4. Cardinality(HandledOf(e.ip)) \in Nat
    BY <1>7, HandledFinite
  <2> QED
    BY <1>1, <1>8, <2>1, <2>2, <2>3, <2>4, ContextFinite
<1>11. c.ports \subseteq Context(r).ports
  BY <1>1, <1>7, <1>8, <1>9, ContextFinite DEF IInv, CountersBacked
<1>12. /\ {Cardinality(c.ports), Cardinality(Context(r).ports)} \subseteq Nat
       /\ Cardinality(c.ports) <= Cardinality(Context(r).ports)
  <2>1. IsFiniteSet(c.ports) /\ Cardinality(c.ports) <= Cardinality(Context(r).ports)
    BY <1>1, <1>11, ContextFinite, FS_Subset
  <2> QED
    BY <1>1, <2>1, ContextFinite, FS_CardinalityType
<1>13. AfterRow = [updated EXCEPT ![r] = Classify(e, c)]
  BY DEF AfterRow
<1> HIDE DEF c
<1>14. /\ AfterRow \in [Rows -> Classes \cup {Null}]
       /\ AfterRow[r] = Classify(e, c) /\ AfterRow[r] # Null
       /\ \A s \in Rows \ {r} : AfterRow[s] = updated[s]
  BY <1>1, <1>13, ClassifySound DEF IInv, TypeOK
<1>15. InOrder(AfterRow)
  BY <1>1, <1>5, <1>14 DEF InOrder, IInv, Sound
<1>16. Evident(AfterRow)
  <2>1. /\ AfterRow[r].type = "brute_force" => c.attempts >= BruteMin
        /\ AfterRow[r].type = "port_scan" => Cardinality(c.ports) >= PortMin
    BY <1>14, ClassifySound
  <2>2. BruteMin \in Nat /\ PortMin \in Nat
    BY RulesAssumption
  <2>3. /\ AfterRow[r].type = "brute_force" => Context(r).attempts >= BruteMin
        /\ AfterRow[r].type = "port_scan" => Cardinality(Context(r).ports) >= PortMin
    BY <1>10, <1>12, <2>1, <2>2
  <2> QED
    BY <1>14, <2>3 DEF Evident, IInv, Sound
<1>17. Keeps(AfterRow)
  BY <1>1, <1>3, <1>14 DEF Keeps, IInv, Sound
<1> QED
  BY <1>1, <1>3, <1>14, <1>15, <1>16, <1>17 DEF Sound

-----------------------------------------------------------------------------
(* The actions.                                                            *)

\* A map that may be committed may still be when the step commits it, or
\* leaves it pending and commits at most a part of it.
LEMMA SoundKept ==
    ASSUME event' = event, IInv, NEW c, Sound(c), class' = class \/ class' = c
    PROVE  /\ c \in [Rows -> Classes \cup {Null}]
           /\ \A r, s \in Rows :
                 c[r] # Null /\ event'[s].timestamp < event'[r].timestamp => c[s] # Null
           /\ \A r \in Rows :
                 /\ c[r].type = "brute_force" => Context(r)'.attempts >= BruteMin
                 /\ c[r].type = "port_scan" => Cardinality(Context(r)'.ports) >= PortMin
           /\ \A r \in Rows : class'[r] # Null => c[r] = class'[r]
<1>1. \A r \in Rows : Context(r)' = Context(r)
  BY DEF Context, Upto
<1>2. \A r \in Rows : class'[r] # Null => c[r] = class'[r]
  BY DEF Sound, Keeps
<1> QED
  BY <1>1, <1>2 DEF Sound, InOrder, Evident

\* The counters of a run that has not begun.
LEMMA NothingCounted ==
    /\ NoContexts \in [IPs -> [attempts : 0 .. Cardinality(Rows), ports : SUBSET Ports]]
    /\ \A i \in IPs : NoContexts[i].attempts = 0 /\ NoContexts[i].ports = {}
<1>1. 0 \in 0 .. Cardinality(Rows)
  BY HandledFinite
<1>2. NoContext \in [attempts : 0 .. Cardinality(Rows), ports : SUBSET Ports]
  BY <1>1 DEF NoContext
<1> QED
  BY <1>2 DEF NoContexts, NoContext

\* The table before any run.
LEMMA InitIInv == Init => IInv
<1> SUFFICES ASSUME Init PROVE IInv
  OBVIOUS
<1>1. /\ class = [r \in Rows |-> Null] /\ updated = class /\ todo = <<>> /\ running = FALSE
      /\ processed = 0 /\ seenBy = NoContexts /\ faults = 0
      /\ event \in [Rows -> Events] /\ MaxFaults \in Nat
      /\ Cardinality(Rows) \in Nat
  BY HandledFinite, BackfillAssumption DEF Init
<1>2. TypeOK
  <2>1. class \in [Rows -> Classes \cup {Null}]
    BY <1>1
  <2>2. processed \in 0 .. Cardinality(Rows) /\ faults \in 0 .. MaxFaults
    BY <1>1
  <2>3. seenBy \in [IPs -> [attempts : 0 .. Cardinality(Rows), ports : SUBSET Ports]]
    BY <1>1, NothingCounted
  <2>4. todo \in Seq(Rows) /\ updated = class /\ running \in BOOLEAN
    BY <1>1, EmptySeq
  <2> QED
    BY <1>1, <2>1, <2>2, <2>3, <2>4 DEF TypeOK
<1>3. Sound(class)
  BY <1>1 DEF Sound, InOrder, Evident, Keeps, Null
<1>4. RunConsistent
  BY <1>1 DEF RunConsistent, Selected
<1>5. CountersBacked
  BY <1>1, NothingCounted, HandledFinite DEF CountersBacked
<1> QED
  BY <1>1, <1>2, <1>3, <1>4, <1>5 DEF IInv

\* However a run ends: what is committed is sound, and the next run starts
\* from nothing.
LEMMA ExitIInv ==
    ASSUME IInv, Exit, event' = event, faults' \in 0 .. MaxFaults,
           NEW c, Sound(c), class' = c
    PROVE  IInv'
<1>1. /\ running' = FALSE /\ todo' = <<>> /\ updated' = c /\ processed' = 0
      /\ seenBy' = NoContexts
  BY DEF Exit
<1>2. Cardinality(Rows) \in Nat /\ event \in [Rows -> Events]
  BY HandledFinite DEF IInv, TypeOK
<1>3. TypeOK'
  <2>1. class' \in [Rows -> Classes \cup {Null}] /\ updated' \in [Rows -> Classes \cup {Null}]
    BY <1>1 DEF Sound
  <2>2. processed' \in 0 .. Cardinality(Rows)
    BY <1>1, <1>2
  <2>3. seenBy' \in [IPs -> [attempts : 0 .. Cardinality(Rows), ports : SUBSET Ports]]
    BY <1>1, NothingCounted
  <2>4. todo' \in Seq(Rows) /\ running' \in BOOLEAN /\ event' \in [Rows -> Events]
    BY <1>1, <1>2, EmptySeq
  <2> QED
    BY <2>1, <2>2, <2>3, <2>4 DEF TypeOK
<1>4. Sound(class)' /\ Sound(updated)'
  BY <1>1, SoundKept DEF Sound, InOrder, Evident, Keeps
<1>5. RunConsistent'
  BY <1>1, class' = c DEF RunConsistent, Selected
<1>6. CountersBacked'
  <2>1. /\ Cardinality(Handled') \in Nat
        /\ \A i \in IPs : Cardinality(HandledOf(i)') \in Nat
    BY BackfillAssumption, FS_Subset, FS_CardinalityType DEF Handled, HandledOf
  <2> QED
    BY <1>1, <2>1, NothingCounted DEF CountersBacked
<1> QED
  BY <1>3, <1>4, <1>5, <1>6 DEF IInv

\* A run selects each unclassified row once, sorted.
LEMMA BeginIInv == IInv /\ Begin => IInv'
<1> SUFFICES ASSUME IInv, Begin PROVE IInv'
  OBVIOUS
<1> DEFINE k == Cardinality(Unclassified)
<1>1. PICK q \in [1 .. k -> Unclassified] :
        /\ Unclassified = {q[n] : n \in DOMAIN q}
        /\ Selected(q)
        /\ todo' = q
  BY DEF Begin
<1>2. /\ running' /\ ~running
      /\ UNCHANGED <<event, class, updated, processed, seenBy, faults>>
  BY DEF Begin
<1>3. k \in Nat /\ IsFiniteSet(Unclassified)
  BY BackfillAssumption, FS_Subset, FS_CardinalityType DEF Unclassified
<1>4. q \in Injection(1 .. k, Unclassified)
  <2>1. q \in Surjection(1 .. k, Unclassified)
    BY <1>1 DEF Surjection
  <2>2. IsFiniteSet(1 .. k) /\ Cardinality(1 .. k) = k
    BY <1>3, FS_Interval
  <2> QED
    BY <1>3, <2>1, <2>2, FS_SurjSameCardinalityImpliesInj
<1>5. TypeOK'
  <2>1. q \in Seq(Rows)
    <3>1. q \in [1 .. k -> Rows]
      BY <1>1 DEF Unclassified
    <3> QED
      BY <1>3, <3>1, SeqDef
  <2> QED
    BY <1>1, <1>2, <2>1 DEF IInv, TypeOK
<1>6. Sound(class)' /\ Sound(updated)'
  BY <1>2, SoundKept DEF IInv, Sound, InOrder, Evident, Keeps
<1>7. RunConsistent'
  <2>1. Unclassified = Rows \ Handled'
    BY <1>2 DEF Unclassified, Handled, IInv, RunConsistent
  <2> QED
    BY <1>1, <1>2, <1>4, <2>1 DEF RunConsistent, Waiting, Injection, IsInjective, Selected
<1>8. CountersBacked'
  BY <1>2 DEF IInv, CountersBacked, Handled, HandledOf
<1> QED
  BY <1>5, <1>6, <1>7, <1>8 DEF IInv

\* The head of the list gets its update, and the batch perhaps its commit.
LEMMA ProcessIInv == IInv /\ Process => IInv'
<1> SUFFICES ASSUME IInv, Process PROVE IInv'
  OBVIOUS
<1>1. Head(todo) \in Rows /\ event[Head(todo)].ip \in IPs /\ event[Head(todo)].port \in Ports
  BY AfterRowSound, EventParts DEF IInv, TypeOK, Process
<1>2. PICK r \in Rows, i \in IPs :
        r = Head(todo) /\ i = event[r].ip /\ event[r].port \in Ports
  BY <1>1
<1>3. /\ running /\ todo # <<>> /\ running'
      /\ seenBy' = Rebuilt(event[r]) /\ updated' = AfterRow /\ todo' = Tail(todo)
      /\ processed' = processed + 1 /\ (class' = AfterRow \/ class' = class)
      /\ UNCHANGED <<event, faults>>
  BY <1>2 DEF Process
<1>4. /\ r \in Rows /\ updated[r] = Null /\ AfterRow[r] # Null
      /\ \A s \in Rows \ {r} : AfterRow[s] = updated[s]
      /\ Sound(AfterRow)
  BY <1>2, <1>3, AfterRowSound
<1>5. Handled' = Handled \cup {r} /\ r \notin Handled
  BY <1>3, <1>4 DEF Handled
<1>6. /\ HandledOf(i)' = HandledOf(i) \cup {r} /\ r \notin HandledOf(i)
      /\ \A j \in IPs \ {i} : HandledOf(j)' = HandledOf(j)
  BY <1>2, <1>3, <1>4, <1>5 DEF HandledOf
<1>7. /\ Cardinality(Handled') = Cardinality(Handled) + 1
      /\ Cardinality(HandledOf(i)') = Cardinality(HandledOf(i)) + 1
      /\ Cardinality(Handled') <= Cardinality(Rows)
      /\ Cardinality(HandledOf(i)') <= Cardinality(Rows)
      /\ {Cardinality(Handled), Cardinality(HandledOf(i)), Cardinality(Rows)} \subseteq Nat
  <2>1. Handled' \subseteq Rows /\ HandledOf(i)' \subseteq Rows
    BY DEF Handled, HandledOf
  <2> QED
    BY <1>5, <1>2, <1>6, <2>1, BackfillAssumption, HandledFinite, FS_AddElement, FS_Subset
<1>8. /\ processed \in Nat /\ processed <= Cardinality(Handled)
      /\ seenBy[i].attempts \in Nat /\ seenBy[i].attempts <= Cardinality(HandledOf(i))
      /\ seenBy[i].ports \subseteq Ports
      /\ seenBy[i].ports \subseteq {event[s].port : s \in HandledOf(i)}
  BY <1>2 DEF IInv, TypeOK, CountersBacked
<1>9. /\ seenBy'[i].attempts = seenBy[i].attempts + 1
      /\ seenBy'[i].ports = seenBy[i].ports \cup {event[r].port}
      /\ seenBy'[i] = [attempts |-> seenBy[i].attempts + 1,
                       ports    |-> seenBy[i].ports \cup {event[r].port}]
      /\ seenBy' = [seenBy EXCEPT ![i] = seenBy'[i]]
  BY <1>3, <1>2 DEF Rebuilt, IInv, TypeOK
<1>10. TypeOK'
  <2>1. processed' \in 0 .. Cardinality(Rows)
    BY <1>3, <1>7, <1>8
  <2>2. seenBy'[i] \in [attempts : 0 .. Cardinality(Rows), ports : SUBSET Ports]
    BY <1>2, <1>7, <1>8, <1>9
  <2>3. seenBy' \in [IPs -> [attempts : 0 .. Cardinality(Rows), ports : SUBSET Ports]]
    BY <1>9, <2>2 DEF IInv, TypeOK
  <2>4. class' \in [Rows -> Classes \cup {Null}] /\ updated' \in [Rows -> Classes \cup {Null}]
    BY <1>3, <1>4 DEF Sound, IInv
  <2>5. todo' \in Seq(Rows)
    BY <1>3 DEF IInv, TypeOK
  <2> QED
    BY <1>3, <2>1, <2>3, <2>4, <2>5 DEF IInv, TypeOK
<1>11. Sound(class)' /\ Sound(updated)'
  <2>1. Sound(updated)'
    BY <1>3, <1>4, SoundKept DEF Sound, InOrder, Evident, Keeps
  <2>2. CASE class' = class
    <3>1. Sound(class)
      BY DEF IInv
    <3>2. event' = event /\ \A s \in Rows : Context(s)' = Context(s)
      BY <1>3 DEF Context, Upto
    <3>3. InOrder(class)' /\ Keeps(class)'
      BY <2>2, <3>1, <3>2 DEF Sound, InOrder, Keeps
    <3>4. Evident(class)'
      BY <2>2, <3>1, <3>2 DEF Sound, Evident
    <3> QED
      BY <2>1, <2>2, <3>1, <3>3, <3>4 DEF Sound
  <2>3. CASE class' = AfterRow
    BY <1>3, <2>1, <2>3 DEF Sound, InOrder, Evident, Keeps
  <2> QED
    BY <1>3, <2>1, <2>2, <2>3
<1>12. RunConsistent'
  <2>1. /\ DOMAIN todo = 1 .. Len(todo) /\ Len(todo) \in Nat /\ Len(todo) > 0 /\ r = todo[1]
        /\ DOMAIN todo' = 1 .. Len(todo) - 1
        /\ \A n \in DOMAIN todo' : n \in Nat /\ n + 1 \in DOMAIN todo /\ todo'[n] = todo[n + 1]
    BY <1>2, <1>3 DEF IInv, TypeOK
  <2>2. \A m, n \in DOMAIN todo : m # n => todo[m] # todo[n]
    BY DEF IInv, RunConsistent
  <2>3. \A m, n \in DOMAIN todo' : m # n => todo'[m] # todo'[n]
    BY <2>1, <2>2
  <2>4. Selected(todo)'
    <3>1. Selected(todo)
      BY DEF IInv, RunConsistent
    <3>2. ASSUME NEW m \in DOMAIN todo', NEW n \in DOMAIN todo', m < n
          PROVE  event[todo[m + 1]].timestamp <= event[todo[n + 1]].timestamp
      BY <2>1, <3>1, <3>2 DEF Selected
    <3> QED
      BY <1>3, <2>1, <3>2 DEF Selected
  <2>5. Waiting' = Waiting \ {r}
    <3>1. ASSUME NEW n \in DOMAIN todo, n # 1 PROVE n - 1 \in DOMAIN todo' /\ todo[n] = todo'[n - 1]
      BY <2>1, <3>1
    <3>2. \A n \in DOMAIN todo' : todo'[n] # r
      BY <2>1, <2>2
    <3> QED
      BY <2>1, <3>1, <3>2 DEF Waiting
  <2> QED
    BY <1>3, <1>5, <2>3, <2>4, <2>5 DEF IInv, RunConsistent
<1>13. CountersBacked'
  <2>1. processed' <= Cardinality(Handled')
    BY <1>3, <1>7, <1>8
  <2>2. seenBy'[i].attempts <= Cardinality(HandledOf(i)')
    BY <1>7, <1>8, <1>9
  <2>3. seenBy'[i].ports \subseteq {event[s].port : s \in HandledOf(i)'}
    BY <1>6, <1>8, <1>9
  <2>4. \A j \in IPs \ {i} : seenBy'[j] = seenBy[j]
    BY <1>9 DEF IInv, TypeOK
  <2>5. ASSUME NEW j \in IPs \ {i}
        PROVE  /\ seenBy'[j].attempts <= Cardinality(HandledOf(j)')
               /\ seenBy'[j].ports \subseteq {event[s].port : s \in HandledOf(j)'}
    BY <1>6, <2>4 DEF IInv, CountersBacked
  <2> QED
    BY <1>3, <2>1, <2>2, <2>3, <2>5 DEF CountersBacked
<1> QED
  BY <1>10, <1>11, <1>12, <1>13 DEF IInv

\* What a step commits is what was committed, or a sound map.
LEMMA NextIInv == IInv /\ [Next]_vars => IInv'
<1> SUFFICES ASSUME IInv, [Next]_vars PROVE IInv'
  OBVIOUS
<1>1. faults \in 0 .. MaxFaults /\ MaxFaults \in Nat
  BY BackfillAssumption DEF IInv, TypeOK
<1>2. Sound(class) /\ Sound(updated)
  BY DEF IInv
<1>3. CASE Begin
  BY <1>3, BeginIInv
<1>4. CASE Process
  BY <1>4, ProcessIInv
<1>5. CASE Finish
  BY <1>1, <1>2, <1>5, ExitIInv DEF Finish
<1>6. CASE Die
  <2>1. faults' \in 0 .. MaxFaults
    BY <1>1, <1>6 DEF Die
  <2> QED
    BY <1>2, <1>6, <2>1, ExitIInv DEF Die
<1>7. CASE DieCommitted
  <2>1. faults' \in 0 .. MaxFaults
    BY <1>1, <1>7 DEF DieCommitted
  <2>2. class' = updated \/ (todo # <<>> /\ class' = AfterRow)
    BY <1>7 DEF DieCommitted
  <2>3. todo # <<>> => Sound(AfterRow)
    BY <1>7, AfterRowSound DEF DieCommitted
  <2> QED
    BY <1>2, <1>7, <2>1, <2>2, <2>3, ExitIInv DEF DieCommitted
<1>8. CASE UNCHANGED vars
  <2>1. UNCHANGED <<event, class, running, todo, updated, processed, seenBy, faults>>
    BY <1>8 DEF vars
  <2>2. TypeOK'
    BY <2>1 DEF IInv, TypeOK
  <2>3. Sound(class)' /\ Sound(updated)'
    BY <1>2, <2>1, SoundKept DEF Sound, InOrder, Evident, Keeps
  <2>4. RunConsistent' /\ CountersBacked'
    BY <2>1 DEF IInv, RunConsistent, Selected, Waiting, CountersBacked, Handled, HandledOf
  <2> QED
    BY <2>2, <2>3, <2>4 DEF IInv
<1> QED
  BY <1>3, <1>4, <1>5, <1>6, <1>7, <1>8 DEF Next

-----------------------------------------------------------------------------
(* The theorems.                                                           *)

\* What is pending and what is committed is sound in every state.
THEOREM InductiveInvariant == Spec => []IInv
  BY InitIInv, NextIInv, PTL DEF Spec

\* Every variable keeps its type: the counters never exceed the table.
THEOREM TypeCorrect == Spec => []TypeOK
<1>1. IInv => TypeOK
  BY DEF IInv
<1> QED
  BY <1>1, InductiveInvariant, PTL

\* Over any number of interrupted runs, whatever is classified is a prefix of
\* the table in time (ORDER BY timestamp and the batch commits).
THEOREM PrefixCommitted == Spec => []CommittedInOrder
<1>1. IInv => CommittedInOrder
  BY DEF IInv, Sound, InOrder, CommittedInOrder
<1> QED
  BY <1>1, InductiveInvariant, PTL

\* No event is called brute_force or port_scan without the attempts or the
\* ports of its address by that time (_IPContextBuilder.update_and_get).
THEOREM ClassHasEvidence == Spec => []EvidenceForClass
<1>1. IInv => EvidenceForClass
  BY DEF IInv, Sound, Evident, EvidenceForClass
<1> QED
  BY <1>1, InductiveInvariant, PTL

\* No run changes what an earlier one committed (WHERE attack_type IS NULL).
THEOREM ClassesKept == Spec => NeverReclassified
<1>1. IInv /\ [Next]_vars => [\A r \in Rows : class[r] # Null => class'[r] = class[r]]_vars
  <2> SUFFICES ASSUME IInv, Next, NEW r \in Rows, class[r] # Null PROVE class'[r] = class[r]
    OBVIOUS
  <2>1. updated[r] = class[r]
    BY DEF IInv, Sound, Keeps
  <2>2. running /\ todo # <<>> => AfterRow[r] = class[r]
    BY AfterRowSound DEF Sound, Keeps
  <2> QED
    BY <2>1, <2>2 DEF Next, Begin, Process, Finish, Die, DieCommitted
<1> QED
  BY <1>1, InductiveInvariant, PTL DEF Spec, NeverReclassified

\* A run that ends without a fault leaves no event unclassified.
THEOREM CompletedCovers == Spec => CompletedIsTotal
<1>1. IInv /\ [Next]_vars => [running /\ ~running' /\ faults' = faults
                                 => \A r \in Rows : class'[r] # Null]_vars
  <2> SUFFICES ASSUME IInv, Next, running, ~running', faults' = faults, NEW r \in Rows
               PROVE  class'[r] # Null
    OBVIOUS
  <2>1. faults \in Nat
    BY BackfillAssumption DEF IInv, TypeOK
  <2>2. Finish
    <3>1. ~Begin /\ ~Process
      BY DEF Begin, Process
    <3>2. ~Die /\ ~DieCommitted
      BY <2>1 DEF Die, DieCommitted
    <3> QED
      BY <3>1, <3>2 DEF Next
  <2>3. todo = <<>> /\ class' = updated
    BY <2>2 DEF Finish
  <2>4. Handled = Rows
    BY <2>3 DEF IInv, RunConsistent, Waiting, Handled
  <2> QED
    BY <2>3, <2>4 DEF Handled
<1> QED
  BY <1>1, InductiveInvariant, PTL DEF Spec, CompletedIsTotal
=============================================================================
