------------------------ MODULE HoneypotBufferProofs ------------------------
(***************************************************************************)
(* Proofs about HoneypotBuffer, for any number of events, flush loops,     *)
(* retries, outages and mishaps and for every size of the memory buffer.   *)
(*                                                                         *)
(* LossMatchedByDuplicate only compares numbers.  What makes it inductive  *)
(* is that an event is flushed while it is the head of the buffer, and     *)
(* that it leaves the buffer at the head: when its XADD returns, it is the *)
(* head still, or another task has popped it (HeadOrGone).  So the XADD    *)
(* and the popleft() after it put at most one event among those that are   *)
(* out of the honeypot's hands (Gone), and each of them is paid for by an  *)
(* entry of the stream or by the full deque (EveryLossPaid).               *)
(***************************************************************************)
EXTENDS HoneypotBuffer, FiniteSetTheorems, TLAPS

\* A task in one of these stages has an event to publish.
Busy == {"joining", "adding", "waiting"}

\* The events whose emit_event returned.
Done == {e \in Events : stage[e] = "done"}

HeadOrGone(x) == x \in Range(buffer) => x = Head(buffer)

\* What a task publishes: the event that was the head when it began to flush,
\* or its own.
TaskInv(t) ==
    stage[t] \in Busy =>
        IF flushing[t] THEN item[t] \in Done /\ HeadOrGone(item[t])
                       ELSE t \in Events /\ item[t] = t

\* An event is put into the buffer once, when its emit_event returns.
BufferedOnce == IsInjective(buffer) /\ Range(buffer) \subseteq Done

\* The events that are in the stream or that nothing will publish any more.
Gone == Range(stream) \cup (Done \ Range(buffer))

EveryLossPaid == Cardinality(Gone) <= Len(stream) + shed

IInv ==
    /\ TypeOK
    /\ \A t \in Tasks : TaskInv(t)
    /\ BufferedOnce
    /\ EveryLossPaid

-----------------------------------------------------------------------------
(* Facts about sequences and finite sets.                                  *)

\* What the deque holds after append.
LEMMA AppendRange ==
    ASSUME NEW S, NEW s \in Seq(S), NEW x
    PROVE  /\ Range(Append(s, x)) = Range(s) \cup {x}
           /\ Len(Append(s, x)) = Len(s) + 1
           /\ s # <<>> => Head(Append(s, x)) = Head(s)
           /\ IsInjective(s) /\ x \notin Range(s) => IsInjective(Append(s, x))
<1>1. /\ DOMAIN Append(s, x) = 1 .. Len(s) + 1 /\ DOMAIN s = 1 .. Len(s) /\ Len(s) \in Nat
      /\ \A i \in 1 .. Len(s) : Append(s, x)[i] = s[i]
      /\ Append(s, x)[Len(s) + 1] = x
      /\ Len(Append(s, x)) = Len(s) + 1
  OBVIOUS
<1>2. Range(Append(s, x)) = Range(s) \cup {x}
  BY <1>1 DEF Range
<1>3. s # <<>> => Head(Append(s, x)) = Head(s)
  BY <1>1
<1>4. IsInjective(s) /\ x \notin Range(s) => IsInjective(Append(s, x))
  BY <1>1 DEF IsInjective, Range
<1> QED
  BY <1>1, <1>2, <1>3, <1>4

\* What the deque holds after popleft.
LEMMA TailRange ==
    ASSUME NEW S, NEW s \in Seq(S), s # <<>>
    PROVE  /\ Head(s) \in S /\ Tail(s) \in Seq(S) /\ Len(Tail(s)) = Len(s) - 1
           /\ Range(s) = Range(Tail(s)) \cup {Head(s)}
           /\ IsInjective(s) => IsInjective(Tail(s)) /\ Head(s) \notin Range(Tail(s))
<1>1. /\ Len(s) \in Nat /\ Len(s) > 0 /\ DOMAIN s = 1 .. Len(s) /\ Head(s) = s[1]
      /\ Head(s) \in S /\ Tail(s) \in Seq(S)
      /\ Len(Tail(s)) = Len(s) - 1 /\ DOMAIN Tail(s) = 1 .. Len(s) - 1
      /\ \A i \in 1 .. Len(s) - 1 : Tail(s)[i] = s[i + 1]
  OBVIOUS
<1>2. \A i \in 2 .. Len(s) : s[i] = Tail(s)[i - 1]
  BY <1>1
<1>3. Range(s) = Range(Tail(s)) \cup {Head(s)}
  <2>1. ASSUME NEW i \in DOMAIN s PROVE s[i] \in Range(Tail(s)) \cup {Head(s)}
    <3>1. CASE i = 1
      BY <1>1, <3>1
    <3>2. CASE i # 1
      <4>1. i - 1 \in DOMAIN Tail(s) /\ s[i] = Tail(s)[i - 1]
        BY <1>1, <1>2, <3>2, <2>1
      <4> QED
        BY <4>1 DEF Range
    <3> QED
      BY <3>1, <3>2
  <2>2. ASSUME NEW i \in DOMAIN Tail(s) PROVE Tail(s)[i] \in Range(s)
    <3>1. i + 1 \in DOMAIN s /\ Tail(s)[i] = s[i + 1]
      BY <1>1, <2>2
    <3> QED
      BY <3>1 DEF Range
  <2>3. Head(s) \in Range(s)
    BY <1>1 DEF Range
  <2> QED
    BY <2>1, <2>2, <2>3 DEF Range
<1>4. ASSUME IsInjective(s) PROVE IsInjective(Tail(s)) /\ Head(s) \notin Range(Tail(s))
  BY <1>1, <1>4 DEF IsInjective, Range
<1> QED
  BY <1>1, <1>3, <1>4

\* A set that gains at most the elements of X has at most as many more.
LEMMA Gain ==
    ASSUME NEW S, IsFiniteSet(S), NEW X, IsFiniteSet(X), NEW T, T \subseteq S \cup X
    PROVE  /\ IsFiniteSet(T)
           /\ {Cardinality(T), Cardinality(S), Cardinality(X)} \subseteq Nat
           /\ Cardinality(T) <= Cardinality(S) + Cardinality(X)
<1>1. /\ IsFiniteSet(S \cup X) /\ IsFiniteSet(S \cap X)
      /\ Cardinality(S \cup X) = Cardinality(S) + Cardinality(X) - Cardinality(S \cap X)
  BY FS_Union, FS_Subset
<1>2. IsFiniteSet(T) /\ Cardinality(T) <= Cardinality(S \cup X)
  BY <1>1, FS_Subset
<1> QED
  BY <1>1, <1>2, FS_CardinalityType

LEMMA PairCardinality ==
    ASSUME NEW a, NEW b
    PROVE  /\ IsFiniteSet({a, b}) /\ Cardinality({a, b}) \in Nat
           /\ Cardinality({a, b}) <= 2
<1>1. {a, b} = {a} \cup {b} /\ IsFiniteSet({a}) /\ Cardinality({a}) = 1
  BY FS_Singleton
<1>2. /\ IsFiniteSet({a} \cup {b})
      /\ Cardinality({a} \cup {b}) = IF b \in {a} THEN 1 ELSE 2
  BY <1>1, FS_AddElement
<1> QED
  BY <1>1, <1>2

\* Everything that is counted is an event, and there are finitely many.
LEMMA GoneFinite ==
    ASSUME TypeOK
    PROVE  /\ IsFiniteSet(Gone) /\ Cardinality(Gone) \in Nat
           /\ Gone \subseteq Events
<1>1. Range(stream) \subseteq Events
  BY DEF TypeOK, Range
<1>2. Gone \subseteq Events
  BY <1>1 DEF Gone, Done
<1> QED
  BY <1>2, BufferAssumption, FS_Subset, FS_CardinalityType

-----------------------------------------------------------------------------
(* What a step does to a task and to the data.                             *)

\* Task t gets to its next await: it ends, keeps its event, begins to flush
\* the head or publishes its own event.
Moves(t) ==
    /\ stage[t] # "done"
    /\ \A u \in Tasks \ {t} :
          stage'[u] = stage[u] /\ item'[u] = item[u] /\ flushing'[u] = flushing[u]
    /\ \/ stage'[t] \in {"idle", "dead"}
       \/ stage'[t] = "done"
       \/ /\ stage[t] \in Busy /\ stage'[t] \in Busy
          /\ item'[t] = item[t] /\ flushing'[t] = flushing[t]
       \/ /\ stage'[t] \in Busy /\ flushing'[t]
          /\ buffer' # <<>> /\ item'[t] = Head(buffer')
       \/ stage'[t] \in Busy /\ ~flushing'[t] /\ t \in Events /\ item'[t] = t

TaskTypes ==
    /\ stage \in [Tasks -> Stages]
    /\ item \in [Tasks -> Tasks]
    /\ flushing \in [Tasks -> BOOLEAN]
    /\ attempt \in [Tasks -> 0 .. MaxRetries - 1]
    /\ fate \in [Tasks -> {"ok", "cut", "refused"}]
    /\ handle \in BOOLEAN

\* The buffer stays, loses its head or takes the event of task t.
BufferMoves(t) ==
    \/ buffer' = buffer /\ shed' = shed
    \/ buffer # <<>> /\ buffer' = Tail(buffer) /\ shed' = shed
    \/ t \in Events /\ stage'[t] = "done" /\ BufferOwn(t)

\* What task t does to the stream, the buffer and its own stage.
DataMoves(t) ==
    \/ UNCHANGED <<stream, buffer, shed>> /\ stage'[t] # "done"
    \/ /\ stage[t] \in Busy /\ Executed(t) /\ UNCHANGED <<buffer, shed>>
       /\ stage'[t] = "done" => ~flushing[t]
    \/ /\ stage[t] \in Busy /\ Executed(t) /\ flushing[t]
       /\ buffer # <<>> /\ buffer' = Tail(buffer) /\ shed' = shed
       /\ stage'[t] # "done"
    \/ /\ stage[t] \in Busy /\ ~flushing[t] /\ BufferOwn(t) /\ stage'[t] = "done"
       /\ stream' = stream \/ Executed(t)

\* Attempt is one way to go on.
LEMMA AttemptMoves ==
    ASSUME IInv, NEW t \in Tasks, NEW x \in Tasks, NEW f \in BOOLEAN,
           NEW n \in 0 .. MaxRetries - 1, NEW h, Attempt(t, x, f, n, h)
    PROVE  /\ TaskTypes'
           /\ \A u \in Tasks \ {t} :
                 stage'[u] = stage[u] /\ item'[u] = item[u] /\ flushing'[u] = flushing[u]
           /\ stage'[t] \in Busy \ {"waiting"} /\ item'[t] = x /\ flushing'[t] = f
  BY DEF IInv, TypeOK, Attempt, TaskTypes, Busy, Stages

\* Rest is another.
LEMMA RestMoves ==
    ASSUME IInv, NEW t \in Tasks, NEW s \in Stages, Rest(t, s), handle' \in BOOLEAN
    PROVE  /\ TaskTypes'
           /\ \A u \in Tasks \ {t} :
                 stage'[u] = stage[u] /\ item'[u] = item[u] /\ flushing'[u] = flushing[u]
           /\ stage'[t] = s
<1>1. 0 \in 0 .. MaxRetries - 1
  BY BufferAssumption
<1> QED
  BY <1>1 DEF IInv, TypeOK, Rest, TaskTypes

\* A flush that ends.
LEMMA EndFlushMoves ==
    ASSUME IInv, NEW t \in Tasks, stage[t] # "done", NEW h \in BOOLEAN, EndFlush(t, h)
    PROVE  TaskTypes' /\ Moves(t) /\ stage'[t] # "done"
<1>1. 0 \in 0 .. MaxRetries - 1
  BY BufferAssumption
<1>2. CASE t \in Events
  BY <1>1, <1>2, AttemptMoves DEF EndFlush, Moves, Busy
<1>3. CASE t \notin Events
  BY <1>3, RestMoves DEF EndFlush, Moves, Stages
<1> QED
  BY <1>2, <1>3

\* A flush that goes on with the head of what the buffer is now.
LEMMA FlushNextMoves ==
    ASSUME IInv, NEW t \in Tasks, stage[t] # "done", NEW h \in BOOLEAN,
           buffer' \in Seq(Events), FlushNext(t, buffer', h)
    PROVE  TaskTypes' /\ Moves(t) /\ stage'[t] # "done"
<1>1. CASE buffer' # <<>>
  <2>1. Head(buffer') \in Tasks /\ 0 \in 0 .. MaxRetries - 1
    BY <1>1, TailRange, BufferAssumption DEF Tasks
  <2> QED
    BY <1>1, <2>1, AttemptMoves DEF FlushNext, Moves, Busy
<1>2. CASE buffer' = <<>>
  BY <1>2, EndFlushMoves DEF FlushNext
<1> QED
  BY <1>1, <1>2

\* An exception ends the task.
LEMMA EscapeMoves ==
    ASSUME IInv, NEW t \in Tasks, stage[t] # "done", NEW h \in BOOLEAN, Escape(t, h)
    PROVE  TaskTypes' /\ Moves(t) /\ stage'[t] # "done"
  BY RestMoves DEF Escape, Moves, Stages

-----------------------------------------------------------------------------
(* The invariant is kept.                                                  *)

\* An event is done when its emit_event returns, and stays so.
LEMMA DoneEffect ==
    ASSUME IInv, NEW t \in Tasks, Moves(t)
    PROVE  /\ t \notin Done
           /\ stage'[t] # "done" => Done' = Done
           /\ stage'[t] = "done" => Done' = Done \cup ({t} \cap Events)
  BY DEF IInv, TypeOK, Moves, Done, Tasks

\* No step of a task puts an event into the buffer twice, nor another event
\* before the head.
LEMMA BufferEffect ==
    ASSUME IInv, NEW t \in Tasks, Moves(t), BufferMoves(t)
    PROVE  /\ buffer' \in Seq(Events) /\ Len(buffer') <= MaxBuffer /\ shed' \in Nat
           /\ BufferedOnce'
           /\ \A x \in Done : HeadOrGone(x) => HeadOrGone(x)'
<1> USE DEF HeadOrGone
<1>1. /\ buffer \in Seq(Events) /\ Len(buffer) \in Nat /\ Len(buffer) <= MaxBuffer
      /\ shed \in Nat /\ IsInjective(buffer) /\ Range(buffer) \subseteq Done
      /\ MaxBuffer \in Nat \ {0} /\ t \notin Done
  BY BufferAssumption, DoneEffect DEF IInv, TypeOK, BufferedOnce
<1>2. CASE buffer' = buffer /\ shed' = shed
  BY <1>1, <1>2, DoneEffect DEF BufferedOnce
<1>3. CASE buffer # <<>> /\ buffer' = Tail(buffer) /\ shed' = shed
  <2>1. /\ Tail(buffer) \in Seq(Events) /\ Len(Tail(buffer)) = Len(buffer) - 1
        /\ Range(buffer) = Range(Tail(buffer)) \cup {Head(buffer)}
        /\ IsInjective(Tail(buffer)) /\ Head(buffer) \notin Range(Tail(buffer))
    BY <1>1, <1>3, TailRange
  <2>2. Done \subseteq Done'
    BY DoneEffect
  <2>3. BufferedOnce'
    BY <1>1, <1>3, <2>1, <2>2 DEF BufferedOnce
  <2> QED
    BY <1>1, <1>3, <2>1, <2>3
<1>4. CASE t \in Events /\ stage'[t] = "done" /\ BufferOwn(t)
  <2>1. Done' = Done \cup {t}
    BY <1>4, DoneEffect
  <2>2. CASE Len(buffer) < MaxBuffer
    <3>1. buffer' = Append(buffer, t) /\ shed' = shed
      BY <2>2, <1>4 DEF BufferOwn
    <3>2. /\ Range(buffer') = Range(buffer) \cup {t} /\ Len(buffer') = Len(buffer) + 1
          /\ buffer # <<>> => Head(buffer') = Head(buffer)
          /\ IsInjective(buffer')
      BY <1>1, <3>1, AppendRange
    <3>3. buffer = <<>> => Range(buffer) = {}
      BY DEF Range
    <3>4. buffer' \in Seq(Events) /\ Len(buffer') <= MaxBuffer
      BY <1>1, <1>4, <2>2, <3>1, <3>2
    <3>5. BufferedOnce'
      BY <1>1, <2>1, <3>2 DEF BufferedOnce
    <3> QED
      BY <1>1, <3>1, <3>2, <3>3, <3>4, <3>5
  <2>3. CASE ~(Len(buffer) < MaxBuffer)
    <3>1. buffer' = Append(Tail(buffer), t) /\ shed' = shed + 1 /\ buffer # <<>>
      BY <1>1, <2>3, <1>4 DEF BufferOwn
    <3>2. /\ Tail(buffer) \in Seq(Events) /\ Len(Tail(buffer)) = Len(buffer) - 1
          /\ Range(buffer) = Range(Tail(buffer)) \cup {Head(buffer)}
          /\ IsInjective(Tail(buffer)) /\ Head(buffer) \notin Range(Tail(buffer))
      BY <1>1, <3>1, TailRange
    <3>3. /\ Range(buffer') = Range(Tail(buffer)) \cup {t}
          /\ Len(buffer') = Len(Tail(buffer)) + 1
          /\ IsInjective(buffer')
      BY <1>1, <3>1, <3>2, AppendRange
    <3>4. buffer' \in Seq(Events) /\ Len(buffer') <= MaxBuffer
      BY <1>1, <1>4, <3>1, <3>2, <3>3
    <3>5. BufferedOnce'
      BY <1>1, <2>1, <3>2, <3>3 DEF BufferedOnce
    <3> QED
      BY <1>1, <3>1, <3>2, <3>3, <3>4, <3>5
  <2> QED
    BY <2>2, <2>3
<1> QED
  BY <1>2, <1>3, <1>4 DEF BufferMoves

\* A flush that begins takes the head; one that goes on keeps what was it.
LEMMA TaskInvKept ==
    ASSUME IInv, NEW t \in Tasks, Moves(t), BufferMoves(t), NEW u \in Tasks
    PROVE  TaskInv(u)'
<1>1. Done \subseteq Done'
  BY DoneEffect
<1>2. \A x \in Done : HeadOrGone(x) => HeadOrGone(x)'
  BY BufferEffect
<1>3. TaskInv(u)
  BY DEF IInv
<1>4. CASE stage'[u] = stage[u] /\ item'[u] = item[u] /\ flushing'[u] = flushing[u]
  <2>1. ASSUME NEW x \in Done, HeadOrGone(x), item[u] = x PROVE HeadOrGone(item[u])'
    BY <1>2, <1>4, <2>1 DEF HeadOrGone
  <2> QED
    BY <1>1, <1>3, <1>4, <2>1 DEF TaskInv
<1>5. CASE u = t /\ stage[t] \in Busy /\ item'[t] = item[t] /\ flushing'[t] = flushing[t]
  <2>1. ASSUME NEW x \in Done, HeadOrGone(x), item[u] = x PROVE HeadOrGone(item[u])'
    BY <1>2, <1>5, <2>1 DEF HeadOrGone
  <2> QED
    BY <1>1, <1>3, <1>5, <2>1 DEF TaskInv
<1>6. CASE u = t /\ flushing'[t] /\ buffer' # <<>> /\ item'[t] = Head(buffer')
  <2>1. Range(buffer') \subseteq Done' /\ buffer' \in Seq(Events)
    BY BufferEffect DEF BufferedOnce
  <2>2. Head(buffer') \in Range(buffer')
    BY <1>6, <2>1, TailRange
  <2> QED
    BY <1>6, <2>1, <2>2 DEF TaskInv, HeadOrGone
<1> QED
  BY <1>4, <1>5, <1>6 DEF Moves, TaskInv, Busy

\* Whoever leaves the honeypot's hands is paid for.
LEMMA PaidFor ==
    ASSUME IInv, NEW X, IsFiniteSet(X), Gone' \subseteq Gone \cup X,
           stream' \in Seq(Events), shed' \in Nat,
           Cardinality(X) + Len(stream) + shed <= Len(stream') + shed'
    PROVE  EveryLossPaid'
<1>1. /\ {Cardinality(Gone'), Cardinality(Gone), Cardinality(X)} \subseteq Nat
      /\ Cardinality(Gone') <= Cardinality(Gone) + Cardinality(X)
  BY Gain, GoneFinite DEF IInv
<1>2. /\ Len(stream) \in Nat /\ shed \in Nat /\ Len(stream') \in Nat
      /\ Cardinality(Gone) <= Len(stream) + shed
  BY DEF IInv, TypeOK, EveryLossPaid
<1>3. Cardinality(Gone') <= Len(stream') + shed'
  BY <1>1, <1>2
<1> QED
  BY <1>3 DEF EveryLossPaid

LEMMA OnePaidFor ==
    ASSUME IInv, NEW x, Gone' \subseteq Gone \cup {x},
           stream' \in Seq(Events), shed' \in Nat,
           1 + Len(stream) + shed <= Len(stream') + shed'
    PROVE  EveryLossPaid'
<1>1. IsFiniteSet({x}) /\ Cardinality({x}) = 1
  BY FS_Singleton
<1> QED
  BY <1>1, PaidFor

\* The XADD of an event and the popleft() after it lose one event at most.
LEMMA EveryLossPaidKept ==
    ASSUME IInv, NEW t \in Tasks, Moves(t), DataMoves(t),
           stream' \in Seq(Events), shed' \in Nat
    PROVE  EveryLossPaid'
<1> DEFINE x == item[t]
<1>1. /\ stream \in Seq(Events) /\ buffer \in Seq(Events) /\ shed \in Nat
      /\ Len(stream) \in Nat
      /\ IsInjective(buffer) /\ Range(buffer) \subseteq Done /\ MaxBuffer \in Nat \ {0}
  BY BufferAssumption DEF IInv, TypeOK, BufferedOnce
<1>2. Executed(t) => /\ Range(stream') = Range(stream) \cup {x}
                     /\ Len(stream') = Len(stream) + 1
  BY <1>1, AppendRange DEF Executed
<1>3. TaskInv(t)
  BY DEF IInv
<1>4. CASE UNCHANGED <<stream, buffer, shed>> /\ stage'[t] # "done"
  <2>1. Gone' \subseteq Gone \cup {}
    BY <1>4, DoneEffect DEF Gone
  <2> QED
    BY <1>1, <1>4, <2>1, PaidFor, FS_EmptySet
<1>5. CASE /\ stage[t] \in Busy /\ Executed(t) /\ UNCHANGED <<buffer, shed>>
           /\ stage'[t] = "done" => ~flushing[t]
  <2>1. stage'[t] = "done" => x = t
    BY <1>3, <1>5 DEF TaskInv
  <2>2. Gone' \subseteq Gone \cup {x}
    BY <1>2, <1>5, <2>1, DoneEffect DEF Gone
  <2>3. 1 + Len(stream) + shed <= Len(stream') + shed'
    BY <1>1, <1>2, <1>5
  <2> QED
    BY <2>2, <2>3, OnePaidFor
<1>6. CASE /\ stage[t] \in Busy /\ Executed(t) /\ flushing[t]
           /\ buffer # <<>> /\ buffer' = Tail(buffer) /\ shed' = shed
           /\ stage'[t] # "done"
  <2>1. x \in Done /\ HeadOrGone(x)
    BY <1>3, <1>6 DEF TaskInv
  <2>2. Range(buffer) = Range(buffer') \cup {Head(buffer)}
    BY <1>1, <1>6, TailRange
  <2>3. Gone' \subseteq Gone \cup {Head(buffer)}
    BY <1>2, <1>6, <2>1, <2>2, DoneEffect DEF Gone, HeadOrGone
  <2>4. 1 + Len(stream) + shed <= Len(stream') + shed'
    BY <1>1, <1>2, <1>6
  <2> QED
    BY <2>3, <2>4, OnePaidFor
<1>7. CASE /\ stage[t] \in Busy /\ ~flushing[t] /\ BufferOwn(t) /\ stage'[t] = "done"
           /\ stream' = stream \/ Executed(t)
  <2>1. x = t /\ t \in Events /\ t \notin Done /\ Done' = Done \cup {t}
    BY <1>3, <1>7, DoneEffect DEF TaskInv
  <2>2. CASE Len(buffer) < MaxBuffer
    <3>1. shed' = shed /\ Range(buffer') = Range(buffer) \cup {t}
      BY <1>1, <1>7, <2>2, AppendRange DEF BufferOwn
    <3>2. CASE stream' = stream
      <4>1. Gone' \subseteq Gone \cup {}
        BY <2>1, <3>1, <3>2 DEF Gone
      <4> QED
        BY <1>1, <3>1, <3>2, <4>1, PaidFor, FS_EmptySet
    <3>3. CASE Executed(t)
      <4>1. Gone' \subseteq Gone \cup {t}
        BY <1>2, <2>1, <3>1, <3>3 DEF Gone
      <4>2. 1 + Len(stream) + shed <= Len(stream') + shed'
        BY <1>1, <1>2, <3>1, <3>3
      <4> QED
        BY <4>1, <4>2, OnePaidFor
    <3> QED
      BY <1>7, <3>2, <3>3
  <2>3. CASE ~(Len(buffer) < MaxBuffer)
    <3>1. buffer # <<>>
      BY <1>1, <2>3
    <3>2. /\ shed' = shed + 1 /\ Range(buffer') = Range(Tail(buffer)) \cup {t}
          /\ Range(buffer) = Range(Tail(buffer)) \cup {Head(buffer)}
      BY <1>1, <1>7, <2>3, <3>1, AppendRange, TailRange DEF BufferOwn
    <3>3. CASE stream' = stream
      <4>1. Gone' \subseteq Gone \cup {Head(buffer)}
        BY <2>1, <3>2, <3>3 DEF Gone
      <4> QED
        BY <1>1, <3>2, <3>3, <4>1, OnePaidFor
    <3>4. CASE Executed(t)
      <4>1. Gone' \subseteq Gone \cup {Head(buffer), t}
        BY <1>2, <2>1, <3>2, <3>4 DEF Gone
      <4>2. /\ IsFiniteSet({Head(buffer), t}) /\ Cardinality({Head(buffer), t}) \in Nat
            /\ Cardinality({Head(buffer), t}) <= 2
        BY PairCardinality
      <4>3. 2 + Len(stream) + shed <= Len(stream') + shed'
        BY <1>1, <1>2, <3>2, <3>4
      <4>4. Len(stream') \in Nat
        OBVIOUS
      <4>5. ASSUME NEW n \in Nat, n <= 2 PROVE n + Len(stream) + shed <= Len(stream') + shed'
        BY <1>1, <4>3, <4>4, <4>5
      <4> QED
        BY <4>1, <4>2, <4>5, PaidFor
    <3> QED
      BY <1>7, <3>3, <3>4
  <2> QED
    BY <2>2, <2>3
<1> QED
  BY <1>4, <1>5, <1>6, <1>7 DEF DataMoves

\* One step of a task keeps the invariant.
LEMMA TaskKeepsIInv ==
    ASSUME IInv, NEW t \in Tasks, Moves(t), DataMoves(t), TaskTypes',
           UNCHANGED redisVars, mishaps' \in 0 .. MaxMishaps
    PROVE  IInv'
<1>1. TaskInv(t)
  BY DEF IInv
<1>2. stage[t] \in Busy => item[t] \in Events
  BY <1>1 DEF TaskInv, Done
<1>3. stream' \in Seq(Events)
  <2>1. stream' = stream \/ (stage[t] \in Busy /\ Executed(t))
    BY DEF DataMoves
  <2>2. stream \in Seq(Events)
    BY DEF IInv, TypeOK
  <2> QED
    BY <1>2, <2>1, <2>2 DEF Executed
<1>4. BufferMoves(t)
  BY <1>1 DEF DataMoves, BufferMoves, TaskInv, BufferOwn
<1>5. TypeOK'
  BY <1>3, <1>4, BufferEffect DEF IInv, TypeOK, TaskTypes, redisVars
<1> QED
  BY <1>3, <1>4, <1>5, BufferEffect, TaskInvKept, EveryLossPaidKept DEF IInv

-----------------------------------------------------------------------------
(* The actions.                                                            *)

\* The honeypot starts with an empty buffer.
LEMMA InitIInv == Init => IInv
<1> SUFFICES ASSUME Init PROVE IInv
  OBVIOUS
<1>1. Range(stream) = {} /\ Range(buffer) = {} /\ Done = {} /\ Len(stream) = 0
  BY DEF Init, Range, Done, Tasks
<1>2. EveryLossPaid
  BY <1>1, FS_EmptySet DEF EveryLossPaid, Gone, Init
<1>3. TypeOK
  BY BufferAssumption DEF Init, TypeOK, Stages
<1>4. BufferedOnce
  BY <1>1 DEF BufferedOnce, IsInjective, Init
<1>5. ASSUME NEW t \in Tasks PROVE TaskInv(t)
  BY <1>5 DEF TaskInv, Busy, Init
<1> QED
  BY <1>2, <1>3, <1>4, <1>5 DEF IInv

\* Redis comes and goes: only the commands in flight notice.
LEMMA RedisIInv == IInv /\ (RedisDown \/ RedisUp) => IInv'
<1> SUFFICES ASSUME IInv, RedisDown \/ RedisUp PROVE IInv'
  OBVIOUS
<1>1. UNCHANGED <<stream, handle, buffer, shed, stage, item, flushing, attempt, mishaps>>
  BY DEF RedisDown, RedisUp, taskVars
<1>2. TypeOK'
  <2>1. up \in BOOLEAN /\ outages \in 0 .. MaxOutages /\ MaxOutages \in Nat
    BY BufferAssumption DEF IInv, TypeOK
  <2>2. up' \in BOOLEAN
    BY DEF RedisDown, RedisUp
  <2>3. outages' \in 0 .. MaxOutages
    BY <2>1 DEF RedisDown, RedisUp
  <2>4. fate' \in [Tasks -> {"ok", "cut", "refused"}]
    BY DEF IInv, TypeOK, RedisDown, RedisUp, taskVars
  <2> QED
    BY <1>1, <2>2, <2>3, <2>4 DEF IInv, TypeOK
<1>3. Done' = Done /\ Gone' = Gone
  BY <1>1 DEF Done, Gone
<1>4. ASSUME NEW t \in Tasks PROVE TaskInv(t)'
  BY <1>1, <1>3 DEF IInv, TaskInv, HeadOrGone
<1> QED
  BY <1>1, <1>2, <1>3, <1>4 DEF IInv, BufferedOnce, EveryLossPaid

\* emit_event and the periodic flush start.
LEMMA StartIInv ==
    ASSUME IInv, NEW t \in Tasks,
           \/ t \in Events /\ Emit(t)
           \/ FlushTick(t)
    PROVE  IInv'
<1>1. /\ stage[t] = "idle" /\ UNCHANGED <<redisVars, stream, buffer, shed, mishaps>>
      /\ buffer \in Seq(Events) /\ handle \in BOOLEAN /\ mishaps \in 0 .. MaxMishaps
  BY DEF Emit, FlushTick, IInv, TypeOK
<1>2. TaskTypes' /\ Moves(t) /\ stage'[t] # "done"
  <2>1. CASE FlushNext(t, buffer, handle)
    BY <1>1, <2>1, FlushNextMoves
  <2>2. CASE t \in Events /\ Attempt(t, t, FALSE, 0, handle)
    <3>1. 0 \in 0 .. MaxRetries - 1
      BY BufferAssumption
    <3> QED
      BY <1>1, <2>2, <3>1, AttemptMoves DEF Moves, Busy
  <2> QED
    BY <2>1, <2>2 DEF Emit, FlushTick
<1>3. DataMoves(t)
  BY <1>1, <1>2 DEF DataMoves
<1> QED
  BY <1>1, <1>2, <1>3, TaskKeepsIInv

\* A step of publish that issues the next command.
LEMMA PublishGoesOnIInv ==
    ASSUME IInv, NEW t \in Tasks, Joined(t) \/ Wake(t)
    PROVE  IInv'
<1>1. /\ stage[t] \in Busy /\ UNCHANGED <<redisVars, stream, buffer, shed, mishaps>>
      /\ item[t] \in Tasks /\ flushing[t] \in BOOLEAN
      /\ attempt[t] \in 0 .. MaxRetries - 1 /\ mishaps \in 0 .. MaxMishaps
  BY DEF Joined, Wake, IInv, TypeOK, Busy
<1>2. TaskTypes' /\ Moves(t) /\ stage'[t] # "done"
  <2>1. CASE Escape(t, FALSE)
    BY <1>1, <2>1, EscapeMoves DEF Busy
  <2>2. ASSUME NEW h, Attempt(t, item[t], flushing[t], attempt[t], h)
        PROVE  TaskTypes' /\ Moves(t) /\ stage'[t] # "done"
    BY <1>1, <2>2, AttemptMoves DEF Moves, Busy
  <2> QED
    BY <2>1, <2>2 DEF Joined, Wake
<1>3. DataMoves(t)
  BY <1>1, <1>2 DEF DataMoves
<1> QED
  BY <1>1, <1>2, <1>3, TaskKeepsIInv

\* XADD returned: the flush pops the head, an emitter is done.
LEMMA AddedIInv ==
    ASSUME IInv, NEW t \in Tasks, Added(t)
    PROVE  IInv'
<1>1. /\ stage[t] = "adding" /\ Executed(t) /\ UNCHANGED <<redisVars, shed, mishaps>>
      /\ buffer \in Seq(Events) /\ handle \in BOOLEAN /\ mishaps \in 0 .. MaxMishaps
  BY DEF Added, IInv, TypeOK
<1>2. CASE flushing[t] /\ buffer = <<>>
  <2>1. Escape(t, handle) /\ UNCHANGED buffer
    BY <1>2 DEF Added, PopFlushed
  <2>2. TaskTypes' /\ Moves(t) /\ stage'[t] # "done"
    BY <1>1, <2>1, EscapeMoves
  <2> QED
    BY <1>1, <2>1, <2>2, TaskKeepsIInv DEF DataMoves, Busy
<1>3. CASE flushing[t] /\ buffer # <<>>
  <2>1. buffer' = Tail(buffer) /\ FlushNext(t, buffer', handle)
    BY <1>3 DEF Added, PopFlushed
  <2>2. TaskTypes' /\ Moves(t) /\ stage'[t] # "done"
    BY <1>1, <1>3, <2>1, TailRange, FlushNextMoves
  <2> QED
    BY <1>1, <1>3, <2>1, <2>2, TaskKeepsIInv DEF DataMoves, Busy
<1>4. CASE ~flushing[t]
  <2>1. Rest(t, "done") /\ UNCHANGED <<handle, buffer>>
    BY <1>4 DEF Added
  <2>2. TaskTypes' /\ Moves(t) /\ stage'[t] = "done"
    BY <1>1, <2>1, RestMoves DEF Moves, Stages
  <2> QED
    BY <1>1, <1>4, <2>1, <2>2, TaskKeepsIInv DEF DataMoves, Busy
<1> QED
  BY <1>2, <1>3, <1>4

\* The command failed: another attempt, the end of the flush, or the buffer.
LEMMA FailedIInv ==
    ASSUME IInv, NEW t \in Tasks, Failed(t)
    PROVE  IInv'
<1>1. /\ stage[t] \in Busy /\ stage[t] # "done" /\ UNCHANGED <<redisVars, mishaps>>
      /\ attempt[t] \in 0 .. MaxRetries - 1 /\ MaxRetries \in Nat \ {0}
      /\ mishaps \in 0 .. MaxMishaps
      /\ stream' = stream \/ Executed(t)
  BY BufferAssumption DEF Failed, InFlight, Busy, IInv, TypeOK
<1>2. CASE /\ attempt[t] < MaxRetries - 1
           /\ handle' = FALSE
           /\ stage' = [stage EXCEPT ![t] = "waiting"]
           /\ attempt' = [attempt EXCEPT ![t] = @ + 1]
           /\ fate' = [fate EXCEPT ![t] = "ok"]
           /\ UNCHANGED <<buffer, shed, item, flushing>>
  <2>1. attempt[t] + 1 \in 0 .. MaxRetries - 1
    BY <1>1, <1>2
  <2>2. TaskTypes' /\ Moves(t) /\ stage'[t] = "waiting"
    BY <1>1, <1>2, <2>1 DEF IInv, TypeOK, TaskTypes, Moves, Stages, Busy
  <2>3. DataMoves(t)
    BY <1>1, <1>2, <2>2 DEF DataMoves
  <2> QED
    BY <1>1, <2>2, <2>3, TaskKeepsIInv
<1>3. CASE EndFlush(t, FALSE) /\ UNCHANGED <<buffer, shed>>
  <2>1. TaskTypes' /\ Moves(t) /\ stage'[t] # "done"
    BY <1>1, <1>3, EndFlushMoves
  <2>2. DataMoves(t)
    BY <1>1, <1>3, <2>1 DEF DataMoves
  <2> QED
    BY <1>1, <2>1, <2>2, TaskKeepsIInv
<1>4. CASE ~flushing[t] /\ handle' = FALSE /\ BufferOwn(t) /\ Rest(t, "done")
  <2>1. TaskTypes' /\ Moves(t) /\ stage'[t] = "done"
    BY <1>1, <1>4, RestMoves DEF Moves, Stages
  <2>2. DataMoves(t)
    BY <1>1, <1>4, <2>1 DEF DataMoves
  <2> QED
    BY <1>1, <2>1, <2>2, TaskKeepsIInv
<1> QED
  BY <1>2, <1>3, <1>4 DEF Failed

\* Redis refuses the command, or the coroutine is cancelled.
LEMMA MishapIInv ==
    ASSUME IInv, NEW t \in Tasks, Refused(t) \/ (t \in Events /\ Cancel(t))
    PROVE  IInv'
<1>1. /\ stage[t] \in Busy /\ stage[t] # "done" /\ UNCHANGED <<redisVars, buffer, shed>>
      /\ handle \in BOOLEAN /\ mishaps' \in 0 .. MaxMishaps
      /\ stream' = stream \/ Executed(t)
      /\ Escape(t, handle)
  BY BufferAssumption DEF Refused, Cancel, InFlight, Busy, IInv, TypeOK
<1>2. TaskTypes' /\ Moves(t) /\ stage'[t] # "done"
  BY <1>1, EscapeMoves
<1>3. DataMoves(t)
  BY <1>1, <1>2 DEF DataMoves
<1> QED
  BY <1>1, <1>2, <1>3, TaskKeepsIInv

LEMMA NextIInv == IInv /\ [Next]_vars => IInv'
<1> SUFFICES ASSUME IInv, [Next]_vars PROVE IInv'
  OBVIOUS
<1>1. CASE RedisDown \/ RedisUp
  BY <1>1, RedisIInv
<1>2. ASSUME NEW e \in Events, Emit(e) \/ Cancel(e) PROVE IInv'
  BY <1>2, StartIInv, MishapIInv DEF Tasks
<1>3. ASSUME NEW l \in Loops, FlushTick(l) PROVE IInv'
  BY <1>3, StartIInv DEF Tasks
<1>4. ASSUME NEW t \in Tasks, TaskStep(t) \/ Refused(t) PROVE IInv'
  BY <1>4, PublishGoesOnIInv, AddedIInv, FailedIInv, MishapIInv DEF TaskStep
<1>5. CASE UNCHANGED vars
  <2>1. UNCHANGED <<stream, buffer, shed, stage, item, flushing>>
    BY <1>5 DEF vars, taskVars
  <2>2. Done' = Done /\ Gone' = Gone /\ TypeOK'
    BY <1>5, <2>1 DEF Done, Gone, IInv, TypeOK, vars, taskVars, redisVars
  <2>3. ASSUME NEW t \in Tasks PROVE TaskInv(t)'
    BY <2>1, <2>2 DEF IInv, TaskInv, HeadOrGone
  <2> QED
    BY <2>1, <2>2, <2>3 DEF IInv, BufferedOnce, EveryLossPaid
<1> QED
  BY <1>1, <1>2, <1>3, <1>4, <1>5 DEF Next

-----------------------------------------------------------------------------
(* The theorems.                                                           *)

\* The tasks publish what they should, and every loss is paid for.
THEOREM InductiveInvariant == Spec => []IInv
  BY InitIInv, NextIInv, PTL DEF Spec

\* Every variable keeps its type: the buffer holds at most MaxBuffer events,
\* and the retry counter stays below MaxRetries.
THEOREM TypeCorrect == Spec => []TypeOK
<1>1. IInv => TypeOK
  BY DEF IInv
<1> QED
  BY <1>1, InductiveInvariant, PTL

\* However many flushes overlap, and whatever Redis executes of the commands
\* it cuts, at most as many events are lost from the buffer as the stream has
\* surplus copies, plus those the full deque shed (_flush_buffer).
THEOREM LossesAreDuplicates == Spec => []LossMatchedByDuplicate
<1>1. IInv => LossMatchedByDuplicate
  <2> SUFFICES ASSUME IInv PROVE LossMatchedByDuplicate
    OBVIOUS
  <2>1. IsFiniteSet(Gone) /\ Cardinality(Gone) \in Nat
    BY GoneFinite DEF IInv
  <2>2. /\ Gone = Lost \cup Range(stream) /\ Lost \cap Range(stream) = {}
        /\ Lost \subseteq Gone /\ Range(stream) \subseteq Gone
    BY DEF Gone, Lost, Done, InStream, InBuffer
  <2>3. /\ IsFiniteSet(Lost) /\ IsFiniteSet(Range(stream))
        /\ Cardinality(Lost) \in Nat /\ Cardinality(Range(stream)) \in Nat
    BY <2>1, <2>2, FS_Subset, FS_CardinalityType
  <2>4. Cardinality(Gone) = Cardinality(Lost) + Cardinality(Range(stream)) - 0
    BY <2>2, <2>3, FS_Union, FS_EmptySet
  <2>5. /\ Len(stream) \in Nat /\ shed \in Nat
        /\ Cardinality(Gone) <= Len(stream) + shed
    BY DEF IInv, TypeOK, EveryLossPaid
  <2> QED
    BY <2>3, <2>4, <2>5 DEF LossMatchedByDuplicate, Duplicates
<1> QED
  BY <1>1, InductiveInvariant, PTL
=============================================================================
