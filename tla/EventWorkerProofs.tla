------------------------- MODULE EventWorkerProofs --------------------------
(***************************************************************************)
(* Proofs about EventWorker, for any number of workers, events, entries,   *)
(* retries and faults.                                                     *)
(*                                                                         *)
(* NoAckBeforeStore is not inductive: that an XACK only removes a stored   *)
(* event (or a dead letter) depends on what the stage of a worker says     *)
(* about the entry it is at (StageMatchesEntry), which in turn needs that  *)
(* batches consist of existing entries (BatchInLog); that a read adds the  *)
(* entries it delivers to the pending list needs that nothing beyond       *)
(* lastDelivered was handed out.                                           *)
(*                                                                         *)
(* That an event is counted at most once per delivery is about the workers *)
(* together: what was counted and what may still be counted is bounded by  *)
(* what was handed out (CountBound), which SharingInv keeps.               *)
(***************************************************************************)
EXTENDS EventWorker, FiniteSetTheorems, TLAPS

\* The inductive invariant behind the theorems below.
IInv ==
    /\ TypeOK
    /\ BatchInLog
    /\ StageMatchesEntry
    /\ PendingDelivered
    /\ NoAckBeforeStore

-----------------------------------------------------------------------------
(* Facts about the log.                                                    *)

\* Appending keeps the old entries where they are (XADD only adds).
LEMMA AppendFacts ==
    ASSUME NEW S, NEW s \in Seq(S), NEW p \in S
    PROVE  /\ Append(s, p) \in Seq(S)
           /\ Len(Append(s, p)) = Len(s) + 1
           /\ \A i \in 1 .. Len(s) : Append(s, p)[i] = s[i]
           /\ Append(s, p)[Len(s) + 1] = p
  OBVIOUS

\* The end of the batch XREADGROUP hands out lies within the log.
LEMMA BatchEndBounds ==
    ASSUME TypeOK, lastDelivered < Len(log)
    PROVE  /\ BatchEnd \in Nat
           /\ lastDelivered < BatchEnd
           /\ BatchEnd <= Len(log)
  BY WorkerAssumption DEF TypeOK, BatchEnd

LEMMA InitIInv == Init => IInv
<1> SUFFICES ASSUME Init PROVE IInv
  OBVIOUS
<1> USE DEF Init
<1>1. Len(log) = 0
  OBVIOUS
<1>2. TypeOK
  <2>1. log \in Seq(Events \cup {Malformed})
    OBVIOUS
  <2>2. attempt \in [Workers -> 0 .. DbMaxRetries - 1]
    BY WorkerAssumption
  <2>3. budget \in [FaultKinds -> Nat]
    BY WorkerAssumption
  <2>4. counted \in [Entries -> Nat]
    OBVIOUS
  <2>5. pending \in [Workers -> SUBSET (1 .. Len(log))]
    OBVIOUS
  <2>6. /\ groupExists \in BOOLEAN
        /\ running \in [Workers -> BOOLEAN]
        /\ connected \in [Workers -> BOOLEAN]
    OBVIOUS
  <2>7. pc \in [Workers -> Stages]
    BY DEF Stages
  <2>8. /\ Len(log) <= MaxEntries
        /\ base \in 0 .. Len(log)
        /\ lastDelivered \in base .. Len(log)
        /\ cur \in [Workers -> 1 .. Len(log) + 1]
        /\ last \in [Workers -> 0 .. Len(log)]
    BY <1>1, WorkerAssumption
  <2>9. db \subseteq Events
    OBVIOUS
  <2> QED
    BY <2>1, <2>2, <2>3, <2>4, <2>5, <2>6, <2>7, <2>8, <2>9, Zenon DEF TypeOK
<1>3. BatchInLog /\ StageMatchesEntry
  BY DEF BatchInLog, StageMatchesEntry
<1>4. PendingDelivered /\ NoAckBeforeStore
  BY DEF PendingDelivered, NoAckBeforeStore
<1> QED
  BY <1>2, <1>3, <1>4 DEF IInv

-----------------------------------------------------------------------------
(* What the Redis commands do to the stream and its group.                 *)

\* The Redis half of the inductive invariant.
StreamInv ==
    /\ log \in Seq(Events \cup {Malformed})
    /\ Len(log) <= MaxEntries
    /\ base \in 0 .. Len(log)
    /\ groupExists \in BOOLEAN
    /\ lastDelivered \in base .. Len(log)
    /\ pending \in [Workers -> SUBSET (1 .. Len(log))]
    /\ PendingDelivered

\* Every command leaves the stream well-formed.
LEMMA StreamStep ==
    ASSUME StreamInv,
           \/ UNCHANGED redisVars
           \/ EnsureGroup
           \/ \E i \in Nat : XAck(i)
           \/ \E w \in Workers : XReadGroup(w)
    PROVE  StreamInv' /\ log' = log /\ base' = base
<1>1. CASE UNCHANGED redisVars
  BY <1>1 DEF StreamInv, PendingDelivered, redisVars
<1>2. CASE EnsureGroup
  BY <1>2 DEF StreamInv, PendingDelivered, EnsureGroup
<1>3. CASE \E i \in Nat : XAck(i)
  BY <1>3 DEF StreamInv, PendingDelivered, XAck
<1>4. CASE \E w \in Workers : XReadGroup(w)
  BY <1>4, WorkerAssumption DEF StreamInv, PendingDelivered, XReadGroup, BatchEnd
<1> QED
  BY <1>1, <1>2, <1>3, <1>4

\* No command drops an event: what XACK takes off the pending list is in the
\* database (or was never an event), and what XREADGROUP hands out is pending.
LEMMA NothingDropped ==
    ASSUME StreamInv, NoAckBeforeStore, db \subseteq db',
           \/ UNCHANGED redisVars
           \/ EnsureGroup
           \/ \E i \in 1 .. Len(log) : XAck(i) /\ log[i] \in db' \cup {Malformed}
           \/ \E w \in Workers : XReadGroup(w)
    PROVE  NoAckBeforeStore'
<1> USE DEF NoAckBeforeStore, StreamInv, IsEvent, IsPending
<1>1. CASE UNCHANGED redisVars
  BY <1>1 DEF redisVars
<1>2. CASE EnsureGroup
  BY <1>2 DEF EnsureGroup
<1>3. CASE \E i \in 1 .. Len(log) : XAck(i) /\ log[i] \in db' \cup {Malformed}
  BY <1>3, WorkerAssumption DEF XAck
<1>4. CASE \E w \in Workers : XReadGroup(w)
  BY <1>4, WorkerAssumption DEF XReadGroup, BatchEnd
<1> QED
  BY <1>1, <1>2, <1>3, <1>4

-----------------------------------------------------------------------------
(* What a worker does with its batch.                                      *)

\* The worker half of the inductive invariant.
WorkerInv ==
    /\ pc \in [Workers -> Stages]
    /\ running \in [Workers -> BOOLEAN]
    /\ connected \in [Workers -> BOOLEAN]
    /\ cur \in [Workers -> 1 .. Len(log) + 1]
    /\ last \in [Workers -> 0 .. Len(log)]
    /\ attempt \in [Workers -> 0 .. DbMaxRetries - 1]
    /\ BatchInLog

\* The stages of a worker that has an entry in its hands.
Busy(w) == pc[w] \notin {"down", "read"}

LEMMA AdvanceStep ==
    ASSUME WorkerInv, log \in Seq(Events \cup {Malformed}), log' = log,
           NEW w \in Workers, Busy(w), Advance(w)
    PROVE  /\ pc' \in [Workers -> Stages]
           /\ cur' \in [Workers -> 1 .. Len(log) + 1]
           /\ last' \in [Workers -> 0 .. Len(log)]
           /\ attempt' \in [Workers -> 0 .. DbMaxRetries - 1]
           /\ BatchInLog'
           /\ pc'[w] \in {"read", "deliver"}
           /\ \A v \in Workers \ {w} :
                pc'[v] = pc[v] /\ cur'[v] = cur[v] /\ last'[v] = last[v]
<1> USE DEF WorkerInv, BatchInLog, Busy
<1>1. CASE cur[w] < last[w]
  <2>1. /\ pc' = [pc EXCEPT ![w] = "deliver"]
        /\ cur' = [cur EXCEPT ![w] = @ + 1]
        /\ attempt' = [attempt EXCEPT ![w] = 0]
        /\ last' = last
    BY <1>1 DEF Advance
  <2> QED
    BY <1>1, <2>1, WorkerAssumption DEF Stages
<1>2. CASE ~(cur[w] < last[w])
  <2>1. /\ pc' = [pc EXCEPT ![w] = "read"]
        /\ cur' = [cur EXCEPT ![w] = 1]
        /\ last' = [last EXCEPT ![w] = 0]
        /\ attempt' = [attempt EXCEPT ![w] = 0]
    BY <1>2 DEF Advance, DropBatch
  <2> QED
    BY <1>2, <2>1, WorkerAssumption DEF Stages
<1> QED
  BY <1>1, <1>2

LEMMA FailedAttemptStep ==
    ASSUME WorkerInv, log \in Seq(Events \cup {Malformed}), log' = log,
           NEW w \in Workers, Busy(w), FailedAttempt(w)
    PROVE  /\ pc' \in [Workers -> Stages]
           /\ cur' \in [Workers -> 1 .. Len(log) + 1]
           /\ last' \in [Workers -> 0 .. Len(log)]
           /\ attempt' \in [Workers -> 0 .. DbMaxRetries - 1]
           /\ BatchInLog'
           /\ \/ pc'[w] \in {"read", "deliver"}
              \/ pc'[w] = "save" /\ cur'[w] = cur[w]
           /\ \A v \in Workers \ {w} :
                pc'[v] = pc[v] /\ cur'[v] = cur[v] /\ last'[v] = last[v]
<1>1. CASE attempt[w] < DbMaxRetries - 1
  <2>1. /\ pc' = [pc EXCEPT ![w] = "save"]
        /\ attempt' = [attempt EXCEPT ![w] = @ + 1]
        /\ cur' = cur
        /\ last' = last
    BY <1>1 DEF FailedAttempt
  <2> QED
    BY <1>1, <2>1, WorkerAssumption DEF WorkerInv, BatchInLog, Busy, Stages
<1>2. CASE ~(attempt[w] < DbMaxRetries - 1)
  <2>1. Advance(w)
    BY <1>2 DEF FailedAttempt
  <2> QED
    BY <2>1, AdvanceStep
<1> QED
  BY <1>1, <1>2

\* Leaving the batch: a reconnect of consume, or the end of the process.
LEMMA LeaveStep ==
    ASSUME WorkerInv, log \in Seq(Events \cup {Malformed}), log' = log,
           NEW w \in Workers, Reconnect(w) \/ Halt(w)
    PROVE  /\ pc' \in [Workers -> Stages]
           /\ cur' \in [Workers -> 1 .. Len(log) + 1]
           /\ last' \in [Workers -> 0 .. Len(log)]
           /\ attempt' \in [Workers -> 0 .. DbMaxRetries - 1]
           /\ connected' \in [Workers -> BOOLEAN]
           /\ BatchInLog'
           /\ pc'[w] \in {"read", "down"}
           /\ \A v \in Workers \ {w} :
                pc'[v] = pc[v] /\ cur'[v] = cur[v] /\ last'[v] = last[v]
<1>1. PICK s \in {"read", "down"} :
        /\ pc' = [pc EXCEPT ![w] = s]
        /\ cur' = [cur EXCEPT ![w] = 1]
        /\ last' = [last EXCEPT ![w] = 0]
        /\ attempt' = [attempt EXCEPT ![w] = 0]
        /\ connected' = [connected EXCEPT ![w] = FALSE]
  BY DEF Reconnect, Halt, DropBatch
<1>2. connected' \in [Workers -> BOOLEAN]
  BY <1>1 DEF WorkerInv
<1> QED
  BY <1>1, <1>2, WorkerAssumption DEF WorkerInv, BatchInLog, Stages

-----------------------------------------------------------------------------
(* One step of a worker.                                                   *)

WorkerStep(w) == Progress(w) \/ ReadEmpty(w) \/ Trouble(w)

\* What any step of a worker does to the stream.
StreamEffect ==
    \/ UNCHANGED redisVars
    \/ EnsureGroup
    \/ \E i \in 1 .. Len(log) : XAck(i) /\ log[i] \in db' \cup {Malformed}
    \/ \E w \in Workers : XReadGroup(w)

LEMMA IInvParts == IInv <=> /\ StreamInv /\ WorkerInv
                            /\ StageMatchesEntry /\ NoAckBeforeStore
                            /\ counted \in [Entries -> Nat]
                            /\ db \subseteq Events
                            /\ budget \in [FaultKinds -> Nat]
  BY DEF IInv, TypeOK, StreamInv, WorkerInv

LEMMA SpendType ==
    ASSUME budget \in [FaultKinds -> Nat], NEW k \in FaultKinds, Spend(k)
    PROVE  budget' \in [FaultKinds -> Nat]
  BY DEF Spend

\* The entry a busy worker is at exists.
LEMMA CurInLog ==
    ASSUME StreamInv, WorkerInv, NEW w \in Workers, Busy(w)
    PROVE  cur[w] \in 1 .. Len(log) /\ cur[w] \in Entries
  BY WorkerAssumption DEF StreamInv, WorkerInv, BatchInLog, Busy, Entries

\* Each step issues at most one of the Redis commands above, and an XACK only
\* for a stored event or a dead letter.
LEMMA WorkerStreamEffect ==
    ASSUME IInv, NEW w \in Workers, WorkerStep(w)
    PROVE  StreamEffect /\ db \subseteq db'
<1> USE DEF StreamEffect
<1>1. CASE Start(w) \/ Connect(w) \/ ReadNoGroup(w)
  BY <1>1 DEF Start, Connect, ReadNoGroup
<1>2. CASE StartFails(w) \/ ConnectFails(w)
  BY <1>2 DEF StartFails, ConnectFails
<1>3. CASE Read(w) \/ ReadReplyLost(w)
  BY <1>3 DEF Read, ReadReplyLost
<1>4. CASE ReadEmpty(w)
  BY <1>4 DEF ReadEmpty, vars, redisVars
<1>5. CASE ReadFails(w) \/ ParseError(w) \/ TakeEvent(w) \/ LoopBreaks(w)
           \/ Classify(w) \/ ClassifyDegraded(w) \/ SaveConflict(w)
           \/ Stop(w) \/ Cancel(w) \/ Crash(w)
  BY <1>5 DEF ReadFails, ParseError, TakeEvent, LoopBreaks, Classify,
     ClassifyDegraded, SaveConflict, Stop, Cancel, Crash
<1>6. CASE Save(w) \/ SaveFails(w)
  BY <1>6 DEF Save, SaveFails
<1>7. CASE DeadLetterAck(w) \/ DeadLetterAckFails(w) \/ Ack(w) \/ AckFails(w)
  <2>1. pc[w] \in {"deadletter", "ack"} /\ db' = db
    BY <1>7 DEF DeadLetterAck, DeadLetterAckFails, Ack, AckFails
  <2>2. cur[w] \in 1 .. Len(log)
    BY <2>1, CurInLog, IInvParts DEF Busy
  <2>3. log[cur[w]] \in db \cup {Malformed}
    BY <2>1 DEF IInv, StageMatchesEntry, Payload
  <2>4. UNCHANGED redisVars \/ XAck(cur[w])
    BY <1>7 DEF DeadLetterAck, DeadLetterAckFails, Ack, AckFails
  <2> QED
    BY <2>1, <2>2, <2>3, <2>4
<1> QED
  BY <1>1, <1>2, <1>3, <1>4, <1>5, <1>6, <1>7 DEF WorkerStep, Progress, Trouble

\* The rows, the counts and the budget keep their types.
LEMMA WorkerDataTypes ==
    ASSUME IInv, NEW w \in Workers, WorkerStep(w)
    PROVE  /\ counted' \in [Entries -> Nat]
           /\ db' \subseteq Events
           /\ budget' \in [FaultKinds -> Nat]
<1>1. \/ UNCHANGED budget
      \/ \E k \in FaultKinds : Spend(k)
  <2>1. \A k : k \in {"db", "dbLost", "redis", "redisLost", "crash", "stop"}
                 => k \in FaultKinds
    BY DEF FaultKinds
  <2>2. CASE Progress(w) \/ ReadEmpty(w)
    BY <2>2 DEF Progress, Start, Connect, Read, ReadNoGroup, ParseError,
       DeadLetterAck, TakeEvent, LoopBreaks, Classify, Save, SaveConflict,
       Ack, Cancel, ReadEmpty, vars
  <2>3. CASE Trouble(w)
    BY <2>1, <2>3 DEF Trouble, StartFails, ConnectFails, ReadFails,
       ReadReplyLost, DeadLetterAckFails, ClassifyDegraded, SaveFails,
       AckFails, Stop, Crash
  <2> QED
    BY <2>2, <2>3 DEF WorkerStep
<1>2. budget' \in [FaultKinds -> Nat]
  BY <1>1, SpendType DEF IInv, TypeOK
<1>3. \/ UNCHANGED counted
      \/ pc[w] = "classify" /\ counted' = [counted EXCEPT ![cur[w]] = @ + 1]
  BY DEF WorkerStep, Progress, Trouble, Start, Connect, Read, ReadNoGroup,
     ParseError, DeadLetterAck, TakeEvent, LoopBreaks, Classify, Save,
     SaveConflict, Ack, Cancel, ReadEmpty, vars, StartFails, ConnectFails,
     ReadFails, ReadReplyLost, DeadLetterAckFails, ClassifyDegraded, SaveFails,
     AckFails, Stop, Crash, Goto
<1>4. counted' \in [Entries -> Nat]
  BY <1>3, IInvParts, CurInLog DEF Busy
<1>5. \/ UNCHANGED db
      \/ pc[w] = "save" /\ db' = db \cup {Payload(w)}
  BY DEF WorkerStep, Progress, Trouble, Start, Connect, Read, ReadNoGroup,
     ParseError, DeadLetterAck, TakeEvent, LoopBreaks, Classify, Save,
     SaveConflict, Ack, Cancel, ReadEmpty, vars, StartFails, ConnectFails,
     ReadFails, ReadReplyLost, DeadLetterAckFails, ClassifyDegraded, SaveFails,
     AckFails, Stop, Crash, Goto
<1>6. db' \subseteq Events
  BY <1>5 DEF IInv, TypeOK, StageMatchesEntry
<1> QED
  BY <1>2, <1>4, <1>6

\* The stage condition survives for the workers that did not move, and has to
\* be shown for the one that did.
LEMMA StageStep ==
    ASSUME StageMatchesEntry, log' = log, db \subseteq db', NEW w \in Workers,
           \A v \in Workers \ {w} : pc'[v] = pc[v] /\ cur'[v] = cur[v],
           pc'[w] = "deadletter" => log[cur'[w]] = Malformed,
           pc'[w] \in {"classify", "save", "ack"} => log[cur'[w]] \in Events,
           pc'[w] = "ack" => log[cur'[w]] \in db'
    PROVE  StageMatchesEntry'
  BY DEF StageMatchesEntry, Payload

\* Moving on, retrying or leaving the batch keeps the worker half.
LEMMA MoveStep ==
    ASSUME IInv, log' = log, db \subseteq db', NEW w \in Workers,
           running' \in [Workers -> BOOLEAN],
           \/ /\ connected' \in [Workers -> BOOLEAN]
              /\ Busy(w)
              /\ \/ Advance(w)
                 \/ pc[w] \in {"save", "ack"} /\ FailedAttempt(w)
           \/ Reconnect(w) \/ Halt(w)
    PROVE  WorkerInv' /\ StageMatchesEntry'
<1>1. WorkerInv /\ StageMatchesEntry /\ log \in Seq(Events \cup {Malformed})
  BY IInvParts DEF StreamInv
<1>2. CASE Busy(w) /\ Advance(w) /\ connected' \in [Workers -> BOOLEAN]
  <2>1. WorkerInv'
    BY <1>1, <1>2, AdvanceStep DEF WorkerInv
  <2>2. StageMatchesEntry'
    BY <1>1, <1>2, AdvanceStep, StageStep
  <2> QED
    BY <2>1, <2>2
<1>3. CASE /\ Busy(w) /\ pc[w] \in {"save", "ack"} /\ FailedAttempt(w)
           /\ connected' \in [Workers -> BOOLEAN]
  <2>1. WorkerInv'
    BY <1>1, <1>3, FailedAttemptStep DEF WorkerInv
  <2>2. log[cur[w]] \in Events
    BY <1>1, <1>3 DEF StageMatchesEntry, Payload
  <2>3. StageMatchesEntry'
    BY <1>1, <1>3, <2>2, FailedAttemptStep, StageStep
  <2> QED
    BY <2>1, <2>3
<1>4. CASE Reconnect(w) \/ Halt(w)
  <2>1. WorkerInv'
    BY <1>1, <1>4, LeaveStep DEF WorkerInv
  <2>2. StageMatchesEntry'
    BY <1>1, <1>4, LeaveStep, StageStep
  <2> QED
    BY <2>1, <2>2
<1> QED
  BY <1>2, <1>3, <1>4

\* Staying with the same entry and going to another stage.
LEMMA GotoStep ==
    ASSUME IInv, log' = log, db \subseteq db', NEW w \in Workers,
           NEW s \in Stages, NEW t \in Stages, Goto(w, s, t),
           UNCHANGED <<running, connected, cur, last, attempt>>,
           Busy(w),
           t = "deadletter" => Payload(w) = Malformed,
           t \in {"classify", "save", "ack"} => Payload(w) \in Events,
           t = "ack" => Payload(w) \in db'
    PROVE  WorkerInv' /\ StageMatchesEntry'
<1>1. WorkerInv /\ StageMatchesEntry
  BY IInvParts
<1>2. WorkerInv'
  BY <1>1 DEF WorkerInv, BatchInLog, Goto, Busy
<1>3. StageMatchesEntry'
  BY <1>1, StageStep DEF Goto, WorkerInv, Payload
<1> QED
  BY <1>2, <1>3

LEMMA WorkerStage ==
    ASSUME IInv, NEW w \in Workers, WorkerStep(w)
    PROVE  WorkerInv' /\ StageMatchesEntry'
<1>1. /\ StreamInv /\ WorkerInv /\ StageMatchesEntry
      /\ log' = log /\ db \subseteq db'
      /\ running \in [Workers -> BOOLEAN] /\ connected \in [Workers -> BOOLEAN]
  <2>1. \A i \in 1 .. Len(log) : i \in Nat
    BY IInvParts DEF StreamInv
  <2> QED
    BY <2>1, IInvParts, WorkerStreamEffect, StreamStep DEF StreamEffect, WorkerInv
<1>2. \A b \in BOOLEAN : /\ [running EXCEPT ![w] = b] \in [Workers -> BOOLEAN]
                         /\ [connected EXCEPT ![w] = b] \in [Workers -> BOOLEAN]
  BY <1>1
<1>3. CASE Start(w)
  <2>1. /\ pc[w] = "down" /\ pc' = [pc EXCEPT ![w] = "read"]
        /\ cur' = cur /\ last' = last /\ attempt' = attempt
        /\ running' = [running EXCEPT ![w] = TRUE]
        /\ connected' = [connected EXCEPT ![w] = TRUE]
    BY <1>3 DEF Start, Goto
  <2>2. WorkerInv'
    <3>1. running' \in [Workers -> BOOLEAN] /\ connected' \in [Workers -> BOOLEAN]
      BY <1>2, <2>1
    <3> QED
      BY <1>1, <2>1, <3>1 DEF WorkerInv, BatchInLog, Stages
  <2>3. StageMatchesEntry'
    BY <1>1, <2>1, StageStep DEF WorkerInv
  <2> QED
    BY <2>2, <2>3
<1>4. CASE StartFails(w) \/ ReadEmpty(w) \/ ReadNoGroup(w)
  <2>1. UNCHANGED workerVars
    BY <1>4 DEF StartFails, ReadEmpty, ReadNoGroup, vars
  <2>2. WorkerInv'
    BY <1>1, <2>1 DEF WorkerInv, BatchInLog, workerVars
  <2>3. StageMatchesEntry'
    BY <1>1, <2>1 DEF StageMatchesEntry, Payload, workerVars
  <2> QED
    BY <2>2, <2>3
<1>5. CASE Connect(w) \/ Stop(w)
  <2>1. /\ UNCHANGED <<pc, cur, last, attempt>>
        /\ running' \in [Workers -> BOOLEAN]
        /\ connected' \in [Workers -> BOOLEAN]
    BY <1>1, <1>2, <1>5 DEF Connect, Stop
  <2>2. WorkerInv'
    BY <1>1, <2>1 DEF WorkerInv, BatchInLog
  <2>3. StageMatchesEntry'
    BY <1>1, <2>1 DEF StageMatchesEntry, Payload
  <2> QED
    BY <2>2, <2>3
<1>6. CASE ConnectFails(w)
  <2>1. CASE Reconnect(w)
    BY <1>1, <1>6, <2>1, MoveStep DEF ConnectFails
  <2>2. CASE /\ pc[w] = "ack" /\ FailedAttempt(w)
             /\ connected' = [connected EXCEPT ![w] = TRUE]
    BY <1>1, <1>2, <1>6, <2>2, MoveStep DEF ConnectFails, Busy
  <2> QED
    BY <1>6, <2>1, <2>2 DEF ConnectFails
<1>7. CASE Read(w)
  <2>1. /\ pc' = [pc EXCEPT ![w] = "deliver"]
        /\ cur' = [cur EXCEPT ![w] = lastDelivered + 1]
        /\ last' = [last EXCEPT ![w] = BatchEnd]
        /\ UNCHANGED <<running, connected, attempt>>
        /\ lastDelivered < Len(log)
    BY <1>7 DEF Read, Goto, XReadGroup
  <2>2. BatchEnd \in Nat /\ lastDelivered < BatchEnd /\ BatchEnd <= Len(log)
    BY <2>1, BatchEndBounds DEF IInv
  <2>3. WorkerInv'
    BY <1>1, <2>1, <2>2 DEF WorkerInv, BatchInLog, StreamInv, Stages
  <2>4. StageMatchesEntry'
    BY <1>1, <2>1, StageStep DEF WorkerInv
  <2> QED
    BY <2>3, <2>4
<1>8. CASE ReadFails(w) \/ ReadReplyLost(w) \/ DeadLetterAckFails(w)
  BY <1>1, <1>8, MoveStep DEF ReadFails, ReadReplyLost, DeadLetterAckFails
<1>9. CASE DeadLetterAck(w) \/ Ack(w)
  <2>1. Busy(w) /\ Advance(w) /\ UNCHANGED <<running, connected>>
    BY <1>9 DEF DeadLetterAck, Ack, Busy
  <2> QED
    BY <1>1, <2>1, MoveStep
<1>10. CASE SaveConflict(w) \/ SaveFails(w) \/ AckFails(w)
  <2>1. /\ pc[w] \in {"save", "ack"} /\ FailedAttempt(w)
        /\ UNCHANGED <<running, connected>>
    BY <1>10 DEF SaveConflict, SaveFails, AckFails
  <2> QED
    BY <1>1, <2>1, MoveStep DEF Busy
<1>11. CASE LoopBreaks(w) \/ Cancel(w) \/ Crash(w)
  <2>1. Halt(w) /\ running' = [running EXCEPT ![w] = FALSE]
    BY <1>11 DEF LoopBreaks, Cancel, Crash, Halt
  <2> QED
    BY <1>1, <1>2, <2>1, MoveStep
<1>12. CASE ParseError(w)
  BY <1>1, <1>12, GotoStep DEF ParseError, Goto, Busy, Stages
<1>13. CASE TakeEvent(w)
  <2>1. pc[w] = "deliver" /\ Payload(w) \in Events
    BY <1>1, <1>13, CurInLog DEF TakeEvent, Goto, Busy, Payload, StreamInv
  <2> QED
    BY <1>1, <1>13, <2>1, GotoStep DEF TakeEvent, Busy, Stages
<1>14. CASE Classify(w) \/ ClassifyDegraded(w)
  <2>1. /\ Goto(w, "classify", "save")
        /\ UNCHANGED <<running, connected, cur, last, attempt>>
    BY <1>14 DEF Classify, ClassifyDegraded
  <2>2. Payload(w) \in Events
    BY <1>1, <2>1 DEF StageMatchesEntry, Goto
  <2> QED
    BY <1>1, <2>1, <2>2, GotoStep DEF Goto, Busy, Stages
<1>15. CASE Save(w)
  <2>1. Payload(w) \in Events /\ Payload(w) \in db'
    BY <1>1, <1>15 DEF StageMatchesEntry, Save, Goto
  <2> QED
    BY <1>1, <1>15, <2>1, GotoStep DEF Save, Goto, Busy, Stages
<1> QED
  BY <1>3, <1>4, <1>5, <1>6, <1>7, <1>8, <1>9, <1>10, <1>11, <1>12, <1>13,
     <1>14, <1>15 DEF WorkerStep, Progress, Trouble

LEMMA WorkerStepIInv ==
    ASSUME IInv, NEW w \in Workers, WorkerStep(w)
    PROVE  IInv'
<1>1. StreamInv /\ NoAckBeforeStore /\ StreamEffect /\ db \subseteq db'
  BY IInvParts, WorkerStreamEffect
<1>2. \A i \in 1 .. Len(log) : i \in Nat
  BY <1>1 DEF StreamInv
<1>3. StreamInv'
  BY <1>1, <1>2, StreamStep DEF StreamEffect
<1>4. NoAckBeforeStore'
  BY <1>1, NothingDropped DEF StreamEffect
<1>5. WorkerInv' /\ StageMatchesEntry'
  BY WorkerStage
<1>6. /\ counted' \in [Entries -> Nat]
      /\ db' \subseteq Events
      /\ budget' \in [FaultKinds -> Nat]
  BY WorkerDataTypes
<1> QED
  BY <1>3, <1>4, <1>5, <1>6
  DEF IInv, TypeOK, StreamInv, WorkerInv

-----------------------------------------------------------------------------
(* One step of the environment.                                            *)

LEMMA PublishIInv ==
    ASSUME IInv, NEW p \in Events \cup {Malformed}, Publish(p)
    PROVE  IInv'
<1>1. /\ StreamInv /\ WorkerInv /\ StageMatchesEntry /\ NoAckBeforeStore
      /\ counted \in [Entries -> Nat]
      /\ db \subseteq Events
      /\ budget \in [FaultKinds -> Nat]
  BY IInvParts
<1>2. /\ log' = Append(log, p)
      /\ Len(log) < MaxEntries
      /\ UNCHANGED <<base, groupExists, lastDelivered, pending, counted, db,
                     workerVars>>
  BY DEF Publish
<1>3. /\ log' \in Seq(Events \cup {Malformed})
      /\ Len(log') = Len(log) + 1
      /\ \A i \in 1 .. Len(log) : log'[i] = log[i]
  BY <1>1, <1>2, AppendFacts DEF StreamInv
<1>4. Len(log) \in Nat
  BY <1>1 DEF StreamInv
<1>5. StreamInv'
  BY <1>1, <1>2, <1>3, <1>4, WorkerAssumption DEF StreamInv, PendingDelivered
<1>6. WorkerInv'
  BY <1>1, <1>2, <1>3, <1>4 DEF WorkerInv, BatchInLog, workerVars
<1>7. StageMatchesEntry'
  BY <1>1, <1>2, <1>3, CurInLog
  DEF StageMatchesEntry, Payload, Busy, workerVars
<1>8. NoAckBeforeStore'
  BY <1>1, <1>2, <1>3, <1>4 DEF NoAckBeforeStore, IsEvent, IsPending, StreamInv
<1>9. budget' \in [FaultKinds -> Nat]
  <2>1. "dup" \in FaultKinds /\ "junk" \in FaultKinds
    BY DEF FaultKinds
  <2> QED
    BY <1>1, <2>1, SpendType DEF Publish
<1> QED
  BY <1>1, <1>2, <1>5, <1>6, <1>7, <1>8, <1>9
  DEF IInv, TypeOK, StreamInv, WorkerInv

LEMMA PublisherConnectsIInv ==
    ASSUME IInv, PublisherConnects
    PROVE  IInv'
<1>1. /\ StreamInv /\ WorkerInv /\ StageMatchesEntry /\ NoAckBeforeStore
      /\ counted \in [Entries -> Nat]
      /\ db \subseteq Events
      /\ budget \in [FaultKinds -> Nat]
  BY IInvParts
<1>2. EnsureGroup /\ UNCHANGED <<counted, db, workerVars, budget>>
  BY DEF PublisherConnects
<1>3. StreamInv' /\ log' = log
  BY <1>1, <1>2, StreamStep
<1>4. NoAckBeforeStore'
  BY <1>1, <1>2, NothingDropped
<1>5. WorkerInv'
  BY <1>1, <1>2, <1>3 DEF WorkerInv, BatchInLog, workerVars
<1>6. StageMatchesEntry'
  BY <1>1, <1>2, <1>3 DEF StageMatchesEntry, Payload, workerVars
<1> QED
  BY <1>1, <1>2, <1>3, <1>4, <1>5, <1>6
  DEF IInv, TypeOK, StreamInv, WorkerInv

\* Losing the group releases nothing: whatever survives in the stream is ahead
\* of the group again.
LEMMA LoseGroupIInv ==
    ASSUME IInv, LoseGroup
    PROVE  IInv'
<1>1. /\ StreamInv /\ WorkerInv /\ StageMatchesEntry
      /\ counted \in [Entries -> Nat]
      /\ db \subseteq Events
      /\ budget \in [FaultKinds -> Nat]
  BY IInvParts
<1>2. /\ groupExists' = FALSE
      /\ pending' = [w \in Workers |-> {}]
      /\ base' \in {base, Len(log)}
      /\ lastDelivered' = base'
      /\ UNCHANGED <<log, counted, db, workerVars>>
      /\ Spend("lose")
  BY DEF LoseGroup
<1> DEFINE b == base'
<1>3. /\ b \in 0 .. Len(log)
      /\ b + 1 .. b = {}
      /\ lastDelivered' = b
  <2>1. base \in 0 .. Len(log) /\ Len(log) \in Nat
    BY <1>1 DEF StreamInv
  <2>2. b \in 0 .. Len(log)
    BY <1>2, <2>1
  <2> HIDE DEF b
  <2>3. b + 1 .. b = {}
    BY <2>1, <2>2
  <2> QED
    BY <1>2, <2>2, <2>3 DEF b
<1>4. StreamInv' /\ NoAckBeforeStore'
  <2>1. base' \in 0 .. Len(log') /\ lastDelivered' \in base' .. Len(log')
    BY <1>1, <1>2, <1>3 DEF StreamInv
  <2>2. PendingDelivered'
    BY <1>2 DEF PendingDelivered
  <2>3. NoAckBeforeStore'
    BY <1>3 DEF NoAckBeforeStore
  <2> QED
    BY <1>1, <1>2, <2>1, <2>2, <2>3 DEF StreamInv
<1>5. WorkerInv'
  BY <1>1, <1>2 DEF WorkerInv, BatchInLog, workerVars
<1>6. StageMatchesEntry'
  BY <1>1, <1>2 DEF StageMatchesEntry, Payload, workerVars
<1>7. budget' \in [FaultKinds -> Nat]
  BY <1>1, <1>2, SpendType DEF FaultKinds
<1> QED
  BY <1>1, <1>2, <1>4, <1>5, <1>6, <1>7
  DEF IInv, TypeOK, StreamInv, WorkerInv

LEMMA NextIInv == IInv /\ [Next]_vars => IInv'
<1> SUFFICES ASSUME IInv, [Next]_vars PROVE IInv'
  OBVIOUS
<1>1. ASSUME NEW w \in Workers, Progress(w) \/ ReadEmpty(w) \/ Trouble(w)
      PROVE  IInv'
  BY <1>1, WorkerStepIInv DEF WorkerStep
<1>2. ASSUME NEW p \in Events \cup {Malformed}, Publish(p) PROVE IInv'
  BY <1>2, PublishIInv
<1>3. CASE PublisherConnects
  BY <1>3, PublisherConnectsIInv
<1>4. CASE LoseGroup
  BY <1>4, LoseGroupIInv
<1>5. CASE UNCHANGED vars
  BY <1>5 DEF vars, redisVars, workerVars, IInv, TypeOK, BatchInLog,
     StageMatchesEntry, Payload, PendingDelivered, NoAckBeforeStore, IsEvent,
     IsPending
<1> QED
  BY <1>1, <1>2, <1>3, <1>4, <1>5 DEF Next, Environment

-----------------------------------------------------------------------------
(* The theorems.                                                           *)

\* The facts about stages, batches and the log hold in every state.
THEOREM InductiveInvariant == Spec => []IInv
  BY InitIInv, NextIInv, PTL DEF Spec

\* Type correctness of the workers, the stream and the table: in particular a
\* batch stays inside the stream and an attempt counter below DbMaxRetries.
THEOREM TypeCorrect == Spec => []TypeOK
<1>1. IInv => TypeOK
  BY DEF IInv
<1> QED
  BY <1>1, InductiveInvariant, PTL

\* However many workers, entries, retries and faults: an event the consumer
\* group handed out is in the database or still un-ACKed (_process_event ACKs
\* only after the commit, and the group is re-created at the beginning).
THEOREM NothingAckedUnstored == Spec => []NoAckBeforeStore
<1>1. IInv => NoAckBeforeStore
  BY DEF IInv
<1> QED
  BY <1>1, InductiveInvariant, PTL

-----------------------------------------------------------------------------
(* One worker per entry, one count per delivery.                           *)

\* The entries worker w has in memory and has not counted yet.
ToCount(w) ==
    IF pc[w] \in {"down", "read"} THEN {}
    ELSE IF pc[w] \in {"deliver", "classify"} THEN cur[w] .. last[w]
    ELSE cur[w] + 1 .. last[w]

\* The workers that may still count entry i.
Counting(i) == {w \in Workers : i \in ToCount(w)}

\* The deliveries of entry i so far: one for each lost group that may have
\* handed it out, and the one of the present group.
Deliveries(i) == Losses + (IF i <= lastDelivered THEN 1 ELSE 0)

\* Whoever counted the entry and whoever will was handed it.
CountBound ==
    \A i \in Entries :
        /\ IsFiniteSet(Counting(i))
        /\ counted[i] + Cardinality(Counting(i)) <= Deliveries(i)

\* What is in memory was handed out by the present group, until it is lost.
HeldDelivered ==
    Losses = 0 => \A w \in Workers : Held(w) \subseteq 1 .. lastDelivered

SharingInv ==
    /\ budget["lose"] <= Budget["lose"]
    /\ HeldDelivered
    /\ CountBound
    /\ NoDoubleProcessing

\* What a step hands out.
Fresh == lastDelivered + 1 .. lastDelivered'

\* Worker w moves on, retries or leaves: it holds no entry that it did not hold.
LEMMA NothingGained ==
    ASSUME IInv, NEW w \in Workers, Busy(w),
           Advance(w) \/ (pc[w] \in {"save", "ack"} /\ FailedAttempt(w))
    PROVE  /\ \A v \in Workers \ {w} :
                pc'[v] = pc[v] /\ cur'[v] = cur[v] /\ last'[v] = last[v]
           /\ Held(w)' \subseteq Held(w)
           /\ pc[w] \notin {"deliver", "classify"} => ToCount(w)' \subseteq ToCount(w)
<1> USE DEF Busy, Held, ToCount
<1>1. /\ pc \in [Workers -> Stages] /\ cur[w] \in Nat /\ last[w] \in Nat
      /\ cur \in [Workers -> Nat] /\ last \in [Workers -> Nat]
  BY DEF IInv, TypeOK
<1>2. CASE Advance(w) /\ cur[w] < last[w]
  <2>1. /\ pc' = [pc EXCEPT ![w] = "deliver"]
        /\ cur' = [cur EXCEPT ![w] = @ + 1]
        /\ last' = last
    BY <1>2 DEF Advance
  <2> QED
    BY <1>1, <2>1
<1>3. CASE Advance(w) /\ ~(cur[w] < last[w])
  <2>1. /\ pc' = [pc EXCEPT ![w] = "read"]
        /\ cur' = [cur EXCEPT ![w] = 1]
        /\ last' = [last EXCEPT ![w] = 0]
    BY <1>3 DEF Advance, DropBatch
  <2> QED
    BY <1>1, <2>1
<1>4. CASE pc[w] \in {"save", "ack"} /\ FailedAttempt(w) /\ attempt[w] < DbMaxRetries - 1
  <2>1. pc' = [pc EXCEPT ![w] = "save"] /\ UNCHANGED <<cur, last>>
    BY <1>4 DEF FailedAttempt
  <2> QED
    BY <1>1, <1>4, <2>1
<1>5. CASE FailedAttempt(w) /\ ~(attempt[w] < DbMaxRetries - 1)
  BY <1>2, <1>3, <1>5 DEF FailedAttempt
<1> QED
  BY <1>2, <1>3, <1>4, <1>5

\* A worker that reconnects or halts drops its batch.
LEMMA NothingKept ==
    ASSUME IInv, NEW w \in Workers, Reconnect(w) \/ Halt(w)
    PROVE  /\ \A v \in Workers \ {w} :
                pc'[v] = pc[v] /\ cur'[v] = cur[v] /\ last'[v] = last[v]
           /\ Held(w)' = {}
           /\ ToCount(w)' = {}
<1>1. PICK s \in {"read", "down"} :
        /\ pc' = [pc EXCEPT ![w] = s]
        /\ cur' = [cur EXCEPT ![w] = 1]
        /\ last' = [last EXCEPT ![w] = 0]
  BY DEF Reconnect, Halt, DropBatch
<1> QED
  BY <1>1 DEF IInv, TypeOK, Held, ToCount

\* What a step of worker w does to the entries in memory and to the counts.
BatchEffect(w) ==
    /\ \A v \in Workers \ {w} :
          pc'[v] = pc[v] /\ cur'[v] = cur[v] /\ last'[v] = last[v]
    /\ Held(w)' \subseteq Held(w) \cup Fresh
    /\ \/ counted' = counted /\ ToCount(w)' \subseteq ToCount(w) \cup Fresh
       \/ /\ cur[w] \in ToCount(w) /\ cur[w] \in Entries
          /\ ToCount(w)' \subseteq ToCount(w) \ {cur[w]}
          /\ counted' = [counted EXCEPT ![cur[w]] = @ + 1]

LEMMA WorkerBatchEffect ==
    ASSUME IInv, NEW w \in Workers, WorkerStep(w)
    PROVE  BatchEffect(w)
<1>1. /\ pc \in [Workers -> Stages] /\ cur \in [Workers -> Nat] /\ last \in [Workers -> Nat]
      /\ lastDelivered \in Nat
  BY DEF IInv, TypeOK
<1>2. CASE /\ UNCHANGED <<pc, cur, last, counted>>
  BY <1>2 DEF BatchEffect, Held, ToCount
<1>3. CASE \/ StartFails(w) \/ ReadEmpty(w) \/ ReadNoGroup(w) \/ Connect(w) \/ Stop(w)
  BY <1>2, <1>3 DEF StartFails, ReadEmpty, ReadNoGroup, Connect, Stop, vars, workerVars
<1>4. CASE Start(w)
  <2>1. pc[w] = "down" /\ pc' = [pc EXCEPT ![w] = "read"] /\ UNCHANGED <<cur, last, counted>>
    BY <1>4 DEF Start, Goto
  <2> QED
    BY <1>1, <2>1 DEF BatchEffect, Held, ToCount
<1>5. CASE Read(w)
  <2>1. /\ pc' = [pc EXCEPT ![w] = "deliver"]
        /\ cur' = [cur EXCEPT ![w] = lastDelivered + 1]
        /\ last' = [last EXCEPT ![w] = BatchEnd]
        /\ lastDelivered' = BatchEnd
        /\ counted' = counted
    BY <1>5 DEF Read, Goto, XReadGroup
  <2> QED
    BY <1>1, <2>1 DEF BatchEffect, Held, ToCount, Fresh
<1>6. CASE /\ counted' = counted /\ Busy(w) /\ pc[w] \notin {"deliver", "classify"}
           /\ Advance(w) \/ (pc[w] \in {"save", "ack"} /\ FailedAttempt(w))
  BY <1>6, NothingGained DEF BatchEffect
<1>7. CASE DeadLetterAck(w) \/ Ack(w) \/ SaveConflict(w) \/ SaveFails(w) \/ AckFails(w)
  BY <1>6, <1>7 DEF DeadLetterAck, Ack, SaveConflict, SaveFails, AckFails, Busy
<1>8. CASE counted' = counted /\ (Reconnect(w) \/ Halt(w))
  BY <1>8, NothingKept DEF BatchEffect
<1>9. CASE \/ ReadFails(w) \/ ReadReplyLost(w) \/ DeadLetterAckFails(w)
           \/ LoopBreaks(w) \/ Cancel(w) \/ Crash(w)
  BY <1>8, <1>9 DEF ReadFails, ReadReplyLost, DeadLetterAckFails, LoopBreaks, Cancel, Crash
<1>10. CASE ConnectFails(w)
  BY <1>6, <1>8, <1>10 DEF ConnectFails, Busy
<1>11. CASE ParseError(w) \/ TakeEvent(w) \/ Save(w)
  <2>1. /\ UNCHANGED <<cur, last, counted>>
        /\ \/ pc[w] = "deliver" /\ pc' = [pc EXCEPT ![w] = "deadletter"]
           \/ pc[w] = "deliver" /\ pc' = [pc EXCEPT ![w] = "classify"]
           \/ pc[w] = "save" /\ pc' = [pc EXCEPT ![w] = "ack"]
    BY <1>11 DEF ParseError, TakeEvent, Save, Goto
  <2> QED
    BY <1>1, <2>1 DEF BatchEffect, Held, ToCount
<1>12. CASE Classify(w) \/ ClassifyDegraded(w)
  <2>1. /\ UNCHANGED <<cur, last>>
        /\ pc[w] = "classify" /\ pc' = [pc EXCEPT ![w] = "save"]
        /\ counted' = counted \/ counted' = [counted EXCEPT ![cur[w]] = @ + 1]
    BY <1>12 DEF Classify, ClassifyDegraded, Goto
  <2>2. cur[w] \in Entries /\ cur[w] <= last[w]
    BY <2>1, CurInLog, IInvParts DEF Busy, IInv, BatchInLog
  <2>3. /\ ToCount(w) = cur[w] .. last[w] /\ ToCount(w)' = cur[w] + 1 .. last[w]
        /\ Held(w)' = Held(w)
    BY <1>1, <2>1 DEF ToCount, Held
  <2>4. cur[w] \in ToCount(w) /\ ToCount(w)' \subseteq ToCount(w) \ {cur[w]}
    BY <1>1, <2>2, <2>3
  <2> QED
    BY <1>1, <2>1, <2>2, <2>3, <2>4 DEF BatchEffect
<1> QED
  BY <1>3, <1>4, <1>5, <1>7, <1>9, <1>10, <1>11, <1>12 DEF WorkerStep, Progress, Trouble

\* What a step of worker w does to the group's pending entries.
LEMMA WorkerPendingEffect ==
    ASSUME IInv, NEW w \in Workers, WorkerStep(w)
    PROVE  /\ lastDelivered <= lastDelivered'
           /\ lastDelivered' \in Nat
           /\ \A v \in Workers \ {w} : pending'[v] \subseteq pending[v]
           /\ pending'[w] \subseteq pending[w] \cup Fresh
<1>1. /\ pending \in [Workers -> SUBSET (1 .. Len(log))] /\ Len(log) \in Nat
      /\ base \in Nat /\ lastDelivered \in Nat /\ PendingDelivered
  BY DEF IInv, TypeOK
<1>2. CASE UNCHANGED redisVars
  BY <1>1, <1>2 DEF redisVars
<1>3. CASE EnsureGroup
  BY <1>1, <1>3 DEF EnsureGroup, PendingDelivered
<1>4. CASE XAck(cur[w])
  BY <1>1, <1>4 DEF XAck
<1>5. CASE XReadGroup(w)
  <2>1. /\ pending' = [pending EXCEPT ![w] = @ \cup (lastDelivered + 1 .. BatchEnd)]
        /\ lastDelivered' = BatchEnd /\ lastDelivered < Len(log)
    BY <1>5 DEF XReadGroup
  <2>2. BatchEnd \in Nat /\ lastDelivered < BatchEnd
    BY <2>1, BatchEndBounds DEF IInv
  <2> QED
    BY <1>1, <2>1, <2>2 DEF Fresh
<1>6. \/ UNCHANGED redisVars \/ EnsureGroup \/ XAck(cur[w]) \/ XReadGroup(w)
  <2>1. CASE Progress(w) \/ ReadEmpty(w)
    BY <2>1 DEF Progress, Start, Connect, Read, ReadNoGroup, ParseError, DeadLetterAck,
       TakeEvent, LoopBreaks, Classify, Save, SaveConflict, Ack, Cancel, ReadEmpty,
       vars, redisVars
  <2>2. CASE Trouble(w)
    BY <2>2 DEF Trouble, StartFails, ConnectFails, ReadFails, ReadReplyLost,
       DeadLetterAckFails, ClassifyDegraded, SaveFails, AckFails, Stop, Crash
  <2> QED
    BY <2>1, <2>2 DEF WorkerStep
<1> QED
  BY <1>2, <1>3, <1>4, <1>5, <1>6

\* Workers lose no group.
LEMMA WorkerKeepsGroup ==
    ASSUME IInv, NEW w \in Workers, WorkerStep(w)
    PROVE  budget'["lose"] = budget["lose"]
<1>1. budget \in [FaultKinds -> Nat] /\ "lose" \in FaultKinds
  BY DEF IInv, TypeOK, FaultKinds
<1>2. ASSUME NEW k \in {"db", "dbLost", "redis", "redisLost", "crash", "stop"}, Spend(k)
      PROVE  budget'["lose"] = budget["lose"]
  BY <1>1, <1>2 DEF Spend
<1>3. CASE Progress(w) \/ ReadEmpty(w)
  BY <1>3 DEF Progress, Start, Connect, Read, ReadNoGroup, ParseError, DeadLetterAck,
     TakeEvent, LoopBreaks, Classify, Save, SaveConflict, Ack, Cancel, ReadEmpty, vars
<1>4. CASE Trouble(w)
  BY <1>2, <1>4 DEF Trouble, StartFails, ConnectFails, ReadFails, ReadReplyLost,
     DeadLetterAckFails, ClassifyDegraded, SaveFails, AckFails, Stop, Crash
<1> QED
  BY <1>3, <1>4 DEF WorkerStep

LEMMA LossesType ==
    ASSUME IInv, budget["lose"] <= Budget["lose"]
    PROVE  Losses \in Nat
<1>1. budget \in [FaultKinds -> Nat] /\ Budget \in [FaultKinds -> Nat] /\ "lose" \in FaultKinds
  BY WorkerAssumption DEF IInv, TypeOK, FaultKinds
<1>2. budget["lose"] \in Nat /\ Budget["lose"] \in Nat
  BY <1>1
<1> QED
  BY <1>2 DEF Losses

\* A count can only come from a delivery.
LEMMA WorkerCountBound ==
    ASSUME IInv, SharingInv, NEW w \in Workers, WorkerStep(w)
    PROVE  CountBound'
<1> SUFFICES ASSUME NEW i \in Entries
             PROVE  /\ IsFiniteSet(Counting(i)')
                    /\ counted'[i] + Cardinality(Counting(i)') <= Deliveries(i)'
  BY DEF CountBound
<1>1. /\ BatchEffect(w) /\ lastDelivered <= lastDelivered' /\ lastDelivered' \in Nat
      /\ Losses' = Losses /\ Losses \in Nat
  BY WorkerBatchEffect, WorkerPendingEffect, WorkerKeepsGroup, LossesType
     DEF SharingInv, Losses
<1>2. /\ counted \in [Entries -> Nat] /\ lastDelivered \in Nat /\ i \in Nat
  BY DEF IInv, TypeOK, Entries
<1>3. IsFiniteSet(Counting(i)) /\ Cardinality(Counting(i)) \in Nat
  BY FS_CardinalityType DEF SharingInv, CountBound
<1>4. counted[i] + Cardinality(Counting(i)) <= Deliveries(i)
  BY DEF SharingInv, CountBound
<1>5. \A v \in Workers \ {w} : ToCount(v)' = ToCount(v)
  BY <1>1 DEF BatchEffect, ToCount
<1>6. ASSUME NEW T, Counting(i)' \subseteq T, IsFiniteSet(T)
      PROVE  /\ IsFiniteSet(Counting(i)') /\ Cardinality(Counting(i)') \in Nat
             /\ Cardinality(T) \in Nat
             /\ Cardinality(Counting(i)') <= Cardinality(T)
  BY <1>6, FS_Subset, FS_CardinalityType
<1>7. CASE counted' = counted /\ ToCount(w)' \subseteq ToCount(w) \cup Fresh
  <2>1. CASE i \in Fresh
    <3>1. Counting(i)' \subseteq Counting(i) \cup {w}
      BY <1>5 DEF Counting
    <3>2. /\ IsFiniteSet(Counting(i) \cup {w})
          /\ Cardinality(Counting(i) \cup {w}) <= Cardinality(Counting(i)) + 1
      BY <1>3, FS_AddElement
    <3>3. Deliveries(i)' = Deliveries(i) + 1
      BY <1>1, <1>2, <2>1 DEF Deliveries, Fresh
    <3>4. Deliveries(i) \in Nat
      BY <1>1 DEF Deliveries
    <3> QED
      BY <1>2, <1>3, <1>4, <1>6, <1>7, <3>1, <3>2, <3>3, <3>4
  <2>2. CASE i \notin Fresh
    <3>1. Counting(i)' \subseteq Counting(i)
      BY <1>5, <1>7, <2>2 DEF Counting
    <3>2. Deliveries(i)' >= Deliveries(i) /\ Deliveries(i)' \in Nat /\ Deliveries(i) \in Nat
      BY <1>1, <1>2 DEF Deliveries
    <3> QED
      BY <1>2, <1>3, <1>4, <1>6, <1>7, <3>1, <3>2
  <2> QED
    BY <2>1, <2>2
<1>8. CASE /\ cur[w] \in ToCount(w) /\ cur[w] \in Entries
           /\ ToCount(w)' \subseteq ToCount(w) \ {cur[w]}
           /\ counted' = [counted EXCEPT ![cur[w]] = @ + 1]
  <2>1. Deliveries(i)' >= Deliveries(i) /\ Deliveries(i)' \in Nat /\ Deliveries(i) \in Nat
    BY <1>1, <1>2 DEF Deliveries
  <2>2. CASE i = cur[w]
    <3>1. w \in Counting(i) /\ Counting(i)' \subseteq Counting(i) \ {w}
      BY <1>5, <1>8, <2>2 DEF Counting
    <3>2. /\ IsFiniteSet(Counting(i) \ {w})
          /\ Cardinality(Counting(i) \ {w}) = Cardinality(Counting(i)) - 1
      BY <1>3, <3>1, FS_RemoveElement
    <3>3. counted'[i] = counted[i] + 1
      BY <1>2, <1>8, <2>2
    <3> QED
      BY <1>2, <1>3, <1>4, <1>6, <2>1, <3>1, <3>2, <3>3
  <2>3. CASE i # cur[w]
    <3>1. Counting(i)' \subseteq Counting(i)
      BY <1>5, <1>8 DEF Counting
    <3>2. counted'[i] = counted[i]
      BY <1>2, <1>8, <2>3
    <3> QED
      BY <1>2, <1>3, <1>4, <1>6, <2>1, <3>1, <3>2
  <2> QED
    BY <2>2, <2>3
<1> QED
  BY <1>1, <1>7, <1>8 DEF BatchEffect

\* A read hands out what nobody holds and what is pending for nobody.
LEMMA WorkerNoDoubleProcessing ==
    ASSUME IInv, SharingInv, NEW w \in Workers, WorkerStep(w)
    PROVE  HeldDelivered' /\ NoDoubleProcessing'
<1>1. /\ BatchEffect(w) /\ Losses' = Losses
      /\ lastDelivered <= lastDelivered' /\ lastDelivered' \in Nat
      /\ \A v \in Workers \ {w} : pending'[v] \subseteq pending[v]
      /\ pending'[w] \subseteq pending[w] \cup Fresh
  BY WorkerBatchEffect, WorkerPendingEffect, WorkerKeepsGroup DEF Losses
<1>2. \A v \in Workers \ {w} : Held(v)' = Held(v)
  BY <1>1 DEF BatchEffect, Held
<1>3. Held(w)' \subseteq Held(w) \cup Fresh
  BY <1>1 DEF BatchEffect
<1>4. \A v \in Workers : pending[v] \cap Fresh = {}
  BY DEF IInv, TypeOK, PendingDelivered, Fresh
<1>5. /\ lastDelivered \in Nat
      /\ Losses = 0 => \A v \in Workers : Held(v) \subseteq 1 .. lastDelivered
  BY DEF SharingInv, HeldDelivered, IInv, TypeOK
<1>6. Fresh \subseteq 1 .. lastDelivered' /\ 1 .. lastDelivered \subseteq 1 .. lastDelivered'
      /\ (1 .. lastDelivered) \cap Fresh = {}
  BY <1>1, <1>5 DEF Fresh
<1>7. HeldDelivered'
  BY <1>1, <1>2, <1>3, <1>5, <1>6 DEF HeldDelivered
<1>8. ASSUME Losses' = 0, NEW u \in Workers, NEW v \in Workers, u # v
      PROVE  /\ Held(u)' \cap Held(v)' = {}
             /\ pending'[u] \cap pending'[v] = {}
             /\ Held(u)' \cap pending'[v] = {}
  <2>1. /\ Held(u) \cap Held(v) = {} /\ pending[u] \cap pending[v] = {}
        /\ Held(u) \cap pending[v] = {}
        /\ Held(u) \cap Fresh = {} /\ Held(v) \cap Fresh = {}
    BY <1>1, <1>5, <1>6, <1>8 DEF SharingInv, NoDoubleProcessing
  <2> HIDE DEF Held, Fresh
  <2>2. CASE u = w
    BY <1>1, <1>2, <1>3, <1>4, <1>8, <2>1, <2>2
  <2>3. CASE v = w
    BY <1>1, <1>2, <1>3, <1>4, <1>8, <2>1, <2>3
  <2>4. CASE u # w /\ v # w
    BY <1>1, <1>2, <2>1, <2>4
  <2> QED
    BY <2>2, <2>3, <2>4
<1> QED
  BY <1>7, <1>8 DEF NoDoubleProcessing

LEMMA InitSharing == Init => SharingInv
<1> SUFFICES ASSUME Init PROVE SharingInv
  OBVIOUS
<1>1. /\ budget["lose"] = Budget["lose"] /\ Budget["lose"] \in Nat
      /\ \A w \in Workers : pc[w] = "down" /\ pending[w] = {}
      /\ \A i \in Entries : counted[i] = 0
  BY WorkerAssumption DEF Init, FaultKinds
<1>2. \A i \in Entries : Counting(i) = {}
  BY <1>1 DEF Counting, ToCount
<1>3. CountBound
  <2> SUFFICES ASSUME NEW i \in Entries
               PROVE  /\ IsFiniteSet(Counting(i))
                      /\ counted[i] + Cardinality(Counting(i)) <= Deliveries(i)
    BY DEF CountBound
  <2>1. IsFiniteSet(Counting(i)) /\ Cardinality(Counting(i)) = 0
    BY <1>2, FS_EmptySet
  <2>2. Deliveries(i) \in Nat
    BY <1>1 DEF Deliveries, Losses
  <2> QED
    BY <1>1, <2>1, <2>2
<1>4. HeldDelivered /\ NoDoubleProcessing
  BY <1>1 DEF HeldDelivered, NoDoubleProcessing, Held
<1> QED
  BY <1>1, <1>3, <1>4 DEF SharingInv

\* The environment hands out nothing and takes nothing from a worker.
LEMMA EnvironmentSharing ==
    ASSUME IInv, SharingInv, Environment
    PROVE  SharingInv'
<1>1. /\ budget \in [FaultKinds -> Nat] /\ lastDelivered \in Nat /\ Losses \in Nat
      /\ {"lose", "dup", "junk"} \subseteq FaultKinds
      /\ counted \in [Entries -> Nat] /\ Budget["lose"] \in Nat
  <2>1. budget \in [FaultKinds -> Nat] /\ lastDelivered \in Nat /\ counted \in [Entries -> Nat]
    BY DEF IInv, TypeOK
  <2>2. {"lose", "dup", "junk"} \subseteq FaultKinds /\ Budget \in [FaultKinds -> Nat]
    BY WorkerAssumption DEF FaultKinds
  <2>3. Losses \in Nat
    BY LossesType DEF SharingInv
  <2> QED
    BY <2>1, <2>2, <2>3
<1>2. UNCHANGED <<pc, cur, last, counted>>
  BY DEF Environment, Publish, PublisherConnects, LoseGroup, workerVars
<1>3. /\ \A w \in Workers : Held(w)' = Held(w)
      /\ \A i : Counting(i)' = Counting(i)
  BY <1>2 DEF Held, Counting, ToCount
<1>4. CASE UNCHANGED <<lastDelivered, pending>> /\ budget'["lose"] = budget["lose"]
  <2>1. Losses' = Losses /\ \A i : Deliveries(i)' = Deliveries(i)
    BY <1>4 DEF Losses, Deliveries
  <2> QED
    BY <1>2, <1>3, <1>4, <2>1
       DEF SharingInv, HeldDelivered, CountBound, NoDoubleProcessing
<1>5. CASE \E p \in Events \cup {Malformed} : Publish(p)
  <2>1. budget'["lose"] = budget["lose"]
    BY <1>1, <1>5 DEF Publish, Spend
  <2> QED
    BY <1>4, <1>5, <2>1 DEF Publish
<1>6. CASE PublisherConnects
  <2>1. lastDelivered' = lastDelivered
    BY <1>6 DEF PublisherConnects, EnsureGroup, IInv, PendingDelivered
  <2> QED
    BY <1>4, <1>6, <2>1 DEF PublisherConnects, EnsureGroup
<1>7. CASE LoseGroup
  <2>1. budget["lose"] > 0 /\ budget'["lose"] = budget["lose"] - 1
    BY <1>1, <1>7 DEF LoseGroup, Spend
  <2>2. Losses' = Losses + 1 /\ Losses' # 0 /\ budget'["lose"] <= Budget["lose"]
    BY <1>1, <2>1 DEF Losses, SharingInv
  <2>3. CountBound'
    <3> SUFFICES ASSUME NEW i \in Entries
                 PROVE  /\ IsFiniteSet(Counting(i)')
                        /\ counted'[i] + Cardinality(Counting(i)') <= Deliveries(i)'
      BY DEF CountBound
    <3>1. /\ IsFiniteSet(Counting(i)) /\ Cardinality(Counting(i)) \in Nat
          /\ counted[i] + Cardinality(Counting(i)) <= Deliveries(i)
      BY FS_CardinalityType DEF SharingInv, CountBound
    <3>2. Deliveries(i) \in Nat /\ Deliveries(i)' \in Nat /\ Deliveries(i) <= Deliveries(i)'
      BY <1>1, <2>2 DEF Deliveries
    <3> QED
      BY <1>1, <1>2, <1>3, <3>1, <3>2
  <2> QED
    BY <2>2, <2>3 DEF SharingInv, HeldDelivered, NoDoubleProcessing
<1> QED
  BY <1>5, <1>6, <1>7 DEF Environment

\* What is counted and may still be counted stays within what was handed out.
THEOREM SharingInvariant == Spec => []SharingInv
<1>1. IInv /\ SharingInv /\ [Next]_vars => SharingInv'
  <2> SUFFICES ASSUME IInv, SharingInv, [Next]_vars PROVE SharingInv'
    OBVIOUS
  <2>1. ASSUME NEW w \in Workers, Progress(w) \/ ReadEmpty(w) \/ Trouble(w)
        PROVE  SharingInv'
    BY <2>1, WorkerCountBound, WorkerNoDoubleProcessing, WorkerKeepsGroup
       DEF WorkerStep, SharingInv
  <2>2. CASE Environment
    BY <2>2, EnvironmentSharing
  <2>3. CASE UNCHANGED vars
    <3>1. /\ UNCHANGED <<pc, cur, last, counted, pending, lastDelivered, budget>>
      BY <2>3 DEF vars, redisVars, workerVars
    <3>2. /\ Losses' = Losses
          /\ \A w : Held(w)' = Held(w)
          /\ \A i : Counting(i)' = Counting(i) /\ Deliveries(i)' = Deliveries(i)
      BY <3>1 DEF Losses, Held, Counting, ToCount, Deliveries
    <3> QED
      BY <3>1, <3>2 DEF SharingInv, HeldDelivered, CountBound, NoDoubleProcessing
  <2> QED
    BY <2>1, <2>2, <2>3 DEF Next
<1> QED
  BY <1>1, InitSharing, InductiveInvariant, PTL DEF Spec

\* For any number of workers and any faults, two workers never have the same
\* entry in memory or pending while the group exists (XREADGROUP gives every
\* entry to one consumer).
THEOREM NothingProcessedTwice == Spec => []NoDoubleProcessing
<1>1. SharingInv => NoDoubleProcessing
  BY DEF SharingInv
<1> QED
  BY <1>1, SharingInvariant, PTL

\* However often the save and the ACK of an event are retried, the IP context
\* counts it once per delivery, and the group delivers it once until it is lost
\* (_process_event classifies outside of its retry loop).
THEOREM CountedOnce == Spec => []CountedOncePerDelivery
<1>1. IInv /\ SharingInv => CountedOncePerDelivery
  <2> SUFFICES ASSUME IInv, SharingInv, NEW i \in Entries PROVE counted[i] <= 1 + Losses
    BY DEF CountedOncePerDelivery
  <2>1. /\ Cardinality(Counting(i)) \in Nat
        /\ counted[i] + Cardinality(Counting(i)) <= Deliveries(i)
    BY FS_CardinalityType DEF SharingInv, CountBound
  <2>2. counted[i] \in Nat /\ Losses \in Nat /\ Deliveries(i) <= 1 + Losses /\ Deliveries(i) \in Nat
    BY LossesType DEF IInv, TypeOK, SharingInv, Deliveries
  <2> QED
    BY <2>1, <2>2
<1> QED
  BY <1>1, InductiveInvariant, SharingInvariant, PTL

-----------------------------------------------------------------------------
(* The workers implement EventStore.                                       *)

\* Creating the group and reading from it change nothing in what is owed.
LEMMA OwedKept ==
    ASSUME StreamInv,
           \/ UNCHANGED redisVars
           \/ EnsureGroup
           \/ \E w \in Workers : XReadGroup(w)
    PROVE  Owed' = Owed
<1> USE DEF StreamInv, Owed, IsPending
<1>1. CASE UNCHANGED redisVars
  BY <1>1 DEF redisVars
<1>2. CASE EnsureGroup
  <2>1. lastDelivered' = lastDelivered /\ UNCHANGED <<log, base, pending>>
    BY <1>2 DEF EnsureGroup, PendingDelivered
  <2> QED
    BY <2>1
<1>3. CASE \E w \in Workers : XReadGroup(w)
  <2>1. PICK w \in Workers : XReadGroup(w)
    BY <1>3
  <2>2. /\ lastDelivered' = BatchEnd
        /\ UNCHANGED <<log, base>>
        /\ BatchEnd \in Nat /\ lastDelivered < BatchEnd /\ BatchEnd <= Len(log)
    BY <2>1, WorkerAssumption DEF XReadGroup, BatchEnd
  <2>3. \A i : IsPending(i)' <=> IsPending(i) \/ i \in lastDelivered + 1 .. BatchEnd
    BY <2>1 DEF XReadGroup
  <2> QED
    BY <2>2, <2>3
<1> QED
  BY <1>1, <1>2, <1>3

\* An XACK releases at most the entry it names.
LEMMA OwedAck ==
    ASSUME StreamInv, NEW i \in 1 .. Len(log), XAck(i)
    PROVE  Owed' = Owed \/ (i \in Owed /\ Owed' = Owed \ {i})
<1>1. /\ UNCHANGED <<log, base, lastDelivered>>
      /\ \A j : IsPending(j)' <=> IsPending(j) /\ j # i
  BY DEF XAck, StreamInv, IsPending
<1>2. CASE i \in Owed /\ i <= lastDelivered
  BY <1>1, <1>2 DEF Owed, StreamInv
<1>3. CASE i \notin Owed \/ i > lastDelivered
  BY <1>1, <1>3 DEF Owed, StreamInv
<1> QED
  BY <1>2, <1>3 DEF StreamInv

\* The database only changes in a save, which leaves Redis alone.
LEMMA SaveEffect ==
    ASSUME IInv, NEW w \in Workers, WorkerStep(w)
    PROVE  \/ UNCHANGED db
           \/ /\ UNCHANGED redisVars
              /\ Payload(w) \in Events
              /\ cur[w] \in 1 .. Len(log)
              /\ db' = db \cup {Payload(w)}
<1>1. CASE Save(w) \/ SaveFails(w)
  <2>1. pc[w] = "save" /\ UNCHANGED redisVars
    BY <1>1 DEF Save, SaveFails, Goto
  <2>2. UNCHANGED db \/ db' = db \cup {Payload(w)}
    BY <1>1 DEF Save, SaveFails
  <2> QED
    BY <2>1, <2>2, IInvParts, CurInLog DEF Busy, StageMatchesEntry
<1>2. CASE ~(Save(w) \/ SaveFails(w))
  BY <1>2 DEF WorkerStep, Progress, Trouble, Start, Connect, Read, ReadNoGroup,
     ParseError, DeadLetterAck, TakeEvent, LoopBreaks, Classify,
     SaveConflict, Ack, Cancel, ReadEmpty, vars, StartFails, ConnectFails,
     ReadFails, ReadReplyLost, DeadLetterAckFails, ClassifyDegraded,
     AckFails, Stop, Crash
<1> QED
  BY <1>1, <1>2

LEMMA WorkerRefines ==
    ASSUME IInv, NEW w \in Workers, WorkerStep(w)
    PROVE  Store!Next \/ UNCHANGED Store!vars
<1>1. StreamInv /\ StreamEffect
  BY IInvParts, WorkerStreamEffect
<1>2. \A i \in 1 .. Len(log) : i \in Nat
  BY <1>1 DEF StreamInv
<1>3. log' = log /\ base' = base
  BY <1>1, <1>2, StreamStep DEF StreamEffect
<1>4. CASE db' # db
  <2>1. /\ UNCHANGED redisVars
        /\ Payload(w) \in Events
        /\ cur[w] \in 1 .. Len(log)
        /\ db' = db \cup {Payload(w)}
    BY <1>4, SaveEffect
  <2>2. Owed' = Owed
    BY <1>1, <2>1, OwedKept
  <2>3. Store!Store(Payload(w))
    BY <1>3, <1>4, <2>1, <2>2 DEF Store!Store, Payload
  <2> QED
    BY <2>1, <2>3 DEF Store!Next
<1>5. CASE db' = db
  <2>1. CASE Owed' = Owed
    BY <1>3, <1>5, <2>1 DEF Store!vars
  <2>2. CASE Owed' # Owed
    <3>1. PICK i \in 1 .. Len(log) : XAck(i) /\ log[i] \in db' \cup {Malformed}
      BY <1>1, <2>2, OwedKept DEF StreamEffect
    <3>2. i \in Owed /\ Owed' = Owed \ {i}
      BY <1>1, <2>2, <3>1, OwedAck
    <3>3. Store!Settle(i)
      BY <1>3, <1>5, <3>1, <3>2 DEF Store!Settle
    <3> QED
      BY <3>2, <3>3 DEF Store!Next
  <2> QED
    BY <2>1, <2>2
<1> QED
  BY <1>4, <1>5

LEMMA EnvironmentRefines ==
    ASSUME IInv, Environment
    PROVE  Store!Next \/ UNCHANGED Store!vars
<1>1. StreamInv
  BY IInvParts
<1>2. CASE \E p \in Events \cup {Malformed} : Publish(p)
  <2>1. PICK p \in Events \cup {Malformed} : Publish(p)
    BY <1>2
  <2>2. /\ log' = Append(log, p) /\ Len(log') = Len(log) + 1
        /\ UNCHANGED <<base, lastDelivered, pending, db>>
    BY <1>1, <2>1, AppendFacts DEF Publish, StreamInv
  <2>3. Owed' = Owed \cup {Len(log) + 1}
    BY <1>1, <2>2 DEF Owed, IsPending, StreamInv
  <2>4. Store!Accept(p)
    BY <2>2, <2>3 DEF Store!Accept
  <2> QED
    BY <2>4 DEF Store!Next
<1>3. CASE PublisherConnects
  <2>1. Owed' = Owed /\ UNCHANGED <<log, base, db>>
    BY <1>1, <1>3, OwedKept DEF PublisherConnects, EnsureGroup
  <2> QED
    BY <2>1 DEF Store!vars
<1>4. CASE LoseGroup
  <2>1. /\ base' = base \/ base' = Len(log)
        /\ lastDelivered' = base'
        /\ UNCHANGED <<log, db>>
    BY <1>4 DEF LoseGroup
  <2>2. CASE base' = base
    <3>1. Owed' = base + 1 .. Len(log)
      BY <1>1, <2>1, <2>2 DEF Owed, StreamInv
    <3>2. Store!Reissue
      BY <2>1, <2>2, <3>1 DEF Store!Reissue
    <3> QED
      BY <3>2 DEF Store!Next
  <2>3. CASE base' = Len(log)
    <3>1. Owed' = {}
      BY <1>1, <2>1, <2>3 DEF Owed, StreamInv
    <3>2. CASE base < Len(log)
      <4>1. Store!Forget
        BY <2>1, <2>3, <3>1, <3>2 DEF Store!Forget
      <4> QED
        BY <4>1 DEF Store!Next
    <3>3. CASE ~(base < Len(log))
      <4>1. base = Len(log) /\ Owed = {}
        BY <1>1, <3>3 DEF Owed, StreamInv
      <4> QED
        BY <2>1, <2>3, <3>1, <4>1 DEF Store!vars
    <3> QED
      BY <3>2, <3>3
  <2> QED
    BY <2>1, <2>2, <2>3
<1> QED
  BY <1>2, <1>3, <1>4 DEF Environment

\* The consumer group, the batches and the retries implement the promise that
\* an accepted entry is answered for until its event is in the database, the
\* entry turns out not to be an event, or the stream itself is lost.
THEOREM ImplementsEventStore == Spec => StoreSpec
<1>1. Init => Store!Init
  <2>1. ASSUME Init PROVE Owed = {}
    BY <2>1 DEF Init, Owed
  <2> QED
    BY <2>1 DEF Init, Store!Init
<1>2. IInv /\ [Next]_vars => [Store!Next]_(Store!vars)
  <2> SUFFICES ASSUME IInv, [Next]_vars PROVE Store!Next \/ UNCHANGED Store!vars
    OBVIOUS
  <2>1. ASSUME NEW w \in Workers, Progress(w) \/ ReadEmpty(w) \/ Trouble(w)
        PROVE  Store!Next \/ UNCHANGED Store!vars
    BY <2>1, WorkerRefines DEF WorkerStep
  <2>2. CASE Environment
    BY <2>2, EnvironmentRefines
  <2>3. CASE UNCHANGED vars
    <3>1. Owed' = Owed /\ UNCHANGED <<log, base, db>>
      BY <2>3, OwedKept, IInvParts DEF vars, redisVars
    <3> QED
      BY <3>1 DEF Store!vars
  <2> QED
    BY <2>1, <2>2, <2>3 DEF Next
<1> QED
  BY <1>1, <1>2, InductiveInvariant, PTL DEF Spec, StoreSpec, Store!Spec

=============================================================================
