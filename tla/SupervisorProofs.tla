-------------------------- MODULE SupervisorProofs ---------------------------
(***************************************************************************)
(* Proofs about Supervisor, for every number of consecutive crashes.       *)
(*                                                                         *)
(* QuietWhenClosed is not inductive: it looks at a honeypot when its task  *)
(* is over, and how many flush loops are left then depends on how often    *)
(* start() ran (LoopsBounded), whether the server is still open on which   *)
(* await the task was at (OpenServer), and that there is no other way to   *)
(* the end on when a cancellation can be pending (CancelledTask).          *)
(***************************************************************************)
EXTENDS Supervisor, TLAPS

\* A start adds at most one loop to those that earlier crashes left behind,
\* and stop() takes one away again.
LoopsBounded(h) ==
    /\ leaked[h] <= crashes[h]
    /\ task[h] \in {"none", "new", "delay", "closing", "done", "escaped"}
           => Loops(h) <= crashes[h]

\* A honeypot that may still be started has starts left.
StartsLeft(h) ==
    task[h] \in {"none", "new", "delay", "starting", "serving"}
        => crashes[h] < MaxCrashes

\* Only a task that is serving, or is about to close, has an open server,
\* unless a dead flush loop kept stop() from closing it.
OpenServer(h) ==
    /\ flush[h] = "dead" => died[h]
    /\ listening[h] => \/ task[h] \in {"serving", "stopping"}
                       \/ task[h] = "done" /\ died[h] /\ flush[h] = "dead"

\* A cancellation is pending only during the shutdown, at an await.
CancelledTask(h) ==
    cancelled[h] => /\ manager = "gathering"
                    /\ task[h] \in {"new", "delay", "starting", "serving",
                                    "stopping", "closing"}

\* The tasks begin once the queue is connected, and the manager waits for them
\* before it closes the queue.
TasksOfManager(h) ==
    /\ manager = "connecting" => task[h] = "none"
    /\ manager = "running" => task[h] # "none"
    /\ manager = "closing" => task[h] \in {"done", "escaped"}

\* Without a shutdown only the last crash ends the loop of restarts.
GivenUp(h) ==
    manager = "running" /\ task[h] \in {"stopping", "closing", "done", "escaped"}
        => crashes[h] = MaxCrashes /\ ~listening[h]

HoneypotInv(h) ==
    /\ LoopsBounded(h)
    /\ StartsLeft(h)
    /\ OpenServer(h)
    /\ CancelledTask(h)
    /\ TasksOfManager(h)
    /\ GivenUp(h)

\* The inductive invariant behind the theorems below.
IInv == TypeOK /\ \A h \in Honeypots : HoneypotInv(h)

LEMMA InitIInv == Init => IInv
<1> SUFFICES ASSUME Init PROVE IInv
  OBVIOUS
<1>1. TypeOK
  BY SupervisorAssumption DEF Init, TypeOK
<1>2. ASSUME NEW h \in Honeypots
      PROVE  HoneypotInv(h)
  BY SupervisorAssumption
     DEF Init, HoneypotInv, LoopsBounded, Loops, StartsLeft, OpenServer,
         CancelledTask, TasksOfManager, GivenUp
<1> QED
  BY <1>1, <1>2 DEF IInv

-----------------------------------------------------------------------------
(* The steps of one honeypot.                                              *)

\* Nothing of the honeypot changes.
SameHoneypot(h) ==
    /\ task'[h] = task[h] /\ cancelled'[h] = cancelled[h]
    /\ crashes'[h] = crashes[h] /\ flush'[h] = flush[h]
    /\ leaked'[h] = leaked[h] /\ died'[h] = died[h]
    /\ listening'[h] = listening[h]

\* Honeypots share nothing but the manager.
LEMMA OtherHoneypot ==
    ASSUME TypeOK, NEW h \in Honeypots, NEW k \in Honeypots, k # h,
           TaskStep(h) \/ FlushLoopDies(h)
    PROVE  SameHoneypot(k) /\ manager' = manager
<1> USE DEF TypeOK, SameHoneypot, Goto
<1>1. CASE Start(h)
  BY <1>1 DEF Start, StartFlushLoop
<1>2. CASE Serve(h)
  BY <1>2 DEF Serve
<1>3. CASE StartFails(h) \/ (h = "ssh" /\ HostKeysFail)
  BY <1>3 DEF StartFails, HostKeysFail, Crashed
<1>4. CASE Cancel(h)
  BY <1>4 DEF Cancel
<1>5. CASE StopFlushLoop(h)
  BY <1>5 DEF StopFlushLoop
<1>6. CASE StopFails(h) \/ Closed(h)
  BY <1>6 DEF StopFails, Closed
<1>7. CASE FlushLoopDies(h)
  BY <1>7 DEF FlushLoopDies
<1> QED
  BY <1>1, <1>2, <1>3, <1>4, <1>5, <1>6, <1>7 DEF TaskStep

LEMMA SameHoneypotInv ==
    ASSUME NEW h \in Honeypots, HoneypotInv(h), SameHoneypot(h), manager' = manager
    PROVE  HoneypotInv(h)'
  BY DEF HoneypotInv, LoopsBounded, Loops, StartsLeft, OpenServer, CancelledTask,
         TasksOfManager, GivenUp, SameHoneypot

\* A crash is counted; the last one goes to stop(), the others to the sleep.
LEMMA CrashStep ==
    ASSUME TypeOK, NEW h \in Honeypots, HoneypotInv(h),
           task[h] \in {"new", "delay", "starting"}, ~cancelled[h], Crashed(h),
           UNCHANGED <<manager, cancelled, flush, leaked, died, listening>>
    PROVE  TypeOK' /\ HoneypotInv(h)'
<1> USE SupervisorAssumption DEF TypeOK, Crashed, Goto
<1>1. crashes[h] < MaxCrashes /\ leaked[h] <= crashes[h]
  BY DEF HoneypotInv, StartsLeft, LoopsBounded
<1>2. /\ crashes'[h] = crashes[h] + 1
      /\ task'[h] = IF crashes[h] + 1 >= MaxCrashes THEN "stopping" ELSE "delay"
  OBVIOUS
<1>3. ~listening[h]
  BY DEF HoneypotInv, OpenServer
<1>4. TypeOK'
  BY <1>1
<1>5. LoopsBounded(h)' /\ StartsLeft(h)'
  BY <1>1, <1>2 DEF LoopsBounded, Loops, StartsLeft
<1>6. OpenServer(h)' /\ CancelledTask(h)'
  BY <1>2, <1>3 DEF HoneypotInv, OpenServer, CancelledTask
<1>7. TasksOfManager(h)' /\ GivenUp(h)'
  BY <1>1, <1>2, <1>3 DEF HoneypotInv, TasksOfManager, GivenUp
<1> QED
  BY <1>4, <1>5, <1>6, <1>7 DEF HoneypotInv

LEMMA StartStep ==
    ASSUME TypeOK, NEW h \in Honeypots, HoneypotInv(h), Start(h)
    PROVE  TypeOK' /\ HoneypotInv(h)'
<1> USE SupervisorAssumption DEF TypeOK, Start, StartFlushLoop, Goto
<1>1. crashes[h] < MaxCrashes /\ Loops(h) <= crashes[h] /\ ~listening[h]
  BY DEF HoneypotInv, StartsLeft, LoopsBounded, OpenServer
<1>2. leaked'[h] = Loops(h) /\ flush'[h] = "live" /\ task'[h] = "starting"
  BY DEF Loops
<1>3. TypeOK'
  <2>1. leaked'[h] \in 0 .. MaxCrashes - 1
    BY <1>1, <1>2 DEF Loops
  <2>2. leaked' \in [Honeypots -> 0 .. MaxCrashes - 1]
    BY <2>1
  <2> QED
    BY <2>2
<1>4. LoopsBounded(h)' /\ StartsLeft(h)'
  BY <1>1, <1>2 DEF LoopsBounded, Loops, StartsLeft
<1>5. OpenServer(h)' /\ CancelledTask(h)' /\ TasksOfManager(h)' /\ GivenUp(h)'
  BY <1>1, <1>2 DEF HoneypotInv, OpenServer, CancelledTask, TasksOfManager, GivenUp
<1> QED
  BY <1>3, <1>4, <1>5 DEF HoneypotInv

LEMMA ServeStep ==
    ASSUME TypeOK, NEW h \in Honeypots, HoneypotInv(h), Serve(h)
    PROVE  TypeOK' /\ HoneypotInv(h)'
<1> USE DEF TypeOK, Serve, Goto
<1>1. TypeOK'
  OBVIOUS
<1>2. HoneypotInv(h)'
  BY DEF HoneypotInv, LoopsBounded, Loops, StartsLeft, OpenServer, CancelledTask,
         TasksOfManager, GivenUp
<1> QED
  BY <1>1, <1>2

LEMMA CancelStep ==
    ASSUME TypeOK, NEW h \in Honeypots, HoneypotInv(h), Cancel(h)
    PROVE  TypeOK' /\ HoneypotInv(h)'
<1> USE DEF TypeOK, Cancel, Goto
<1>1. manager = "gathering" /\ cancelled'[h] = FALSE
  BY DEF HoneypotInv, CancelledTask
<1>2. \/ task[h] \in {"starting", "serving", "stopping"} /\ task'[h] = "stopping"
      \/ task[h] \in {"new", "delay", "closing"} /\ task'[h] = "escaped"
  BY DEF HoneypotInv, CancelledTask
<1>3. TypeOK'
  <2>1. task' \in [Honeypots -> {"none", "new", "starting", "serving", "delay",
                                  "stopping", "closing", "done", "escaped"}]
    BY <1>2
  <2> QED
    BY <2>1
<1>4. LoopsBounded(h)' /\ StartsLeft(h)' /\ OpenServer(h)'
  BY <1>2 DEF HoneypotInv, LoopsBounded, Loops, StartsLeft, OpenServer
<1>5. CancelledTask(h)' /\ TasksOfManager(h)' /\ GivenUp(h)'
  BY <1>1 DEF CancelledTask, TasksOfManager, GivenUp
<1> QED
  BY <1>3, <1>4, <1>5 DEF HoneypotInv

LEMMA StopStep ==
    ASSUME TypeOK, NEW h \in Honeypots, HoneypotInv(h),
           StopFlushLoop(h) \/ StopFails(h) \/ Closed(h)
    PROVE  TypeOK' /\ HoneypotInv(h)'
<1> USE DEF TypeOK, StopFlushLoop, StopFails, Closed, Goto
<1>1. TypeOK'
  OBVIOUS
<1>2. LoopsBounded(h)' /\ StartsLeft(h)' /\ OpenServer(h)'
  BY DEF HoneypotInv, LoopsBounded, Loops, StartsLeft, OpenServer
<1>3. CancelledTask(h)' /\ TasksOfManager(h)' /\ GivenUp(h)'
  BY DEF HoneypotInv, CancelledTask, TasksOfManager, GivenUp
<1> QED
  BY <1>1, <1>2, <1>3 DEF HoneypotInv

LEMMA LoopDiesStep ==
    ASSUME TypeOK, NEW h \in Honeypots, HoneypotInv(h), FlushLoopDies(h)
    PROVE  TypeOK' /\ HoneypotInv(h)'
<1> USE SupervisorAssumption DEF TypeOK, FlushLoopDies
<1>1. TypeOK'
  OBVIOUS
<1>2. LoopsBounded(h)' /\ StartsLeft(h)' /\ OpenServer(h)'
  BY DEF HoneypotInv, LoopsBounded, Loops, StartsLeft, OpenServer
<1>3. CancelledTask(h)' /\ TasksOfManager(h)' /\ GivenUp(h)'
  BY DEF HoneypotInv, CancelledTask, TasksOfManager, GivenUp
<1> QED
  BY <1>1, <1>2, <1>3 DEF HoneypotInv

LEMMA HoneypotStep ==
    ASSUME IInv, NEW h \in Honeypots, TaskStep(h) \/ FlushLoopDies(h)
    PROVE  IInv'
<1>1. TypeOK /\ HoneypotInv(h)
  BY DEF IInv
<1>2. TypeOK' /\ HoneypotInv(h)'
  <2>1. CASE Start(h)
    BY <1>1, <2>1, StartStep
  <2>2. CASE Serve(h)
    BY <1>1, <2>2, ServeStep
  <2>3. CASE StartFails(h)
    BY <1>1, <2>3, CrashStep DEF StartFails
  <2>4. CASE h = "ssh" /\ HostKeysFail
    BY <1>1, <2>4, CrashStep DEF HostKeysFail
  <2>5. CASE Cancel(h)
    BY <1>1, <2>5, CancelStep
  <2>6. CASE StopFlushLoop(h) \/ StopFails(h) \/ Closed(h)
    BY <1>1, <2>6, StopStep
  <2>7. CASE FlushLoopDies(h)
    BY <1>1, <2>7, LoopDiesStep
  <2> QED
    BY <2>1, <2>2, <2>3, <2>4, <2>5, <2>6, <2>7 DEF TaskStep
<1>3. ASSUME NEW k \in Honeypots, k # h
      PROVE  HoneypotInv(k)'
  <2>1. HoneypotInv(k)
    BY DEF IInv
  <2>2. SameHoneypot(k) /\ manager' = manager
    BY <1>1, <1>3, OtherHoneypot
  <2> QED
    BY <2>1, <2>2, SameHoneypotInv
<1> QED
  BY <1>2, <1>3 DEF IInv

-----------------------------------------------------------------------------
(* The steps of the manager.                                               *)

LEMMA ManagerStep ==
    ASSUME IInv,
           Connected \/ ConnectFails \/ Shutdown \/ CloseQueue \/ ProcessEnds
    PROVE  IInv'
<1>1. TypeOK
  BY DEF IInv
<1>2. TypeOK'
  <2>1. CASE Connected \/ ConnectFails \/ CloseQueue
    BY <1>1, <2>1 DEF TypeOK, Connected, ConnectFails, CloseQueue
  <2>2. CASE Shutdown
    <3>1. cancelled' \in [Honeypots -> BOOLEAN]
      BY <2>2, Zenon DEF Shutdown
    <3> QED
      BY <1>1, <2>2, <3>1 DEF TypeOK, Shutdown
  <2>3. CASE ProcessEnds
    <3>1. leaked' \in [Honeypots -> 0 .. MaxCrashes - 1]
      BY <2>3, SupervisorAssumption DEF ProcessEnds
    <3> QED
      BY <1>1, <2>3, <3>1 DEF TypeOK, ProcessEnds
  <2> QED
    BY <2>1, <2>2, <2>3
<1>3. ASSUME NEW h \in Honeypots
      PROVE  HoneypotInv(h)'
  <2> HoneypotInv(h)
    BY DEF IInv
  <2> USE <1>1
      DEF TypeOK, HoneypotInv, LoopsBounded, Loops, StartsLeft, OpenServer,
          CancelledTask, TasksOfManager, GivenUp
  <2>1. CASE Connected
    <3>1. /\ task[h] = "none" /\ task'[h] = "new" /\ crashes'[h] = crashes[h]
      BY <2>1 DEF Connected
    <3> QED
      BY <2>1, <3>1 DEF Connected
  <2>2. CASE ConnectFails
    BY <2>2 DEF ConnectFails
  <2>3. CASE Shutdown
    BY <2>3 DEF Shutdown
  <2>4. CASE CloseQueue
    BY <2>4 DEF CloseQueue
  <2>5. CASE ProcessEnds
    BY <2>5 DEF ProcessEnds
  <2> QED
    BY <2>1, <2>2, <2>3, <2>4, <2>5
<1> QED
  BY <1>2, <1>3 DEF IInv

LEMMA StepIInv == IInv /\ [Next]_vars => IInv'
<1> SUFFICES ASSUME IInv, [Next]_vars PROVE IInv'
  OBVIOUS
<1>1. CASE Connected \/ ConnectFails \/ Shutdown \/ CloseQueue \/ ProcessEnds
  BY <1>1, ManagerStep
<1>2. ASSUME NEW h \in Honeypots, TaskStep(h) \/ FlushLoopDies(h)
      PROVE  IInv'
  BY <1>2, HoneypotStep
<1>3. CASE UNCHANGED vars
  BY <1>3
     DEF vars, IInv, TypeOK, HoneypotInv, LoopsBounded, Loops, StartsLeft,
         OpenServer, CancelledTask, TasksOfManager, GivenUp
<1> QED
  BY <1>1, <1>2, <1>3 DEF Next

-----------------------------------------------------------------------------
(* The theorems.                                                           *)

LEMMA SupervisorInvariant == Spec => []IInv
<1> QED
  BY InitIInv, StepIInv, PTL DEF Spec

\* The counters of the supervisor stay in their range: no honeypot crashes
\* more than MAX_CONSECUTIVE_CRASHES times in a row, and the flush loops its
\* crashes leave behind stay below that number.
THEOREM TypeCorrect == Spec => []TypeOK
<1>1. IInv => TypeOK
  BY DEF IInv
<1> QED
  BY <1>1, SupervisorInvariant, PTL

\* When the queue is closed no server is open and no loop runs, but for a
\* server whose flush loop died and the loops that crashes left behind.
THEOREM QuietAtTheEnd == Spec => []QuietWhenClosed
<1>1. IInv => QuietWhenClosed
  BY DEF IInv, QuietWhenClosed, HoneypotInv, LoopsBounded, OpenServer,
         TasksOfManager
<1> QED
  BY <1>1, SupervisorInvariant, PTL

\* run_honeypot_with_restart gives a honeypot up after the last crash it
\* tolerates and not before; only a shutdown ends one that still has starts.
THEOREM GivenUpInTheEnd == Spec => []GivesUpOnlyAfterMax
<1>1. IInv => GivesUpOnlyAfterMax
  BY DEF IInv, GivesUpOnlyAfterMax, HoneypotInv, GivenUp
<1> QED
  BY <1>1, SupervisorInvariant, PTL

=============================================================================
