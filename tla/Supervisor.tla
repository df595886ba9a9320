------------------------------ MODULE Supervisor ------------------------------
(***************************************************************************)
(* The honeypot process: run_all_honeypots and run_honeypot_with_restart   *)
(* (honeypot/__main__.py) over start, stop and the flush loop of the       *)
(* honeypots (honeypot/base.py, ssh.py, http.py).                          *)
(*                                                                         *)
(* The manager awaits the shutdown signal and cancels the honeypots'       *)
(* tasks; what a cancellation does depends on the await it meets.  Each    *)
(* honeypot's task is at one of the awaits below, and a step is what it    *)
(* does up to the next one.  The flush loops are tasks of their own, which *)
(* may end with an exception (HoneypotBuffer shows how).                   *)
(***************************************************************************)
EXTENDS Naturals

CONSTANT MaxCrashes     \* MAX_CONSECUTIVE_CRASHES

ASSUME SupervisorAssumption == MaxCrashes \in Nat \ {0}

Honeypots == {"ssh", "http"}

VARIABLES
    manager,        \* run_all_honeypots
    task,           \* the await run_honeypot_with_restart is at
    cancelled,      \* task.cancel() was called and is yet to take effect
    crashes,        \* consecutive_crashes
    flush,          \* _flush_task of the honeypot
    leaked,         \* live flush loops that _flush_task no longer refers to
    died,           \* a flush loop of the honeypot ended by an exception (history)
    listening       \* the server accepts connections

vars == <<manager, task, cancelled, crashes, flush, leaked, died, listening>>

TypeOK ==
    /\ manager \in {"connecting", "running", "gathering", "closing", "ended"}
    /\ task \in [Honeypots -> {"none", "new", "starting", "serving", "delay",
                               "stopping", "closing", "done", "escaped"}]
    /\ cancelled \in [Honeypots -> BOOLEAN]
    /\ crashes \in [Honeypots -> 0 .. MaxCrashes]
    /\ flush \in [Honeypots -> {"none", "live", "dead", "stopped"}]
    /\ leaked \in [Honeypots -> 0 .. MaxCrashes - 1]
    /\ died \in [Honeypots -> BOOLEAN]
    /\ listening \in [Honeypots -> BOOLEAN]

Init ==
    /\ manager = "connecting"
    /\ task = [h \in Honeypots |-> "none"]
    /\ cancelled = [h \in Honeypots |-> FALSE]
    /\ crashes = [h \in Honeypots |-> 0]
    /\ flush = [h \in Honeypots |-> "none"]
    /\ leaked = [h \in Honeypots |-> 0]
    /\ died = [h \in Honeypots |-> FALSE]
    /\ listening = [h \in Honeypots |-> FALSE]

-----------------------------------------------------------------------------
(* The manager.                                                            *)

\* connect() returned: a task for each honeypot.
Connected ==
    /\ manager = "connecting"
    /\ manager' = "running"
    /\ task' = [h \in Honeypots |-> "new"]
    /\ UNCHANGED <<cancelled, crashes, flush, leaked, died, listening>>

\* connect() raised: nothing catches it.
ConnectFails ==
    /\ manager = "connecting"
    /\ manager' = "ended"
    /\ UNCHANGED <<task, cancelled, crashes, flush, leaked, died, listening>>

\* SIGTERM or SIGINT: cancel() is called on every task that is not over.
Shutdown ==
    /\ manager = "running"
    /\ manager' = "gathering"
    /\ cancelled' = [h \in Honeypots |-> task[h] \notin {"done", "escaped"}]
    /\ UNCHANGED <<task, crashes, flush, leaked, died, listening>>

\* gather has seen every task end; the queue is closed.
CloseQueue ==
    /\ manager = "gathering"
    /\ \A h \in Honeypots : task[h] \in {"done", "escaped"}
    /\ manager' = "closing"
    /\ UNCHANGED <<task, cancelled, crashes, flush, leaked, died, listening>>

\* The queue is closed, the process ends and takes what is left with it.
ProcessEnds ==
    /\ manager = "closing"
    /\ manager' = "ended"
    /\ flush' = [h \in Honeypots |->
                   IF flush[h] = "live" THEN "stopped" ELSE flush[h]]
    /\ leaked' = [h \in Honeypots |-> 0]
    /\ listening' = [h \in Honeypots |-> FALSE]
    /\ UNCHANGED <<task, cancelled, crashes, died>>

-----------------------------------------------------------------------------
(* run_honeypot_with_restart.                                              *)

Goto(h, await) == task' = [task EXCEPT ![h] = await]

\* Mutants: the crash is not counted, one start too few, one too many.
CrashedUncounted(h) ==
    /\ UNCHANGED crashes
    /\ Goto(h, "delay")
CrashedOneLess(h) ==
    /\ crashes' = [crashes EXCEPT ![h] = @ + 1]
    /\ Goto(h, IF crashes[h] + 2 >= MaxCrashes THEN "stopping" ELSE "delay")
CrashedOneMore(h) ==
    /\ crashes' = [crashes EXCEPT ![h] = @ + 1]
    /\ Goto(h, IF crashes[h] >= MaxCrashes THEN "stopping" ELSE "delay")

\* except Exception: wait and start again, or give up.
Crashed(h) ==
    /\ crashes' = [crashes EXCEPT ![h] = @ + 1]
    /\ Goto(h, IF crashes[h] + 1 >= MaxCrashes THEN "stopping" ELSE "delay")

\* start_flush_loop: the loop of an earlier start is forgotten, not stopped.
StartFlushLoop(h) ==
    /\ flush' = [flush EXCEPT ![h] = "live"]
    /\ leaked' = [leaked EXCEPT ![h] = IF flush[h] = "live" THEN @ + 1 ELSE @]

\* Mutant: a crashed honeypot is not started again.
StartOnce(h) ==
    /\ task[h] = "new"
    /\ ~cancelled[h]
    /\ Goto(h, "starting")
    /\ StartFlushLoop(h)
    /\ UNCHANGED <<manager, cancelled, crashes, died, listening>>

\* start() up to its first await: the flush loop runs, the server does not.
Start(h) ==
    /\ task[h] \in {"new", "delay"}
    /\ ~cancelled[h]
    /\ Goto(h, "starting")
    /\ StartFlushLoop(h)
    /\ UNCHANGED <<manager, cancelled, crashes, died, listening>>

\* _get_or_create_host_keys raises, before there is a flush loop.
HostKeysFail ==
    /\ task["ssh"] \in {"new", "delay"}
    /\ ~cancelled["ssh"]
    /\ Crashed("ssh")
    /\ UNCHANGED <<manager, cancelled, flush, leaked, died, listening>>

Serve(h) ==
    /\ task[h] = "starting"
    /\ ~cancelled[h]
    /\ Goto(h, "serving")
    /\ listening' = [listening EXCEPT ![h] = TRUE]
    /\ UNCHANGED <<manager, cancelled, crashes, flush, leaked, died>>

\* The port is taken, a key is unreadable: start() raises.
StartFails(h) ==
    /\ task[h] = "starting"
    /\ ~cancelled[h]
    /\ Crashed(h)
    /\ UNCHANGED <<manager, cancelled, flush, leaked, died, listening>>

\* Mutant: a cancelled start() is taken for a crash.
CancelRestarts(h) ==
    /\ cancelled[h]
    /\ cancelled' = [cancelled EXCEPT ![h] = FALSE]
    /\ Goto(h, CASE task[h] \in {"starting", "serving"} -> "delay"
                 [] task[h] \in {"new", "delay", "closing"} -> "escaped"
                 [] task[h] = "stopping" -> "stopping")
    /\ UNCHANGED <<manager, crashes, flush, leaked, died, listening>>

\* Mutant: a cancellation ends the task wherever it is.
CancelAnywhere(h) ==
    /\ cancelled[h]
    /\ cancelled' = [cancelled EXCEPT ![h] = FALSE]
    /\ Goto(h, "escaped")
    /\ UNCHANGED <<manager, crashes, flush, leaked, died, listening>>

\* The cancellation takes effect.  start() is left for stop() (the HTTP
\* honeypot's returns, the SSH honeypot's raises); the sleep between two
\* starts is not inside the try, nor is the task that has not run yet, and
\* the handler of stop() catches no CancelledError; stop_flush_loop takes it
\* for the one of the flush loop and goes on.
Cancel(h) ==
    /\ cancelled[h]
    /\ cancelled' = [cancelled EXCEPT ![h] = FALSE]
    /\ Goto(h, CASE task[h] \in {"starting", "serving"} -> "stopping"
                 [] task[h] \in {"new", "delay", "closing"} -> "escaped"
                 [] task[h] = "stopping" -> "stopping")
    /\ UNCHANGED <<manager, crashes, flush, leaked, died, listening>>

-----------------------------------------------------------------------------
(* stop() and the flush loops.                                             *)

\* stop_flush_loop: the loop is cancelled and has ended; close() is called.
StopFlushLoop(h) ==
    /\ task[h] = "stopping"
    /\ ~cancelled[h]
    /\ flush[h] # "dead"
    /\ Goto(h, "closing")
    /\ flush' = [flush EXCEPT ![h] = IF @ = "live" THEN "stopped" ELSE @]
    /\ listening' = [listening EXCEPT ![h] = FALSE]
    /\ UNCHANGED <<manager, cancelled, crashes, leaked, died>>

\* Awaiting a loop that died raises its exception: stop() ends there, and
\* stop_error is logged.
StopFails(h) ==
    /\ task[h] = "stopping"
    /\ ~cancelled[h]
    /\ flush[h] = "dead"
    /\ Goto(h, "done")
    /\ UNCHANGED <<manager, cancelled, crashes, flush, leaked, died, listening>>

\* wait_closed, or the cleanup of the runner, returns.
Closed(h) ==
    /\ task[h] = "closing"
    /\ ~cancelled[h]
    /\ Goto(h, "done")
    /\ UNCHANGED <<manager, cancelled, crashes, flush, leaked, died, listening>>

\* An exception escapes from _flush_buffer, in the loop _flush_task refers to
\* or in a forgotten one.
FlushLoopDies(h) ==
    /\ \/ /\ flush[h] = "live"
          /\ flush' = [flush EXCEPT ![h] = "dead"]
          /\ UNCHANGED leaked
       \/ /\ leaked[h] > 0
          /\ leaked' = [leaked EXCEPT ![h] = @ - 1]
          /\ UNCHANGED flush
    /\ died' = [died EXCEPT ![h] = TRUE]
    /\ UNCHANGED <<manager, task, cancelled, crashes, listening>>

-----------------------------------------------------------------------------

TaskStep(h) ==
    \/ Start(h) \/ Serve(h) \/ StartFails(h) \/ Cancel(h)
    \/ StopFlushLoop(h) \/ StopFails(h) \/ Closed(h)
    \/ h = "ssh" /\ HostKeysFail

Next ==
    \/ Connected \/ ConnectFails \/ Shutdown \/ CloseQueue \/ ProcessEnds
    \/ \E h \in Honeypots : TaskStep(h) \/ FlushLoopDies(h)

\* Awaits return, sleeps end and a cancellation is delivered; no signal and no
\* failure is promised.
Fairness ==
    /\ WF_vars(Connected \/ ConnectFails)
    /\ WF_vars(CloseQueue)
    /\ WF_vars(ProcessEnds)
    /\ \A h \in Honeypots : WF_vars(TaskStep(h))

Spec == Init /\ [][Next]_vars /\ Fairness

-----------------------------------------------------------------------------
(* Correctness.                                                            *)

Loops(h) == leaked[h] + IF flush[h] = "live" THEN 1 ELSE 0

\* The queue is closed when nobody uses it any more: no server accepts
\* connections and no flush loop runs.  There are two ways out of it, and no
\* third: awaiting a loop that died keeps stop() from closing the server, and a
\* crash leaves the loop of its start behind, when there is another start or
\* the shutdown comes during the pause before it.  That is one loop for a crash,
\* never more, all of them over the one buffer that HoneypotBuffer models.
QuietWhenClosed ==
    manager = "closing" =>
        \A h \in Honeypots :
            /\ listening[h] => died[h] /\ flush[h] = "dead"
            /\ Loops(h) <= crashes[h]

\* A honeypot is given up after MAX_CONSECUTIVE_CRASHES failed starts and not
\* before, whatever happens to the other one and to its flush loops; without a
\* shutdown a honeypot that served goes on serving.
GivesUpOnlyAfterMax ==
    \A h \in Honeypots :
        manager = "running" /\ task[h] \in {"stopping", "closing", "done", "escaped"}
            => crashes[h] = MaxCrashes /\ ~listening[h]

\* "restarted automatically when it crashes" (__main__.py:5): once connected,
\* every honeypot serves in the end, unless it uses up its starts.
ServesInTheEnd ==
    \A h \in Honeypots :
        manager = "running" ~>
            \/ task[h] = "serving"
            \/ crashes[h] = MaxCrashes
            \/ manager # "running"

\* Graceful shutdown: the signal ends the process, in whatever state the
\* honeypots are; no task waits for another for good.
ShutdownEnds == manager = "gathering" ~> manager = "ended"

=============================================================================
