------------------------------- MODULE Backfill -------------------------------
(***************************************************************************)
(* detection/backfill.py: the events stored before the classifier existed  *)
(* (attack_type IS NULL) are read in order of their time stamps and        *)
(* classified in batches, the context of each address being rebuilt in     *)
(* memory as the run goes.  The command is started by hand and may die at  *)
(* any await; starting it again selects what is still unclassified.        *)
(*                                                                         *)
(* The workers store only classified events, so the rows a run has to do   *)
(* with are those of the initial table.                                    *)
(***************************************************************************)
EXTENDS Classifier, Sequences

CONSTANTS
    Rows,           \* ids of the unclassified events
    IPs, Ports,
    Kinds,          \* what the rules see of an event, with its port
    Times,          \* time stamps, natural numbers
    BatchSize,      \* BATCH_SIZE
    MaxFaults       \* bound: runs that die

Events == {[ip |-> i, port |-> k.port, protocol |-> k.protocol,
            type |-> k.type, injects |-> k.injects, weak |-> k.weak,
            scans |-> k.scans, timestamp |-> t] :
               i \in IPs, k \in Kinds, t \in Times}

ASSUME BackfillAssumption ==
    /\ IsFiniteSet(Rows)
    /\ Kinds \subseteq [port : Ports, protocol : Protocols, type : EventTypes,
                        injects : BOOLEAN, weak : BOOLEAN, scans : BOOLEAN]
    /\ Times \subseteq Nat
    /\ BatchSize \in Nat \ {0}
    /\ MaxFaults \in Nat

VARIABLES
    event,          \* the stored events, by row
    class,          \* committed: attack_type and severity, Null before
    \* the process
    running,
    todo,           \* the rows selected and not yet looked at
    updated,        \* the uncommitted UPDATEs of the session, as class
    processed,      \* total_processed
    seenBy,         \* _IPContextBuilder: attempts and ports per address
    faults

vars == <<event, class, running, todo, updated, processed, seenBy, faults>>

Null == [type |-> "null", severity |-> "null"]
Classes == [type : AttackTypes, severity : Severities]

\* A plausible bug: the WHERE clause is missing.
EveryRow == Rows

\* WHERE attack_type IS NULL.
Unclassified == {r \in Rows : class[r] = Null}

NoContexts == [i \in IPs |-> NoContext]

TypeOK ==
    /\ event \in [Rows -> Events]
    /\ class \in [Rows -> Classes \cup {Null}]
    /\ running \in BOOLEAN
    /\ todo \in Seq(Rows)
    /\ updated \in [Rows -> Classes \cup {Null}]
    /\ processed \in 0 .. Cardinality(Rows)
    /\ seenBy \in [IPs -> [attempts : 0 .. Cardinality(Rows), ports : SUBSET Ports]]
    /\ faults \in 0 .. MaxFaults

Init ==
    /\ event \in [Rows -> Events]
    /\ class = [r \in Rows |-> Null]
    /\ running = FALSE
    /\ todo = <<>>
    /\ updated = class
    /\ processed = 0
    /\ seenBy = NoContexts
    /\ faults = 0

-----------------------------------------------------------------------------

\* A plausible bug: the SELECT has no ORDER BY.
SelectedUnordered(q) == q # <<>>

\* SELECT ... ORDER BY timestamp: rows with the same time stamp in any order.
Selected(q) ==
    \A m, n \in DOMAIN q :
        m < n => event[q[m]].timestamp <= event[q[n]].timestamp

\* A plausible bug: the counters outlive the run they belong to.
ExitKeepsCounts ==
    /\ running' = FALSE
    /\ todo' = <<>>
    /\ updated' = class'
    /\ UNCHANGED <<processed, seenBy>>

\* The process ends: what was not committed is rolled back.
Exit ==
    /\ running' = FALSE
    /\ todo' = <<>>
    /\ updated' = class'
    /\ processed' = 0
    /\ seenBy' = NoContexts

\* A plausible bug: the counter of one address is fed by all of them.
RebuiltShared(e) ==
    [i \in IPs |-> [attempts |-> seenBy[i].attempts + 1,
                    ports    |-> seenBy[i].ports \cup {e.port}]]

\* _IPContextBuilder.update_and_get: no window, a running total.
Rebuilt(e) ==
    [seenBy EXCEPT ![e.ip] = [attempts |-> @.attempts + 1,
                              ports    |-> @.ports \cup {e.port}]]

-----------------------------------------------------------------------------

\* python -m honeywatch.detection.backfill; with nothing to do it returns.
Begin ==
    /\ ~running
    /\ Unclassified # {}
    /\ \E q \in [1 .. Cardinality(Unclassified) -> Unclassified] :
          /\ Unclassified = {q[n] : n \in DOMAIN q}
          /\ Selected(q)
          /\ todo' = q
    /\ running' = TRUE
    /\ UNCHANGED <<event, class, updated, processed, seenBy, faults>>

\* The pending UPDATEs once the next row is classified.
AfterRow ==
    LET r == Head(todo)
    IN [updated EXCEPT
            ![r] = Classify(event[r], Rebuilt(event[r])[event[r].ip])]

FullBatch == (processed + 1) % BatchSize = 0

\* One pass of the loop: the context, the class and the UPDATE of one row,
\* and the commit when the batch is full.
Process ==
    /\ running
    /\ todo # <<>>
    /\ seenBy' = Rebuilt(event[Head(todo)])
    /\ updated' = AfterRow
    /\ todo' = Tail(todo)
    /\ processed' = processed + 1
    /\ class' = IF FullBatch THEN AfterRow ELSE class
    /\ UNCHANGED <<event, running, faults>>

\* A plausible bug: the commit after the loop is forgotten.
FinishUncommitted ==
    /\ running
    /\ todo = <<>>
    /\ class' = class
    /\ Exit
    /\ UNCHANGED <<event, faults>>

\* The commit after the loop; close_db and the end of the process.
Finish ==
    /\ running
    /\ todo = <<>>
    /\ class' = updated
    /\ Exit
    /\ UNCHANGED <<event, faults>>

\* An UPDATE or a commit raises, or the process is killed.
Die ==
    /\ running
    /\ faults < MaxFaults
    /\ faults' = faults + 1
    /\ class' = class
    /\ Exit
    /\ UNCHANGED event

\* A commit takes effect and its answer is lost: the run ends all the same.
DieCommitted ==
    /\ running
    /\ \/ todo = <<>> /\ class' = updated
       \/ todo # <<>> /\ FullBatch /\ class' = AfterRow
    /\ faults < MaxFaults
    /\ faults' = faults + 1
    /\ Exit
    /\ UNCHANGED event

Next == Begin \/ Process \/ Finish \/ Die \/ DieCommitted

Spec == Init /\ [][Next]_vars

-----------------------------------------------------------------------------
(* Properties.                                                             *)

\* What is committed is a prefix in time, whatever run it comes from: when an
\* event is classified, so is every earlier one (the SELECT's ORDER BY and
\* the batch commits, over any number of interrupted runs).
CommittedInOrder ==
    \A r, s \in Rows :
        class[r] # Null /\ event[s].timestamp < event[r].timestamp
            => class[s] # Null

\* A run leaves the classes that an earlier, interrupted run committed.
NeverReclassified ==
    [][\A r \in Rows : class[r] # Null => class'[r] = class[r]]_vars

\* A run that ends without dying (backfill.completed) has classified every
\* event, with or without an incomplete last batch.
CompletedIsTotal ==
    [][running /\ ~running' /\ faults' = faults
           => \A r \in Rows : class'[r] # Null]_vars

\* The events of the same address up to the time of r.
Upto(r) == {s \in Rows : /\ event[s].ip = event[r].ip
                         /\ event[s].timestamp <= event[r].timestamp}

Context(r) == [attempts |-> Cardinality(Upto(r)),
               ports    |-> {event[s].port : s \in Upto(r)}]

\* No event is called brute_force or port_scan without the evidence, however
\* the runs were interrupted: the address had made that many attempts, or had
\* tried that many ports, by the time of the event.
EvidenceForClass ==
    \A r \in Rows :
        /\ class[r].type = "brute_force" => Context(r).attempts >= BruteMin
        /\ class[r].type = "port_scan" =>
               Cardinality(Context(r).ports) >= PortMin

=============================================================================
