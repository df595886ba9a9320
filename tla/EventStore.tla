----------------------------- MODULE EventStore -----------------------------
(***************************************************************************)
(* What the collection pipeline promises, without Redis consumer groups,   *)
(* batches, retries or workers: an entry that was accepted is OWED until   *)
(* its event is in the database (or until it turned out to be unreadable,  *)
(* a dead letter).  Nothing else may make the pipeline forget it: only the *)
(* loss of the stream itself, which takes every entry accepted so far with *)
(* it (lost) and none that is accepted later.                              *)
(*                                                                         *)
(* EventWorker implements this specification (EventWorker!StoreSpec).      *)
(***************************************************************************)
EXTENDS Naturals, Sequences

CONSTANTS
    Events,         \* events a honeypot can emit (identified by their UUID)
    Malformed       \* a stream entry that AttackEvent cannot be parsed from

VARIABLES
    entries,        \* every entry ever accepted, in order of acceptance
    lost,           \* entries 1 .. lost went with a lost stream
    owed,           \* positions of the entries the pipeline still answers for
    stored          \* the events that have a row in attack_events

vars == <<entries, lost, owed, stored>>

Init ==
    /\ entries = <<>>
    /\ lost = 0
    /\ owed = {}
    /\ stored = {}

\* A new entry is accepted.
Accept(p) ==
    /\ entries' = Append(entries, p)
    /\ owed' = owed \cup {Len(entries) + 1}
    /\ UNCHANGED <<lost, stored>>

\* One event gets its row; only an accepted event may, and only once.
Store(e) ==
    /\ e \notin stored
    /\ \E i \in 1 .. Len(entries) : entries[i] = e
    /\ stored' = stored \cup {e}
    /\ UNCHANGED <<entries, lost, owed>>

\* The pipeline is released from an entry: stored, or not an event at all.
Settle(i) ==
    /\ entries[i] \in stored \cup {Malformed}
    /\ owed' = owed \ {i}
    /\ UNCHANGED <<entries, lost, stored>>

\* The bookkeeping was lost: the present stream is answered for from its start.
Reissue ==
    /\ owed' = lost + 1 .. Len(entries)
    /\ UNCHANGED <<entries, lost, stored>>

\* The stream itself is gone, and what it held with it.
Forget ==
    /\ lost < Len(entries)
    /\ lost' = Len(entries)
    /\ owed' = {}
    /\ UNCHANGED <<entries, stored>>

Next ==
    \/ \E p \in Events \cup {Malformed} : Accept(p)
    \/ \E e \in Events : Store(e)
    \/ \E i \in owed : Settle(i)
    \/ Reissue
    \/ Forget

Spec == Init /\ [][Next]_vars

=============================================================================
