---------------------------- MODULE SessionsProofs ----------------------------
(***************************************************************************)
(* Proofs about SSHSession and HTTPRequest, for any user names, any number *)
(* of password requests and every limit of the body and the chunks, and    *)
(* about Sessions, which composes them.                                    *)
(*                                                                         *)
(* SSH.  Neither property is inductive.  OneKindOfTrace needs that an open *)
(* connection has no ssh_connection event yet, and that a connection       *)
(* without attempts has no login attempts (TraceByAttempts).               *)
(* AnsweredIsKept needs that the event whose emission is cancelled is not  *)
(* one the client was answered about (ValidatedEmitting).                  *)
(*                                                                         *)
(* HTTP.  The properties speak of the answer; the invariant follows the    *)
(* request to it.  What is recorded depends on the await the handler is at *)
(* (RecordedByStage).  What is refused depends on how much of the body is  *)
(* in memory, on its way or lost (BodyAccounted).                          *)
(***************************************************************************)
EXTENDS Sessions, SequenceTheorems, TLAPS

-----------------------------------------------------------------------------
(* SSHSession: the invariant.                                              *)

\* The counter of attempts and the events agree, as connection_lost relies on.
TraceByAttempts ==
    /\ phase # "lost" => \A n \in DOMAIN events : events[n].type = "ssh_login_attempt"
    /\ attempts = 0 => \A n \in DOMAIN events : events[n].type # "ssh_login_attempt"

\* The event that validate_password awaits is being emitted.
ValidatedEmitting ==
    validating # 0 => events[validating].status = "emitting"

\* A password that waits is one of those the bound allows.
AskedInBound == asked => attempts < MaxAttempts

SSHInv ==
    /\ SSHTypeOK
    /\ TraceByAttempts
    /\ ValidatedEmitting
    /\ AskedInBound
    /\ OneKindOfTrace
    /\ AnsweredIsKept

Events == [type : EventTypes, user : Users \cup {NoUser},
           version : BOOLEAN, status : Status]

-----------------------------------------------------------------------------
(* Facts about the list of events.                                         *)

\* Steps change the status of events, and nothing else of them.
SameButStatus(old, new) ==
    /\ new \in Seq(Events)
    /\ Len(new) = Len(old)
    /\ \A n \in 1 .. Len(old) : new[n].type = old[n].type

LEMMA RelabelFacts ==
    ASSUME NEW old \in Seq(Events), NEW new,
           new \in [1 .. Len(old) -> Events],
           \A n \in 1 .. Len(old) : new[n].type = old[n].type
    PROVE  SameButStatus(old, new)
<1>1. Len(old) \in Nat
  OBVIOUS
<1>2. new \in Seq(Events) /\ Len(new) = Len(old)
  BY <1>1, SeqDef
<1> QED
  BY <1>2 DEF SameButStatus

LEMMA StatusFacts ==
    ASSUME NEW e \in Events, NEW s \in Status
    PROVE  /\ [e EXCEPT !.status = s] \in Events
           /\ [e EXCEPT !.status = s].status = s
           /\ [e EXCEPT !.status = s].type = e.type
  BY DEF Events

\* One event gets another status.
LEMMA ExceptFacts ==
    ASSUME NEW old \in Seq(Events), NEW n \in 1 .. Len(old), NEW s \in Status
    PROVE  LET new == [old EXCEPT ![n].status = s]
           IN /\ SameButStatus(old, new)
              /\ new[n].status = s
              /\ \A k \in 1 .. Len(old) : k # n => new[k] = old[k]
<1> DEFINE new == [old EXCEPT ![n].status = s]
<1>1. old[n] \in Events
  BY ElementOfSeq
<1>2. new = [old EXCEPT ![n] = [old[n] EXCEPT !.status = s]]
  OBVIOUS
<1>3. [old[n] EXCEPT !.status = s] \in Events
  BY <1>1, StatusFacts
<1>4. /\ new \in Seq(Events)
      /\ Len(new) = Len(old)
      /\ \A k \in 1 .. Len(old) : new[k] = IF k = n THEN [old[n] EXCEPT !.status = s] ELSE old[k]
  BY <1>2, <1>3, ExceptSeq
<1>5. new[n].status = s /\ new[n].type = old[n].type
  BY <1>1, <1>4, StatusFacts
<1> QED
  BY <1>4, <1>5 DEF SameButStatus

\* What a cancellation does to the events.
LEMMA CancelFacts ==
    ASSUME NEW log \in Seq(Events), validating \in 0 .. Len(log), CancelValidation(log)
    PROVE  /\ SameButStatus(log, events')
           /\ validating' = 0
           /\ \A n \in 1 .. Len(log) : n # validating => events'[n] = log[n]
<1>1. PICK s \in {"kept", "cut"} :
          events' = [n \in DOMAIN log |->
                       IF n = validating THEN [log[n] EXCEPT !.status = s] ELSE log[n]]
  BY DEF CancelValidation
<1>2. DOMAIN log = 1 .. Len(log)
  OBVIOUS
<1>3. ASSUME NEW n \in 1 .. Len(log)
      PROVE  /\ events'[n] = IF n = validating THEN [log[n] EXCEPT !.status = s] ELSE log[n]
             /\ events'[n] \in Events
             /\ events'[n].type = log[n].type
  <2>1. log[n] \in Events
    BY ElementOfSeq
  <2>2. [log[n] EXCEPT !.status = s] \in Events
        /\ [log[n] EXCEPT !.status = s].type = log[n].type
    <3>1. s \in Status
      BY DEF Status
    <3> QED
      BY <2>1, <3>1, StatusFacts
  <2>3. events'[n] = IF n = validating THEN [log[n] EXCEPT !.status = s] ELSE log[n]
    BY <1>1, <1>2, Zenon
  <2>4. CASE n = validating
    BY <2>2, <2>3, <2>4
  <2>5. CASE n # validating
    BY <2>1, <2>3, <2>5
  <2> QED
    BY <2>3, <2>4, <2>5
<1>4. events' \in [1 .. Len(log) -> Events]
  BY <1>1, <1>2, <1>3
<1>5. SameButStatus(log, events')
  BY <1>3, <1>4, RelabelFacts
<1> QED
  BY <1>3, <1>5 DEF CancelValidation

\* A new event comes last.
LEMMA NewEventFacts ==
    ASSUME NEW log \in Seq(Events), username \in Users \cup {NoUser},
           NEW type \in EventTypes, NEW version \in BOOLEAN
    PROVE  LET new == Append(log, NewEvent(type, version))
           IN /\ new \in Seq(Events)
              /\ Len(new) = Len(log) + 1
              /\ \A n \in 1 .. Len(log) : new[n] = log[n]
              /\ new[Len(log) + 1].type = type
              /\ new[Len(log) + 1].status = "emitting"
<1>1. /\ NewEvent(type, version) \in Events
      /\ NewEvent(type, version).type = type
      /\ NewEvent(type, version).status = "emitting"
  BY DEF NewEvent, Events, Status
<1> QED
  BY <1>1, AppendProperties

LEMMA SSHInitInv == SessionAssumption /\ SSHInit => SSHInv
<1> SUFFICES ASSUME SessionAssumption, SSHInit PROVE SSHInv
  OBVIOUS
<1>1. SSHTypeOK
  <2>1. /\ phase \in {"new", "open", "lost"} /\ username \in Users \cup {NoUser}
        /\ knowsVersion \in BOOLEAN /\ asked \in BOOLEAN /\ alive \in BOOLEAN
    BY DEF SSHInit
  <2>2. attempts \in 0 .. MaxAttempts
    BY DEF SSHInit, SessionAssumption
  <2>3. events \in Seq(Events) /\ Len(events) = 0
    BY EmptySeq DEF SSHInit
  <2>4. validating \in 0 .. Len(events) /\ answered \subseteq DOMAIN events
    BY <2>3 DEF SSHInit
  <2> QED
    BY <2>1, <2>2, <2>3, <2>4 DEF SSHTypeOK, Events
<1>2. TraceByAttempts /\ ValidatedEmitting /\ AskedInBound
  BY DEF SSHInit, TraceByAttempts, ValidatedEmitting, AskedInBound
<1>3. OneKindOfTrace /\ AnsweredIsKept
  BY DEF SSHInit, OneKindOfTrace, AnsweredIsKept
<1> QED
  BY <1>1, <1>2, <1>3 DEF SSHInv

-----------------------------------------------------------------------------
(* The steps of a connection.                                              *)

\* The events keep their type and the answered ones their status: what the
\* invariant says of the list survives.
LEMMA RelabelStep ==
    ASSUME SSHInv, SameButStatus(events, events'), answered' = answered,
           \A n \in answered : events'[n] = events[n],
           phase' = phase \/ phase' = "lost", attempts' = attempts
    PROVE  TraceByAttempts' /\ OneKindOfTrace' /\ AnsweredIsKept'
<1> USE DEF SameButStatus, SSHInv
<1>1. DOMAIN events = 1 .. Len(events) /\ DOMAIN events' = 1 .. Len(events)
  BY DEF SSHTypeOK
<1>2. TraceByAttempts'
  BY <1>1 DEF TraceByAttempts
<1>3. OneKindOfTrace'
  BY <1>1 DEF OneKindOfTrace
<1>4. AnsweredIsKept'
  BY <1>1 DEF AnsweredIsKept, SSHTypeOK
<1> QED
  BY <1>2, <1>3, <1>4

LEMMA EventsFacts ==
    ASSUME SSHInv
    PROVE  /\ events \in Seq(Events)
           /\ Len(events) \in Nat
           /\ DOMAIN events = 1 .. Len(events)
           /\ validating \in 0 .. Len(events)
           /\ answered \subseteq 1 .. Len(events)
           /\ validating \notin answered
<1>1. events \in Seq(Events) /\ validating \in 0 .. Len(events) /\ answered \subseteq DOMAIN events
  BY DEF SSHInv, SSHTypeOK, Events
<1>2. Len(events) \in Nat /\ DOMAIN events = 1 .. Len(events)
  BY <1>1
<1>3. validating \notin answered
  BY <1>1, <1>2 DEF SSHInv, ValidatedEmitting, AnsweredIsKept
<1> QED
  BY <1>1, <1>2, <1>3

\* A request of the client: whatever is being validated is cancelled.
LEMMA RequestStep ==
    ASSUME SessionAssumption, SSHInv,
           PasswordRequest \/ \E u \in Users : BeginAuth(u)
    PROVE  SSHInv'
<1>1. /\ events \in Seq(Events) /\ validating \in 0 .. Len(events)
      /\ answered \subseteq 1 .. Len(events) /\ validating \notin answered
  BY EventsFacts
<1>2. CancelValidation(events) /\ UNCHANGED <<phase, attempts, answered, alive, knowsVersion>>
  BY DEF PasswordRequest, BeginAuth
<1>3. /\ SameButStatus(events, events') /\ validating' = 0
      /\ \A n \in 1 .. Len(events) : n # validating => events'[n] = events[n]
  BY <1>1, <1>2, CancelFacts
<1>4. TraceByAttempts' /\ OneKindOfTrace' /\ AnsweredIsKept'
  BY <1>1, <1>2, <1>3, RelabelStep
<1>5. /\ username' \in Users \cup {NoUser} /\ asked' \in BOOLEAN
      /\ asked' => attempts < MaxAttempts
  BY DEF PasswordRequest, BeginAuth, SSHInv, SSHTypeOK
<1>6. SSHTypeOK'
  <2>1. answered' \subseteq DOMAIN events'
    BY <1>1, <1>2, <1>3 DEF SameButStatus
  <2>2. validating' \in 0 .. Len(events')
    BY <1>1, <1>3 DEF SameButStatus
  <2> QED
    BY <1>2, <1>3, <1>5, <2>1, <2>2 DEF SSHTypeOK, SSHInv, SameButStatus, Events
<1>7. ValidatedEmitting' /\ AskedInBound'
  BY <1>2, <1>3, <1>5 DEF ValidatedEmitting, AskedInBound
<1> QED
  BY <1>4, <1>6, <1>7 DEF SSHInv

LEMMA ConnectionMadeStep ==
    ASSUME SessionAssumption, SSHInv, ConnectionMade
    PROVE  SSHInv'
<1> USE DEF ConnectionMade, SSHInv
<1>1. SSHTypeOK'
  BY DEF SSHTypeOK
<1>2. TraceByAttempts' /\ ValidatedEmitting' /\ AskedInBound'
  BY DEF TraceByAttempts, ValidatedEmitting, AskedInBound
<1>3. OneKindOfTrace' /\ AnsweredIsKept'
  BY DEF OneKindOfTrace, AnsweredIsKept
<1> QED
  BY <1>1, <1>2, <1>3

\* An attempt: only attempts come before it.
LEMMA ValidateStep ==
    ASSUME SessionAssumption, SSHInv, ValidatePassword
    PROVE  SSHInv'
<1>1. /\ events \in Seq(Events) /\ Len(events) \in Nat
      /\ DOMAIN events = 1 .. Len(events) /\ answered \subseteq 1 .. Len(events)
  BY EventsFacts
<1>2. /\ events' \in Seq(Events) /\ Len(events') = Len(events) + 1
      /\ \A n \in 1 .. Len(events) : events'[n] = events[n]
      /\ events'[Len(events) + 1].type = "ssh_login_attempt"
      /\ events'[Len(events) + 1].status = "emitting"
  <2>1. events' = Append(events, NewEvent("ssh_login_attempt", TRUE))
        /\ username \in Users \cup {NoUser}
    BY DEF ValidatePassword, SSHInv, SSHTypeOK
  <2> QED
    BY <1>1, <2>1, NewEventFacts DEF EventTypes
<1>3. DOMAIN events' = 1 .. Len(events) + 1
  BY <1>2
<1>4. /\ phase = "open" /\ phase' = phase /\ asked' = FALSE /\ attempts' = attempts + 1
      /\ knowsVersion' = TRUE /\ validating' = Len(events) + 1
      /\ UNCHANGED <<username, answered, alive>>
      /\ attempts \in Nat /\ attempts < MaxAttempts /\ MaxAttempts \in Nat
  BY DEF ValidatePassword, SSHInv, SSHTypeOK, AskedInBound, SessionAssumption
<1>5. \A n \in DOMAIN events' : events'[n].type = "ssh_login_attempt"
  BY <1>1, <1>2, <1>3, <1>4 DEF SSHInv, TraceByAttempts
<1>6. SSHTypeOK'
  <2>1. /\ validating' \in 0 .. Len(events')
        /\ answered' \subseteq DOMAIN events'
        /\ attempts' \in 0 .. MaxAttempts
    BY <1>1, <1>2, <1>3, <1>4
  <2> QED
    BY <1>2, <1>4, <2>1 DEF SSHTypeOK, SSHInv, Events
<1>7. TraceByAttempts' /\ ValidatedEmitting' /\ AskedInBound'
  BY <1>2, <1>4, <1>5 DEF TraceByAttempts, ValidatedEmitting, AskedInBound
<1>8. OneKindOfTrace'
  BY <1>5 DEF OneKindOfTrace
<1>9. AnsweredIsKept'
  BY <1>1, <1>2, <1>4 DEF SSHInv, AnsweredIsKept
<1> QED
  BY <1>6, <1>7, <1>8, <1>9 DEF SSHInv

\* The end of a connection: an ssh_connection event is the only one.
LEMMA LostStep ==
    ASSUME SessionAssumption, SSHInv, ConnectionLost
    PROVE  SSHInv'
<1> DEFINE log == IF attempts # 0 THEN events
                  ELSE Append(events, NewEvent("ssh_connection", knowsVersion))
<1>1. /\ events \in Seq(Events) /\ Len(events) \in Nat
      /\ DOMAIN events = 1 .. Len(events) /\ validating \in 0 .. Len(events)
      /\ answered \subseteq 1 .. Len(events) /\ validating \notin answered
  BY EventsFacts
<1>2. /\ phase = "open" /\ phase' = "lost" /\ asked' = FALSE
      /\ UNCHANGED <<username, knowsVersion, attempts, answered, alive>>
      /\ CancelValidation(log)
  BY DEF ConnectionLost
<1>3. /\ log \in Seq(Events) /\ Len(log) \in Nat
      /\ Len(events) <= Len(log)
      /\ \A n \in 1 .. Len(events) : log[n] = events[n]
      /\ attempts # 0 => log = events
      /\ attempts = 0 => /\ Len(log) = Len(events) + 1
                          /\ log[Len(log)].type = "ssh_connection"
  <2>1. CASE attempts # 0
    <3>1. log = events
      BY <2>1
    <3> HIDE DEF log
    <3>2. log \in Seq(Events) /\ Len(log) \in Nat /\ Len(events) <= Len(log)
      BY <1>1, <3>1
    <3>3. \A n \in 1 .. Len(events) : log[n] = events[n]
      BY <3>1
    <3> QED
      BY <2>1, <3>1, <3>2, <3>3
  <2>2. CASE attempts = 0
    <3>1. username \in Users \cup {NoUser} /\ knowsVersion \in BOOLEAN
      BY DEF SSHInv, SSHTypeOK
    <3>2. "ssh_connection" \in EventTypes
      BY DEF EventTypes
    <3> QED
      BY <1>1, <2>2, <3>1, <3>2, NewEventFacts
  <2> QED
    BY <2>1, <2>2
<1> HIDE DEF log
<1>4. /\ SameButStatus(log, events') /\ validating' = 0
      /\ \A n \in 1 .. Len(log) : n # validating => events'[n] = log[n]
  BY <1>1, <1>2, <1>3, CancelFacts
<1>5. DOMAIN events' = 1 .. Len(log) /\ \A n \in 1 .. Len(log) : events'[n].type = log[n].type
  BY <1>3, <1>4 DEF SameButStatus
<1>6. attempts = 0 => Len(events) = 0
  BY <1>1, <1>2 DEF SSHInv, TraceByAttempts
<1>7. attempts # 0 => \A n \in DOMAIN events' : events'[n].type = "ssh_login_attempt"
  BY <1>1, <1>2, <1>3, <1>5 DEF SSHInv, TraceByAttempts
<1>8. attempts = 0 => DOMAIN events' = {1} /\ events'[1].type = "ssh_connection"
  <2> SUFFICES ASSUME attempts = 0
               PROVE  DOMAIN events' = {1} /\ events'[1].type = "ssh_connection"
    OBVIOUS
  <2>1. Len(log) = 1 /\ log[1].type = "ssh_connection"
    <3>1. Len(events) = 0
      BY <1>6
    <3>2. Len(log) = Len(events) + 1 /\ log[Len(log)].type = "ssh_connection"
      BY <1>3
    <3>3. Len(log) = 1
      BY <3>1, <3>2
    <3> QED
      BY <3>2, <3>3
  <2> QED
    BY <1>5, <2>1
<1>9. SSHTypeOK'
  <2>1. answered' \subseteq DOMAIN events'
    <3>1. answered \subseteq 1 .. Len(log)
      BY <1>1, <1>3
    <3>2. answered' = answered /\ DOMAIN events' = 1 .. Len(log)
      BY <1>2, <1>5
    <3> QED
      BY <3>1, <3>2
  <2>2. validating' \in 0 .. Len(events')
    BY <1>3, <1>4 DEF SameButStatus
  <2>3. events' \in Seq(Events)
    BY <1>4 DEF SameButStatus
  <2>4. /\ phase' \in {"new", "open", "lost"} /\ username' \in Users \cup {NoUser}
        /\ knowsVersion' \in BOOLEAN /\ asked' \in BOOLEAN /\ alive' \in BOOLEAN
        /\ attempts' \in 0 .. MaxAttempts
    BY <1>2 DEF SSHInv, SSHTypeOK
  <2> QED
    BY <2>1, <2>2, <2>3, <2>4 DEF SSHTypeOK, Events
<1>10. TraceByAttempts' /\ ValidatedEmitting' /\ AskedInBound'
  BY <1>2, <1>4, <1>8 DEF TraceByAttempts, ValidatedEmitting, AskedInBound
<1>11. OneKindOfTrace'
  BY <1>7, <1>8 DEF OneKindOfTrace
<1>12. AnsweredIsKept'
  BY <1>1, <1>2, <1>3, <1>4 DEF SSHInv, AnsweredIsKept
<1> QED
  BY <1>9, <1>10, <1>11, <1>12 DEF SSHInv

-----------------------------------------------------------------------------
(* The end of emit_event, and of the process.                              *)

\* The event that is kept is in the list; if it is the one validate_password
\* awaited, the client is answered about it.
LEMMA SSHEmittedStep ==
    ASSUME SessionAssumption, SSHInv, NEW n \in DOMAIN events, Emitted(n)
    PROVE  SSHInv'
<1>1. /\ events \in Seq(Events) /\ Len(events) \in Nat
      /\ DOMAIN events = 1 .. Len(events) /\ validating \in 0 .. Len(events)
      /\ answered \subseteq 1 .. Len(events)
  BY EventsFacts
<1>2. /\ SameButStatus(events, events') /\ events'[n].status = "kept"
      /\ \A k \in 1 .. Len(events) : k # n => events'[k] = events[k]
  <2>1. events' = [events EXCEPT ![n].status = "kept"]
    BY DEF Emitted
  <2>2. "kept" \in Status
    BY DEF Status
  <2> QED
    BY <1>1, <2>1, <2>2, ExceptFacts
<1>3. /\ UNCHANGED <<phase, username, knowsVersion, attempts, asked, alive>>
      /\ \/ n = validating /\ validating' = 0 /\ answered' = answered \cup {n}
         \/ n # validating /\ validating' = validating /\ answered' = answered
  BY DEF Emitted
<1>4. /\ events' \in Seq(Events) /\ Len(events') = Len(events) /\ DOMAIN events' = DOMAIN events
      /\ \A k \in DOMAIN events : events'[k].type = events[k].type
  BY <1>1, <1>2 DEF SameButStatus
<1>5. SSHTypeOK'
  <2>1. validating' \in 0 .. Len(events') /\ answered' \subseteq DOMAIN events'
    BY <1>1, <1>3, <1>4
  <2> QED
    BY <1>3, <1>4, <2>1 DEF SSHTypeOK, SSHInv, Events
<1>6. TraceByAttempts' /\ AskedInBound'
  BY <1>3, <1>4 DEF SSHInv, TraceByAttempts, AskedInBound
<1>7. ValidatedEmitting'
  BY <1>1, <1>2, <1>3 DEF SSHInv, ValidatedEmitting
<1>8. OneKindOfTrace'
  BY <1>4 DEF SSHInv, OneKindOfTrace
<1>9. AnsweredIsKept'
  BY <1>1, <1>2, <1>3 DEF SSHInv, AnsweredIsKept
<1> QED
  BY <1>5, <1>6, <1>7, <1>8, <1>9 DEF SSHInv

\* The event that is lost was being emitted: the client was not answered.
LEMMA EmitRaisesStep ==
    ASSUME SessionAssumption, SSHInv, NEW n \in DOMAIN events, EmitRaises(n)
    PROVE  SSHInv'
<1>1. /\ events \in Seq(Events) /\ Len(events) \in Nat
      /\ DOMAIN events = 1 .. Len(events) /\ validating \in 0 .. Len(events)
      /\ answered \subseteq 1 .. Len(events)
  BY EventsFacts
<1>2. /\ SameButStatus(events, events')
      /\ \A k \in 1 .. Len(events) : k # n => events'[k] = events[k]
  <2>1. events' = [events EXCEPT ![n].status = "raised"]
    BY DEF EmitRaises
  <2>2. "raised" \in Status
    BY DEF Status
  <2> QED
    BY <1>1, <2>1, <2>2, ExceptFacts
<1>3. /\ UNCHANGED <<username, knowsVersion, attempts, answered, alive>>
      /\ \/ n = validating /\ phase' = "lost" /\ validating' = 0 /\ asked' = FALSE
         \/ n # validating /\ UNCHANGED <<phase, validating, asked>>
  BY DEF EmitRaises
<1>4. n \notin answered
  BY DEF EmitRaises, SSHInv, AnsweredIsKept
<1>5. TraceByAttempts' /\ OneKindOfTrace' /\ AnsweredIsKept'
  BY <1>1, <1>2, <1>3, <1>4, RelabelStep
<1>6. SSHTypeOK'
  <2>1. events' \in Seq(Events) /\ Len(events') = Len(events) /\ DOMAIN events' = DOMAIN events
    BY <1>1, <1>2 DEF SameButStatus
  <2>2. validating' \in 0 .. Len(events') /\ answered' \subseteq DOMAIN events'
    BY <1>1, <1>3, <2>1
  <2> QED
    BY <1>3, <2>1, <2>2 DEF SSHTypeOK, SSHInv, Events
<1>7. ValidatedEmitting' /\ AskedInBound'
  BY <1>1, <1>2, <1>3 DEF SSHInv, ValidatedEmitting, AskedInBound
<1> QED
  BY <1>5, <1>6, <1>7 DEF SSHInv

\* Only what is still being emitted is decided by the end of the process.
LEMMA ProcessEndsStep ==
    ASSUME SessionAssumption, SSHInv, ProcessEnds
    PROVE  SSHInv'
<1>1. /\ events \in Seq(Events) /\ Len(events) \in Nat
      /\ DOMAIN events = 1 .. Len(events) /\ answered \subseteq 1 .. Len(events)
  BY EventsFacts
<1>2. PICK kept \in SUBSET DOMAIN events :
          events' = [n \in DOMAIN events |->
                       IF events[n].status # "emitting" THEN events[n]
                       ELSE [events[n] EXCEPT !.status =
                                IF n \in kept THEN "kept" ELSE "cut"]]
  BY DEF ProcessEnds
<1>3. ASSUME NEW n \in 1 .. Len(events)
      PROVE  /\ events'[n] \in Events
             /\ events'[n].type = events[n].type
             /\ events[n].status # "emitting" => events'[n] = events[n]
  <2> DEFINE s == IF n \in kept THEN "kept" ELSE "cut"
  <2>1. events[n] \in Events
    BY <1>1, ElementOfSeq
  <2>2. s \in Status
    BY DEF Status
  <2>3. events'[n] = IF events[n].status # "emitting" THEN events[n]
                     ELSE [events[n] EXCEPT !.status = s]
    BY <1>1, <1>2, Zenon
  <2> HIDE DEF s
  <2>4. [events[n] EXCEPT !.status = s] \in Events
        /\ [events[n] EXCEPT !.status = s].type = events[n].type
    BY <2>1, <2>2, StatusFacts
  <2>5. CASE events[n].status # "emitting"
    BY <2>1, <2>3, <2>5
  <2>6. CASE events[n].status = "emitting"
    BY <2>3, <2>4, <2>6
  <2> QED
    BY <2>5, <2>6
<1>4. events' \in [1 .. Len(events) -> Events]
  BY <1>1, <1>2, <1>3
<1>5. SameButStatus(events, events')
  BY <1>1, <1>3, <1>4, RelabelFacts
<1>6. /\ alive' = FALSE /\ phase' = "lost" /\ asked' = FALSE /\ validating' = 0
      /\ UNCHANGED <<username, knowsVersion, attempts, answered>>
  BY DEF ProcessEnds
<1>7. \A n \in answered : events'[n] = events[n]
  BY <1>1, <1>3 DEF SSHInv, AnsweredIsKept
<1>8. TraceByAttempts' /\ OneKindOfTrace' /\ AnsweredIsKept'
  BY <1>5, <1>6, <1>7, RelabelStep
<1>9. SSHTypeOK'
  <2>1. events' \in Seq(Events) /\ Len(events') = Len(events) /\ DOMAIN events' = DOMAIN events
    BY <1>1, <1>5 DEF SameButStatus
  <2>2. validating' \in 0 .. Len(events') /\ answered' \subseteq DOMAIN events'
    BY <1>1, <1>6, <2>1
  <2> QED
    BY <1>6, <2>1, <2>2 DEF SSHTypeOK, SSHInv, Events
<1>10. ValidatedEmitting' /\ AskedInBound'
  BY <1>6 DEF ValidatedEmitting, AskedInBound
<1> QED
  BY <1>8, <1>9, <1>10 DEF SSHInv

LEMMA StutterStep ==
    ASSUME SSHInv, UNCHANGED sshVars
    PROVE  SSHInv'
<1> USE DEF sshVars
<1>1. SSHTypeOK'
  BY DEF SSHInv, SSHTypeOK
<1>2. TraceByAttempts' /\ ValidatedEmitting' /\ AskedInBound'
  BY DEF SSHInv, TraceByAttempts, ValidatedEmitting, AskedInBound
<1>3. OneKindOfTrace' /\ AnsweredIsKept'
  BY DEF SSHInv, OneKindOfTrace, AnsweredIsKept
<1> QED
  BY <1>1, <1>2, <1>3 DEF SSHInv

-----------------------------------------------------------------------------
(* The theorems.                                                           *)

\* Every callback, task and the end of the process keep the invariant.
THEOREM SessionInvariant == SSHSpec => []SSHInv
<1>1. SSHInit => SSHInv
  BY SessionsAssumption, SSHInitInv
<1>2. SSHInv /\ [SSHNext]_sshVars => SSHInv'
  <2> SUFFICES ASSUME SSHInv, [SSHNext]_sshVars PROVE SSHInv'
    OBVIOUS
  <2> USE SessionsAssumption
  <2>1. CASE ConnectionMade
    BY <2>1, ConnectionMadeStep
  <2>2. CASE PasswordRequest \/ \E u \in Users : BeginAuth(u)
    BY <2>2, RequestStep
  <2>3. CASE ValidatePassword
    BY <2>3, ValidateStep
  <2>4. CASE ConnectionLost
    BY <2>4, LostStep
  <2>5. CASE \E n \in DOMAIN events : Emitted(n) \/ EmitRaises(n)
    BY <2>5, SSHEmittedStep, EmitRaisesStep
  <2>6. CASE ProcessEnds
    BY <2>6, ProcessEndsStep
  <2>7. CASE UNCHANGED sshVars
    BY <2>7, StutterStep
  <2> QED
    BY <2>1, <2>2, <2>3, <2>4, <2>5, <2>6, <2>7 DEF SSHNext
<1> QED
  BY <1>1, <1>2, PTL DEF SSHSpec

\* Every variable keeps its type, and what validate_password awaits and what the
\* client was answered about are events of this connection.
THEOREM SessionTypeCorrect == SSHSpec => []SSHTypeOK
<1>1. SSHInv => SSHTypeOK
  BY DEF SSHInv
<1> QED
  BY <1>1, SessionInvariant, PTL

\* connection_lost never records a connection that its login attempts have
\* recorded, and nothing is recorded after it did.
THEOREM OneKindRecorded == SSHSpec => []OneKindOfTrace
<1>1. SSHInv => OneKindOfTrace
  BY DEF SSHInv
<1> QED
  BY <1>1, SessionInvariant, PTL

\* Whatever cancels validate_password, an attempt whose failure the client was
\* told has been kept, and stays so.
THEOREM AnsweredRecorded == SSHSpec => []AnsweredIsKept
<1>1. SSHInv => AnsweredIsKept
  BY DEF SSHInv
<1> QED
  BY <1>1, SessionInvariant, PTL

-----------------------------------------------------------------------------
(* HTTPRequest: the invariant.                                             *)

\* Nothing is recorded before emit_event, which adds copies of the one event,
\* and nothing is emitted that will be answered with a status that stands for
\* "not recorded".
RecordedByStage ==
    /\ stage \in {"idle", "body", "chunks"} => recorded = <<>>
    /\ stage \in {"emit", "done"} => recorded \in Seq({draft})
    /\ stage = "emit" => draft.status \in {200, 401, 403, 404}

\* Every byte of a login's body is kept, still to come, or lost with a body
\* that broke off; only a login attempt's body comes in chunks, and one too
\* large gets to their end only if it breaks off.
BodyAccounted ==
    /\ left \in Nat
    /\ total \in Nat
    /\ total <= MaxBody
    /\ stage = "idle" => total = 0 /\ left = request.length
    /\ stage = "body" => ~IsLogin
    /\ stage = "chunks" => /\ IsLogin /\ request.method = "POST"
                           /\ total + left = request.length
    /\ stage = "emit" /\ IsLogin /\ request.method = "POST"
          => request.length <= MaxBody \/ request.breaks

\* The inductive invariant behind the theorems below.
HTTPInv ==
    /\ request \in Requests
    /\ configured \in RawLimits
    /\ stage \in {"idle", "body", "chunks", "emit", "done"}
    /\ RecordedByStage
    /\ BodyAccounted
    /\ RecordedAsAnswered
    /\ TooLargeIsRefused

LEMMA RequestFacts ==
    ASSUME RequestAssumption, NEW r \in Requests
    PROVE  /\ r.length \in Nat
           /\ MaxBody \in Nat
  BY DEF Requests, RequestAssumption

\* A sequence of copies of one event.
LEMMA CopyFacts ==
    ASSUME NEW d, NEW s \in Seq({d})
    PROVE  /\ \A n \in DOMAIN s : s[n] = d /\ s[1] = d
           /\ Append(s, d) \in Seq({d})
           /\ Append(s, d) # <<>>
           /\ \A n \in DOMAIN Append(s, d) :
                 Append(s, d)[n] = d /\ Append(s, d)[1] = d
<1>1. ASSUME NEW t \in Seq({d}), NEW n \in DOMAIN t PROVE t[n] = d /\ t[1] = d
  <2>1. DOMAIN t = 1 .. Len(t) /\ Len(t) \in Nat
    OBVIOUS
  <2>2. 1 \in DOMAIN t
    BY <2>1
  <2> QED
    BY <2>2, ElementOfSeq, <2>1
<1>2. Append(s, d) \in Seq({d}) /\ Len(Append(s, d)) = Len(s) + 1
  BY AppendProperties
<1>3. Append(s, d) # <<>>
  BY <1>2, EmptySeq, LenProperties
<1> QED
  BY <1>1, <1>2, <1>3

LEMMA HTTPInitInv == RequestAssumption /\ HTTPInit => HTTPInv
<1> SUFFICES ASSUME RequestAssumption, HTTPInit PROVE HTTPInv
  OBVIOUS
<1>1. request.length \in Nat /\ MaxBody \in Nat
  BY RequestFacts DEF HTTPInit
<1> QED
  BY <1>1
     DEF HTTPInit, HTTPInv, RecordedByStage, BodyAccounted, RecordedAsAnswered,
         TooLargeIsRefused

-----------------------------------------------------------------------------
(* The steps of the handler.                                               *)

\* The answer of a handler that records nothing.
LEMMA RefusedStep ==
    ASSUME RequestAssumption, HTTPInv, LoginNotAllowed
    PROVE  HTTPInv'
<1>1. request.length \in Nat /\ MaxBody \in Nat
  BY RequestFacts DEF HTTPInv
<1>2. recorded' = <<>> /\ recorded' \in Seq({draft'})
  <2>1. recorded' = <<>>
    BY DEF HTTPInv, RecordedByStage, LoginNotAllowed
  <2>2. <<>> \in Seq({draft'})
    BY EmptySeq
  <2> QED
    BY <2>1, <2>2
<1> QED
  BY <1>1, <1>2
     DEF HTTPInv, RecordedByStage, BodyAccounted, RecordedAsAnswered,
         TooLargeIsRefused, IsLogin, LoginNotAllowed, Respond

\* emit_event goes on with a copy more, or raises with what is there.
LEMMA EmitStep ==
    ASSUME RequestAssumption, HTTPInv, RequestAddedUnanswered \/ RequestEmitRaises
    PROVE  HTTPInv'
<1>1. request.length \in Nat /\ MaxBody \in Nat
  BY RequestFacts DEF HTTPInv
<1>2. /\ stage = "emit" /\ recorded \in Seq({draft})
      /\ draft.status \in {200, 401, 403, 404}
  BY DEF HTTPInv, RecordedByStage, RequestAddedUnanswered, RequestEmitRaises
<1>3. CASE RequestAddedUnanswered
  <2>1. recorded' \in Seq({draft'}) /\ stage' = "emit" /\ UNCHANGED draft
    BY <1>2, <1>3, CopyFacts DEF RequestAddedUnanswered
  <2>2. RecordedByStage' /\ RecordedAsAnswered'
    BY <1>2, <2>1 DEF RecordedByStage, RecordedAsAnswered
  <2> QED
    BY <1>3, <2>1, <2>2
       DEF HTTPInv, BodyAccounted, TooLargeIsRefused, IsLogin, RequestAddedUnanswered
<1>4. CASE RequestEmitRaises
  <2>1. /\ stage' = "done" /\ answer' = 500 /\ UNCHANGED <<draft, recorded>>
        /\ \A n \in DOMAIN recorded : recorded[n] = draft /\ recorded[1] = draft
    BY <1>2, <1>4, CopyFacts DEF RequestEmitRaises, Respond
  <2>2. RecordedByStage' /\ RecordedAsAnswered'
    BY <1>2, <2>1 DEF RecordedByStage, RecordedAsAnswered
  <2> QED
    BY <1>1, <1>4, <2>1, <2>2
       DEF HTTPInv, BodyAccounted, TooLargeIsRefused, IsLogin, RequestEmitRaises
<1> QED
  BY <1>3, <1>4

\* The handler begins to read, or to emit.
LEMMA BeginStep ==
    ASSUME RequestAssumption, HTTPInv, HandleRequest \/ LoginForm
    PROVE  HTTPInv'
<1>1. request.length \in Nat /\ MaxBody \in Nat
  BY RequestFacts DEF HTTPInv
<1>2. recorded' = <<>> /\ recorded' \in Seq({draft'})
  <2>1. recorded' = <<>>
    BY DEF HTTPInv, RecordedByStage, HandleRequest, LoginForm
  <2>2. <<>> \in Seq({draft'})
    BY EmptySeq
  <2> QED
    BY <2>1, <2>2
<1>3. CASE HandleRequest
  BY <1>1, <1>2, <1>3
     DEF HTTPInv, RecordedByStage, BodyAccounted, RecordedAsAnswered,
         TooLargeIsRefused, IsLogin, HandleRequest
<1>4. CASE LoginForm
  <2>1. draft'.status = 200 /\ stage' = "emit"
    BY <1>4 DEF LoginForm, Emit, NoDraft
  <2> QED
    BY <1>1, <1>2, <1>4, <2>1
       DEF HTTPInv, RecordedByStage, BodyAccounted, RecordedAsAnswered,
           TooLargeIsRefused, IsLogin, LoginForm
<1> QED
  BY <1>3, <1>4

LEMMA BodyReadStep ==
    ASSUME RequestAssumption, HTTPInv, BodyRead
    PROVE  HTTPInv'
<1> USE DEF BodyRead, Emit
<1>1. draft'.status = ResponseStatus
  BY DEF NoDraft
<1>2. ResponseStatus \in {200, 401, 403, 404}
  BY DEF ResponseStatus
<1>3. recorded' = <<>> /\ recorded' \in Seq({draft'})
  <2>1. recorded' = <<>>
    BY DEF HTTPInv, RecordedByStage
  <2>2. <<>> \in Seq({draft'})
    BY EmptySeq
  <2> QED
    BY <2>1, <2>2
<1> QED
  BY <1>1, <1>2, <1>3
     DEF HTTPInv, RecordedByStage, BodyAccounted, RecordedAsAnswered,
         TooLargeIsRefused, IsLogin

LEMMA LoginPostStep ==
    ASSUME RequestAssumption, HTTPInv, LoginPost
    PROVE  HTTPInv'
<1>1. request.length \in Nat /\ MaxBody \in Nat
  BY RequestFacts DEF HTTPInv
<1>2. recorded' = <<>> /\ recorded' \in Seq({draft'})
  <2>1. recorded' = <<>>
    BY DEF HTTPInv, RecordedByStage, LoginPost
  <2>2. <<>> \in Seq({draft'})
    BY EmptySeq
  <2> QED
    BY <2>1, <2>2
<1> QED
  BY <1>1, <1>2
     DEF HTTPInv, RecordedByStage, BodyAccounted, RecordedAsAnswered,
         TooLargeIsRefused, IsLogin, LoginPost, Respond

\* A chunk is kept only when the limit allows it; what does not fit shows that
\* the body is too large.
LEMMA LoginChunkStep ==
    ASSUME RequestAssumption, HTTPInv, NEW n \in 1 .. ChunkSize, LoginChunk(n)
    PROVE  HTTPInv'
<1>1. request.length \in Nat /\ MaxBody \in Nat
  BY RequestFacts DEF HTTPInv
<1>2. n \in Nat /\ n <= left /\ total + left = request.length
  BY DEF HTTPInv, BodyAccounted, LoginChunk, RequestAssumption
<1>3. recorded' = <<>> /\ recorded' \in Seq({draft'})
  <2>1. recorded' = <<>>
    BY DEF HTTPInv, RecordedByStage, LoginChunk
  <2>2. <<>> \in Seq({draft'})
    BY EmptySeq
  <2> QED
    BY <2>1, <2>2
<1>4. RecordedByStage'
  BY <1>3 DEF RecordedByStage, LoginChunk, Respond
<1>5. RecordedAsAnswered'
  BY <1>3 DEF RecordedAsAnswered, LoginChunk, Respond
<1>6. request' \in Requests /\ configured' \in RawLimits /\ stage' \in {"chunks", "done"}
  BY DEF HTTPInv, LoginChunk, Respond
<1> USE DEF HTTPInv, BodyAccounted, TooLargeIsRefused, IsLogin, LoginChunk, Respond
<1>7. CASE total + n > MaxBody
  <2>1. stage' = "done" /\ answer' = 413 /\ total' = total /\ left' = left - n
    BY <1>7
  <2>2. stage = "chunks" /\ left \in Nat /\ total \in Nat
    OBVIOUS
  <2>3. request.length > MaxBody /\ request' = request /\ total <= MaxBody
    BY <1>1, <1>2, <1>7, <2>2
  <2>4. IsLogin /\ request.method = "POST"
    BY <2>2
  <2>5. BodyAccounted' /\ TooLargeIsRefused'
    BY <1>1, <1>2, <2>1, <2>2, <2>3, <2>4
  <2> QED
    BY <1>4, <1>5, <1>6, <2>5
<1>8. CASE total + n <= MaxBody
  BY <1>1, <1>2, <1>4, <1>5, <1>6, <1>8
<1> QED
  BY <1>1, <1>2, <1>7, <1>8

LEMMA LoginEventStep ==
    ASSUME RequestAssumption, HTTPInv, LoginBodyEnds \/ LoginBodyBreaks
    PROVE  HTTPInv'
<1>1. request.length \in Nat /\ MaxBody \in Nat
  BY RequestFacts DEF HTTPInv
<1>2. draft'.status = 401 /\ stage' = "emit"
  BY DEF LoginBodyEnds, LoginBodyBreaks, LoginAttempt, Emit
<1>3. recorded' = <<>> /\ recorded' \in Seq({draft'})
  <2>1. recorded' = <<>>
    BY DEF HTTPInv, RecordedByStage, LoginBodyEnds, LoginBodyBreaks
  <2>2. <<>> \in Seq({draft'})
    BY EmptySeq
  <2> QED
    BY <2>1, <2>2
<1>4. RecordedByStage' /\ RecordedAsAnswered'
  BY <1>2, <1>3 DEF RecordedByStage, RecordedAsAnswered
<1>5. BodyAccounted' /\ TooLargeIsRefused'
  BY <1>1, <1>2
     DEF HTTPInv, BodyAccounted, TooLargeIsRefused, IsLogin, LoginBodyEnds, LoginBodyBreaks
<1> QED
  BY <1>2, <1>4, <1>5 DEF HTTPInv, LoginBodyEnds, LoginBodyBreaks

LEMMA HTTPEmittedStep ==
    ASSUME RequestAssumption, HTTPInv, RequestEmitted
    PROVE  HTTPInv'
<1> USE DEF RequestEmitted, Respond
<1>1. /\ recorded' \in Seq({draft}) /\ recorded' # <<>> /\ answer' = draft.status
      /\ \A n \in DOMAIN recorded' : recorded'[n] = draft /\ recorded'[1] = draft
  BY CopyFacts DEF HTTPInv, RecordedByStage
<1>2. draft.status \in {200, 401, 403, 404}
  BY DEF HTTPInv, RecordedByStage
<1>3. RecordedAsAnswered' /\ RecordedByStage'
  BY <1>1, <1>2 DEF RecordedAsAnswered, RecordedByStage
<1>4. TooLargeIsRefused'
  <2>1. request.length \in Nat /\ MaxBody \in Nat
    BY RequestFacts DEF HTTPInv
  <2> QED
    BY <1>1, <1>2, <2>1 DEF HTTPInv, BodyAccounted, TooLargeIsRefused, IsLogin
<1> QED
  BY <1>3, <1>4 DEF HTTPInv, BodyAccounted, IsLogin

LEMMA HTTPStepInv == RequestAssumption /\ HTTPInv /\ [HTTPNext]_httpVars => HTTPInv'
<1> SUFFICES ASSUME RequestAssumption, HTTPInv, [HTTPNext]_httpVars PROVE HTTPInv'
  OBVIOUS
<1>1. CASE LoginNotAllowed \/ RequestAddedUnanswered \/ RequestEmitRaises
  BY <1>1, RefusedStep, EmitStep
<1>2. CASE HandleRequest \/ LoginForm
  BY <1>2, BeginStep
<1>3. CASE BodyRead
  BY <1>3, BodyReadStep
<1>4. CASE LoginPost
  BY <1>4, LoginPostStep
<1>5. CASE \E n \in 1 .. ChunkSize : LoginChunk(n)
  BY <1>5, LoginChunkStep
<1>6. CASE LoginBodyEnds \/ LoginBodyBreaks
  BY <1>6, LoginEventStep
<1>7. CASE RequestEmitted
  BY <1>7, HTTPEmittedStep
<1>8. CASE UNCHANGED httpVars
  BY <1>8 DEF httpVars, HTTPInv, RecordedByStage, BodyAccounted, RecordedAsAnswered,
              TooLargeIsRefused, IsLogin
<1> QED
  BY <1>1, <1>2, <1>3, <1>4, <1>5, <1>6, <1>7, <1>8 DEF HTTPNext

LEMMA RequestInvariant == HTTPSpec => []HTTPInv
<1>1. HTTPInit => HTTPInv
  BY SessionsAssumption, HTTPInitInv
<1>2. HTTPInv /\ [HTTPNext]_httpVars => HTTPInv'
  BY SessionsAssumption, HTTPStepInv
<1> QED
  BY <1>1, <1>2, PTL DEF HTTPSpec

-----------------------------------------------------------------------------
(* The credentials of an event.                                            *)

\* What CredentialsAsSent says of a recorded event, of one being emitted.
DraftAsSent ==
    stage = "emit" =>
        \A field \in {"email", "password"} :
            LET whole == request.form /\ ~request.breaks
            IN /\ draft[field] > 0 => whole /\ total = request.length
               /\ draft.type = "http_login_attempt" /\ whole =>
                     draft[field] = Least(request[field], CredentialLimit)

LEMMA LeastFacts ==
    ASSUME NEW a \in Nat, NEW b \in Nat
    PROVE  Least(a, b) = IF a <= b THEN a ELSE b
<1>1. \E x \in {a, b} : \A y \in {a, b} : x <= y
  OBVIOUS
<1>2. /\ Least(a, b) \in {a, b}
      /\ \A y \in {a, b} : Least(a, b) <= y
  BY <1>1 DEF Least, Min
<1> QED
  BY <1>2

\* The limit is the configured one or the default, and lets a character through.
LEMMA LimitFacts ==
    ASSUME RequestAssumption, configured \in RawLimits
    PROVE  /\ CredentialLimit \in 1 .. MaxLimit
           /\ CredentialLimit = IF 1 <= configured /\ configured <= MaxLimit
                                THEN configured ELSE DefaultLimit
<1>1. configured \in Int /\ MaxLimit \in Nat /\ DefaultLimit \in 1 .. MaxLimit
  BY DEF RequestAssumption
<1> QED
  BY <1>1 DEF CredentialLimit

LEMMA FieldFacts ==
    ASSUME RequestAssumption, NEW r \in Requests, NEW field \in {"email", "password"}
    PROVE  r[field] \in Nat
<1>1. r.email \in Nat /\ r.password \in Nat
  BY DEF Requests, RequestAssumption
<1> QED
  BY <1>1

\* _extract_credentials: nothing, or the whole field up to the limit.
LEMMA CredentialFacts ==
    ASSUME RequestAssumption, request \in Requests, configured \in RawLimits,
           NEW size \in Nat, NEW field \in {"email", "password"}
    PROVE  /\ Credential(field, size) \in Nat
           /\ Credential(field, size) > 0 => size = request.length /\ request.form
           /\ size = request.length /\ request.form =>
                 Credential(field, size) = Least(request[field], CredentialLimit)
<1>1. request[field] \in Nat /\ CredentialLimit \in Nat
  BY FieldFacts, LimitFacts DEF RequestAssumption
<1>2. Least(request[field], CredentialLimit) \in Nat
  BY <1>1, LeastFacts
<1> QED
  BY <1>2 DEF Credential

\* A login attempt is emitted with what its body says.
LEMMA LoginDraftStep ==
    ASSUME RequestAssumption, HTTPInv, LoginBodyEnds \/ LoginBodyBreaks
    PROVE  DraftAsSent'
<1> DEFINE size == IF request.breaks THEN 0 ELSE total
<1>1. /\ request \in Requests /\ size \in Nat /\ request.length \in Nat
      /\ request' = request /\ total' = total
      /\ configured \in RawLimits /\ configured' = configured
      /\ draft'.type = "http_login_attempt"
      /\ draft'.email = Credential("email", size)
      /\ draft'.password = Credential("password", size)
  <2>1. request \in Requests /\ total \in Nat /\ configured \in RawLimits
    BY DEF HTTPInv, BodyAccounted
  <2>2. request.length \in Nat
    BY <2>1, RequestFacts
  <2> QED
    BY <2>1, <2>2 DEF LoginBodyEnds, LoginBodyBreaks, LoginAttempt, Emit
<1>2. /\ ~request.breaks => total = request.length
      /\ request.breaks => request.length > 0
  <2>1. stage = "chunks" /\ total + left = request.length /\ total \in Nat
    BY DEF HTTPInv, BodyAccounted, LoginBodyEnds, LoginBodyBreaks
  <2>2. ~request.breaks => left = 0
    BY DEF LoginBodyEnds, LoginBodyBreaks
  <2>3. request.breaks => request.length > 0
    BY <1>1 DEF Requests
  <2> QED
    BY <2>1, <2>2, <2>3
<1>3. CredentialLimit' = CredentialLimit
  BY <1>1 DEF CredentialLimit
<1>4. ASSUME NEW field \in {"email", "password"}
      PROVE  /\ draft'[field] > 0 => size = request.length /\ request.form
             /\ size = request.length /\ request.form =>
                   draft'[field] = Least(request[field], CredentialLimit)
  <2>1. draft'[field] = Credential(field, size)
    BY <1>1
  <2> QED
    BY <1>1, <2>1, CredentialFacts
<1>5. size = request.length <=> ~request.breaks
  BY <1>1, <1>2
<1> QED
  BY <1>1, <1>2, <1>3, <1>4, <1>5 DEF DraftAsSent

LEMMA CredentialsStep ==
    ASSUME RequestAssumption, HTTPInv, DraftAsSent, CredentialsAsSent, [HTTPNext]_httpVars
    PROVE  DraftAsSent' /\ CredentialsAsSent'
<1> USE DEF HTTPInv, RecordedByStage
<1>1. CASE RequestEmitted \/ RequestAddedUnanswered
  <2>1. /\ stage = "emit" /\ recorded \in Seq({draft}) /\ recorded' = Append(recorded, draft)
        /\ UNCHANGED <<request, configured, total, draft>> /\ stage' \in {"emit", "done"}
    BY <1>1 DEF RequestEmitted, RequestAddedUnanswered, Respond
  <2>2. \A n \in DOMAIN recorded' : recorded'[n] = draft
    BY <2>1, CopyFacts
  <2>3. CredentialLimit = IF 1 <= configured /\ configured <= MaxLimit
                          THEN configured ELSE DefaultLimit
    BY LimitFacts
  <2>4. CredentialsAsSent'
    BY <2>1, <2>2, <2>3 DEF DraftAsSent, CredentialsAsSent
  <2>5. DraftAsSent'
    BY <2>1 DEF DraftAsSent, CredentialLimit
  <2> QED
    BY <2>4, <2>5
<1>2. CASE LoginBodyEnds \/ LoginBodyBreaks
  <2>1. recorded' = <<>>
    BY <1>2 DEF LoginBodyEnds, LoginBodyBreaks
  <2> QED
    BY <1>2, <2>1, LoginDraftStep DEF CredentialsAsSent
<1>3. CASE BodyRead \/ LoginForm
  <2>1. /\ draft'.email = 0 /\ draft'.password = 0 /\ draft'.type = "http_request"
        /\ recorded' = <<>> /\ request' = request
    <3>1. CASE BodyRead
      BY <3>1 DEF BodyRead, Emit, NoDraft
    <3>2. CASE LoginForm
      BY <3>2 DEF LoginForm, Emit, NoDraft
    <3> QED
      BY <1>3, <3>1, <3>2
  <2>2. \A field \in {"email", "password"} : draft'[field] = 0
    BY <2>1
  <2> QED
    BY <2>1, <2>2 DEF DraftAsSent, CredentialsAsSent
<1>4. CASE HandleRequest \/ LoginPost \/ \E n \in 1 .. ChunkSize : LoginChunk(n)
  BY <1>4 DEF HandleRequest, LoginPost, LoginChunk, Respond, DraftAsSent, CredentialsAsSent
<1>5. CASE LoginNotAllowed \/ RequestEmitRaises
  BY <1>5 DEF LoginNotAllowed, RequestEmitRaises, Respond, DraftAsSent, CredentialsAsSent
<1>6. CASE UNCHANGED httpVars
  BY <1>6 DEF httpVars, DraftAsSent, CredentialsAsSent, CredentialLimit
<1> QED
  BY <1>1, <1>2, <1>3, <1>4, <1>5, <1>6 DEF HTTPNext

-----------------------------------------------------------------------------
(* The theorems.                                                           *)

\* _handle_request and _handle_login record a request as one event, with the
\* status they answer, before they answer it; 405 and 413 are answered to what is
\* not recorded, and 500 when emit_event raised, whether or not one of its
\* earlier attempts had added the event.
THEOREM RequestRecorded == HTTPSpec => []RecordedAsAnswered
<1>1. HTTPInv => RecordedAsAnswered
  BY DEF HTTPInv
<1> QED
  BY <1>1, RequestInvariant, PTL

\* _read_body_limited refuses exactly the bodies beyond MAX_BODY_SIZE, whatever
\* the length of the chunks they come in, and holds no more than that; nothing
\* but a login attempt is refused for its size.
THEOREM LargeRefused == HTTPSpec => []TooLargeIsRefused
<1>1. HTTPInv => TooLargeIsRefused
  BY DEF HTTPInv
<1> QED
  BY <1>1, RequestInvariant, PTL

\* Whatever integer is configured as the limit and however a login arrives, the
\* event has the credentials that were sent, cut to the configured limit or,
\* where that is not between 1 and 4096, to the default; and none when the form
\* did not arrive in full (CredentialSettings, _extract_credentials).
THEOREM CredentialsRecorded == HTTPSpec => []CredentialsAsSent
<1>1. HTTPInit => DraftAsSent /\ CredentialsAsSent
  BY DEF HTTPInit, DraftAsSent, CredentialsAsSent
<1>2. HTTPInv /\ DraftAsSent /\ CredentialsAsSent /\ [HTTPNext]_httpVars
        => DraftAsSent' /\ CredentialsAsSent'
  BY SessionsAssumption, CredentialsStep
<1> QED
  BY <1>1, <1>2, RequestInvariant, PTL DEF HTTPSpec

-----------------------------------------------------------------------------
(* The types of HTTPRequest.                                               *)

\* The values an event is built from.
LEMMA EventValues ==
    ASSUME RequestAssumption, request \in Requests, configured \in RawLimits,
           NEW size \in Nat
    PROVE  /\ Preview(size) \in Nat
           /\ Credential("email", size) \in Nat
           /\ Credential("password", size) \in Nat
           /\ ResponseStatus \in Nat
<1>1. PreviewLimit \in Nat
  BY DEF RequestAssumption
<1>2. Preview(size) \in Nat
  BY <1>1, LeastFacts DEF Preview
<1>3. Credential("email", size) \in Nat /\ Credential("password", size) \in Nat
  BY CredentialFacts
<1>4. ResponseStatus \in Nat
  BY DEF ResponseStatus
<1> QED
  BY <1>2, <1>3, <1>4

\* Every event that is built is one of Drafts.
LEMMA DraftTyped ==
    ASSUME RequestAssumption, HTTPInv, draft \in Drafts, [HTTPNext]_httpVars
    PROVE  draft' \in Drafts
<1>1. /\ request \in Requests /\ total \in Nat /\ request.length \in Nat
      /\ configured \in RawLimits
  BY RequestFacts DEF HTTPInv, BodyAccounted
<1>2. CASE BodyRead
  <2>1. Preview(request.length) \in Nat /\ ResponseStatus \in Nat
    BY <1>1, EventValues
  <2> QED
    BY <1>2, <2>1 DEF BodyRead, Emit, NoDraft, Drafts
<1>3. CASE LoginForm
  BY <1>3 DEF LoginForm, Emit, NoDraft, Drafts
<1>4. CASE LoginBodyEnds \/ LoginBodyBreaks
  <2> DEFINE attempt(size) == [type |-> "http_login_attempt", status |-> 401,
                               preview |-> Preview(size),
                               email |-> Credential("email", size),
                               password |-> Credential("password", size)]
  <2>1. \A size \in Nat : attempt(size) \in Drafts
    BY <1>1, EventValues DEF Drafts
  <2>2. draft' = attempt(total) \/ draft' = attempt(0)
    BY <1>4 DEF LoginBodyEnds, LoginBodyBreaks, LoginAttempt, Emit
  <2> HIDE DEF attempt
  <2> QED
    BY <1>1, <2>1, <2>2
<1>5. CASE UNCHANGED draft
  BY <1>5
<1> QED
  BY <1>2, <1>3, <1>4, <1>5
     DEF HTTPNext, httpVars, HandleRequest, LoginNotAllowed, LoginPost, LoginChunk,
         RequestEmitted, RequestAddedUnanswered,
             RequestEmitRaises

\* The answer is one of those the handlers know, and the events that are kept
\* are of the kind that is emitted.
LEMMA HTTPTypedStep ==
    ASSUME RequestAssumption, HTTPInv, HTTPTypeOK, [HTTPNext]_httpVars
    PROVE  HTTPTypeOK'
<1>1. HTTPInv'
  BY HTTPStepInv
<1>2. request' \in Requests /\ stage' \in {"idle", "body", "chunks", "emit", "done"}
  BY <1>1 DEF HTTPInv
<1>3. total' \in 0 .. MaxBody
  BY <1>1 DEF HTTPInv, BodyAccounted, RequestAssumption
<1>4. left' \in 0 .. MaxBody + 2
  <2>1. left' \in Nat
    BY <1>1 DEF HTTPInv, BodyAccounted
  <2>2. left' <= left
    <3>1. CASE \E n \in 1 .. ChunkSize : LoginChunk(n)
      BY <3>1 DEF LoginChunk, HTTPTypeOK, RequestAssumption
    <3>2. CASE UNCHANGED left
      BY <3>2 DEF HTTPTypeOK
    <3>3. CASE left' = 0
      BY <3>3 DEF HTTPTypeOK
    <3> QED
      BY <3>1, <3>2, <3>3
         DEF HTTPNext, httpVars, HandleRequest, BodyRead, LoginNotAllowed, LoginForm,
             LoginPost, LoginBodyEnds, LoginBodyBreaks, RequestEmitted, RequestAddedUnanswered,
             RequestEmitRaises
  <2> QED
    BY <2>1, <2>2 DEF HTTPTypeOK, RequestAssumption
<1>5. draft' \in Drafts
  BY DraftTyped DEF HTTPTypeOK
<1>6. answer' \in {0, 200, 401, 403, 404, 405, 413, 500}
  <2>1. CASE RequestEmitted
    BY <2>1 DEF RequestEmitted, Respond, HTTPInv, RecordedByStage
  <2>2. CASE ~RequestEmitted
    BY <2>2
       DEF HTTPNext, httpVars, HandleRequest, BodyRead, LoginNotAllowed, LoginForm,
           LoginPost, LoginChunk, LoginBodyEnds, LoginBodyBreaks, RequestAddedUnanswered,
           RequestEmitRaises, Respond, HTTPTypeOK
  <2> QED
    BY <2>1, <2>2
<1>7. recorded' \in Seq(Drafts)
  <2>1. CASE RequestEmitted \/ RequestAddedUnanswered
    BY <2>1 DEF RequestEmitted, RequestAddedUnanswered, HTTPTypeOK
  <2>2. CASE UNCHANGED recorded
    BY <2>2 DEF HTTPTypeOK
  <2> QED
    BY <2>1, <2>2
       DEF HTTPNext, httpVars, HandleRequest, BodyRead, LoginNotAllowed, LoginForm,
           LoginPost, LoginChunk, LoginBodyEnds, LoginBodyBreaks, RequestEmitRaises
<1>8. configured' \in RawLimits
  BY <1>1 DEF HTTPInv
<1> QED
  BY <1>2, <1>3, <1>4, <1>5, <1>6, <1>7, <1>8 DEF HTTPTypeOK

\* Every variable of a request keeps its type.
THEOREM RequestTypeCorrect == HTTPSpec => []HTTPTypeOK
<1>1. HTTPInit => HTTPTypeOK
  <2> SUFFICES ASSUME HTTPInit PROVE HTTPTypeOK
    OBVIOUS
  <2>1. request.length \in 0 .. MaxBody + 2
    BY DEF HTTPInit, Requests
  <2>2. 0 \in 0 .. MaxBody
    BY SessionsAssumption DEF RequestAssumption
  <2>3. NoDraft \in Drafts /\ <<>> \in Seq(Drafts)
    BY EmptySeq DEF NoDraft, Drafts
  <2> QED
    BY <2>1, <2>2, <2>3 DEF HTTPInit, HTTPTypeOK
<1>2. HTTPInv /\ HTTPTypeOK /\ [HTTPNext]_httpVars => HTTPTypeOK'
  BY SessionsAssumption, HTTPTypedStep
<1> QED
  BY <1>1, <1>2, RequestInvariant, PTL DEF HTTPSpec

-----------------------------------------------------------------------------
(* The composition.                                                        *)

\* A session is a behaviour of both: what holds of either holds of it.
THEOREM ComposesSessions == Spec => SSHSpec /\ HTTPSpec
<1>1. Init => SSHInit /\ HTTPInit
  BY DEF Init
<1>2. [SSHStep \/ HTTPStep]_<<sshVars, httpVars>> => [SSHNext]_sshVars
  BY DEF SSHStep, HTTPStep
<1>3. [SSHStep \/ HTTPStep]_<<sshVars, httpVars>> => [HTTPNext]_httpVars
  BY DEF SSHStep, HTTPStep
<1> QED
  BY <1>1, <1>2, <1>3, PTL DEF Spec, SSHSpec, HTTPSpec

\* The state of the session with the honeypot process keeps its type.
THEOREM TypeCorrect == Spec => []TypeOK
<1>1. SSHTypeOK /\ HTTPTypeOK => TypeOK
  BY DEF TypeOK
<1> QED
  BY <1>1, ComposesSessions, SessionTypeCorrect, RequestTypeCorrect, PTL

=============================================================================
