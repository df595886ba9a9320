------------------------------ MODULE SSHSession ------------------------------
(***************************************************************************)
(* One connection to the SSH honeypot: the callbacks of SSHHoneypotServer  *)
(* (honeypot/ssh.py) as asyncssh calls them.                               *)
(*                                                                         *)
(* asyncssh runs validate_password as a task of the connection.  It        *)
(* cancels that task when the client sends the next request before the     *)
(* answer, and when the connection is lost.  connection_lost is a plain    *)
(* function: what it wants to record becomes a task of its own, which      *)
(* nobody cancels before the process ends.                                 *)
(*                                                                         *)
(* emit_event is modelled by its outcome (HoneypotBuffer has the steps):   *)
(* the event is kept, in the stream or the buffer, or the call raises.     *)
(***************************************************************************)
EXTENDS Naturals, Sequences

CONSTANTS
    Users,          \* user names a client may send
    NoUser,         \* the empty user name of a client that sent none
    MaxAttempts     \* bound: password requests of one connection

\* What is assumed of the constants.
SessionAssumption ==
    /\ NoUser \notin Users
    /\ MaxAttempts \in Nat

VARIABLES
    phase,          \* the connection: new, open or lost
    username,       \* _username
    knowsVersion,   \* _client_version is not empty
    attempts,       \* _attempts
    asked,        \* a password arrived, validate_password is yet to run
    validating,     \* the event validate_password awaits emit_event for, or 0
    events,         \* the events built for this connection, in order
    answered,       \* the attempts the client was told the failure of
    alive           \* the process

sshVars == <<phase, username, knowsVersion, attempts, asked, validating,
          events, answered, alive>>

\* emitting: emit_event is running.  cut: it was cancelled before the event
\* was anywhere.  raised: it raised; nothing is said of the attempts before,
\* one of which may have added the event and lost its reply.
Status == {"emitting", "kept", "raised", "cut"}
EventTypes == {"ssh_login_attempt", "ssh_connection"}

SSHTypeOK ==
    /\ phase \in {"new", "open", "lost"}
    /\ username \in Users \cup {NoUser}
    /\ knowsVersion \in BOOLEAN
    /\ attempts \in 0 .. MaxAttempts
    /\ asked \in BOOLEAN
    /\ validating \in 0 .. Len(events)
    /\ events \in Seq([type : EventTypes, user : Users \cup {NoUser},
                       version : BOOLEAN, status : Status])
    /\ answered \subseteq DOMAIN events
    /\ alive \in BOOLEAN

SSHInit ==
    /\ phase = "new"
    /\ username = NoUser
    /\ knowsVersion = FALSE
    /\ attempts = 0
    /\ asked = FALSE
    /\ validating = 0
    /\ events = <<>>
    /\ answered = {}
    /\ alive = TRUE

-----------------------------------------------------------------------------
(* Building blocks.                                                        *)

\* The task of validate_password is cancelled, if there is one: its event has
\* got as far as the stream or the buffer, or it is gone.
CancelValidation(log) ==
    /\ validating' = 0
    /\ \E s \in {"kept", "cut"} :
          events' = [n \in DOMAIN log |->
                       IF n = validating THEN [log[n] EXCEPT !.status = s]
                                         ELSE log[n]]

NewEvent(type, version) ==
    [type |-> type, user |-> username, version |-> version, status |-> "emitting"]

-----------------------------------------------------------------------------
(* asyncssh calls back.                                                    *)

\* connection_made: the version exchange is usually still to come.
ConnectionMade ==
    /\ phase = "new"
    /\ phase' = "open"
    /\ knowsVersion' \in BOOLEAN
    /\ UNCHANGED <<username, attempts, asked, validating, events, answered, alive>>

\* begin_auth(u): called again when the client changes the user name.
BeginAuth(u) ==
    /\ phase = "open"
    /\ username # u
    /\ username' = u
    /\ asked' = FALSE
    /\ CancelValidation(events)
    /\ UNCHANGED <<phase, knowsVersion, attempts, answered, alive>>

\* A password arrives; validate_password will run as a task.
PasswordRequest ==
    /\ phase = "open"
    /\ username # NoUser
    /\ ~asked
    /\ attempts < MaxAttempts
    /\ asked' = TRUE
    /\ CancelValidation(events)
    /\ UNCHANGED <<phase, username, knowsVersion, attempts, answered, alive>>

\* Mutant: the event is recorded by a task of its own, as in connection_lost,
\* and the client is answered at once.
ValidatePasswordAtOnce ==
    /\ phase = "open"
    /\ asked
    /\ asked' = FALSE
    /\ attempts' = attempts + 1
    /\ knowsVersion' = TRUE
    /\ events' = Append(events, NewEvent("ssh_login_attempt", TRUE))
    /\ answered' = answered \cup {Len(events) + 1}
    /\ UNCHANGED <<phase, username, validating, alive>>

\* validate_password up to its await.
ValidatePassword ==
    /\ phase = "open"
    /\ asked
    /\ asked' = FALSE
    /\ attempts' = attempts + 1
    /\ knowsVersion' = TRUE
    /\ events' = Append(events, NewEvent("ssh_login_attempt", TRUE))
    /\ validating' = Len(events) + 1
    /\ UNCHANGED <<phase, username, answered, alive>>

\* Mutant: every connection is recorded when it ends.
ConnectionLostAlways ==
    /\ phase = "open"
    /\ phase' = "lost"
    /\ asked' = FALSE
    /\ CancelValidation(Append(events, NewEvent("ssh_connection", knowsVersion)))
    /\ UNCHANGED <<username, knowsVersion, attempts, answered, alive>>

\* Mutant: a client that named a user is taken for one that tried to log in.
ConnectionLostUnnamed ==
    /\ phase = "open"
    /\ phase' = "lost"
    /\ asked' = FALSE
    /\ CancelValidation(IF username # NoUser THEN events
                        ELSE Append(events, NewEvent("ssh_connection", knowsVersion)))
    /\ UNCHANGED <<username, knowsVersion, attempts, answered, alive>>

\* connection_lost: the client hangs up or the login timer runs out.
ConnectionLost ==
    /\ phase = "open"
    /\ phase' = "lost"
    /\ asked' = FALSE
    /\ CancelValidation(IF attempts # 0 THEN events
                        ELSE Append(events, NewEvent("ssh_connection", knowsVersion)))
    /\ UNCHANGED <<username, knowsVersion, attempts, answered, alive>>

-----------------------------------------------------------------------------
(* emit_event ends, and the process.                                       *)

\* emit_event returns: the event is kept.  validate_password goes on and
\* answers False, also after the last attempt it allows.
Emitted(n) ==
    /\ alive
    /\ events[n].status = "emitting"
    /\ events' = [events EXCEPT ![n].status = "kept"]
    /\ IF n = validating
       THEN validating' = 0 /\ answered' = answered \cup {n}
       ELSE UNCHANGED <<validating, answered>>
    /\ UNCHANGED <<phase, username, knowsVersion, attempts, asked, alive>>

\* emit_event raises: asyncssh closes the connection without an answer, and
\* connection_lost runs before anything else of the connection.
EmitRaises(n) ==
    /\ alive
    /\ events[n].status = "emitting"
    /\ events' = [events EXCEPT ![n].status = "raised"]
    /\ IF n = validating
       THEN phase' = "lost" /\ validating' = 0 /\ asked' = FALSE
       ELSE UNCHANGED <<phase, validating, asked>>
    /\ UNCHANGED <<username, knowsVersion, attempts, answered, alive>>

\* The process ends: asyncio.run cancels every task that is left.
ProcessEnds ==
    /\ alive
    /\ alive' = FALSE
    /\ phase' = "lost"
    /\ asked' = FALSE
    /\ validating' = 0
    /\ \E kept \in SUBSET DOMAIN events :
          events' = [n \in DOMAIN events |->
                       IF events[n].status # "emitting" THEN events[n]
                       ELSE [events[n] EXCEPT !.status =
                                IF n \in kept THEN "kept" ELSE "cut"]]
    /\ UNCHANGED <<username, knowsVersion, attempts, answered>>

SSHNext ==
    \/ ConnectionMade \/ PasswordRequest \/ ValidatePassword \/ ConnectionLost
    \/ \E u \in Users : BeginAuth(u)
    \/ \E n \in DOMAIN events : Emitted(n) \/ EmitRaises(n)
    \/ ProcessEnds

\* The login timer (login_timeout) ends every connection; scheduled tasks run
\* and emit_event ends, one way or the other.
SSHFairness ==
    /\ WF_sshVars(ConnectionLost)
    /\ WF_sshVars(ValidatePassword)
    /\ WF_sshVars(\E n \in DOMAIN events : Emitted(n) \/ EmitRaises(n))

SSHSpec == SSHInit /\ [][SSHNext]_sshVars

-----------------------------------------------------------------------------
(* Correctness.                                                            *)

\* connection_lost, "prevents double recording": a connection is recorded by
\* its login attempts or by one ssh_connection event, never by both, however
\* requests, answers and the end of the connection overlap.
OneKindOfTrace ==
    \A m, n \in DOMAIN events :
        m # n => events[m].type = "ssh_login_attempt"
                 /\ events[n].type = "ssh_login_attempt"

\* A client that was told its password is wrong has been recorded: whoever
\* waits for the answer cannot get away unseen.  Only the attempts of a client
\* that did not wait may be cut.
AnsweredIsKept == \A n \in answered : events[n].status = "kept"

\* "all attempts are recorded" (ssh.py:4), as far as it holds: a connection
\* ends, and then it has a kept event, or emit_event raised, or the process
\* ended, or its attempt was cut while it was being emitted.  The counter says
\* "recorded" from the start of validate_password (ssh.py:202), so a connection
\* lost during the await leaves nothing.
Traced ==
    /\ phase = "lost"
    /\ \/ ~alive
       \/ \E n \in DOMAIN events :
             \/ events[n].status \in {"kept", "raised"}
             \/ events[n].type = "ssh_login_attempt" /\ events[n].status = "cut"

EverySessionTraced == phase = "open" ~> Traced

=============================================================================
