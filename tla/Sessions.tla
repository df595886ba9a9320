-------------------------------- MODULE Sessions --------------------------------
(***************************************************************************)
(* One session with the honeypot process: an SSH connection or an HTTP     *)
(* request.  Sessions share nothing but the emit_event of their honeypots  *)
(* (HoneypotBuffer), so one at a time shows all they do.                   *)
(***************************************************************************)
EXTENDS SSHSession, HTTPRequest

ASSUME SessionsAssumption == SessionAssumption /\ RequestAssumption

Init == SSHInit /\ HTTPInit

\* Each behaviour is about one of the two; of the requests, the empty ones
\* stand for "none".
SSHStep ==
    /\ request.length = 0
    /\ request.path = "/"
    /\ stage = "idle"
    /\ SSHNext
    /\ UNCHANGED httpVars

HTTPStep ==
    /\ phase = "new"
    /\ HTTPNext
    /\ UNCHANGED sshVars

Spec ==
    /\ Init
    /\ [][SSHStep \/ HTTPStep]_<<sshVars, httpVars>>
    /\ SSHFairness

\* The state of a session (SSHSession, HTTPRequest).
TypeOK == SSHTypeOK /\ HTTPTypeOK
=============================================================================
