------------------------------ MODULE HTTPRequest ------------------------------
(***************************************************************************)
(* One request to the HTTP honeypot: HTTPHoneypot._handle_request and      *)
(* _handle_login (honeypot/http.py), with the limits of what is read and   *)
(* what is stored.  The handler awaits the body, a chunk at a time on the  *)
(* login form, and then emit_event.                                        *)
(*                                                                         *)
(* aiohttp is external: request.read() raises when the body breaks off or  *)
(* is larger than client_max_size, iter_chunked raises when the body       *)
(* breaks off (both are caught), and a handler that raises is answered     *)
(* with 500.  Texts are lengths; a path is a name and whether it is        *)
(* spelled as in the code (no capitals, no trailing slash).                *)
(*                                                                         *)
(* Of emit_event (HoneypotBuffer) a request sees what may become of its    *)
(* own event: the retries of publish may add copies whose replies are      *)
(* lost, and emit_event may return or raise after any number of them.      *)
(***************************************************************************)
EXTENDS Integers, Sequences, FiniteSetsExt

CONSTANTS
    MaxBody,            \* MAX_BODY_SIZE; aiohttp's client_max_size is the same
    ChunkSize,          \* what iter_chunked returns at most
    PreviewLimit,       \* BODY_PREVIEW_LIMIT
    RawLimits,          \* values max_credential_length_raw may be set to
    MaxLimit,           \* the largest value it may have (4096)
    DefaultLimit,       \* what it is otherwise (256)
    MaxRetries,         \* EventQueue._max_retries
    Lengths             \* lengths of the form's fields

\* What is assumed of the constants.
RequestAssumption ==
    /\ {MaxBody, ChunkSize, PreviewLimit, MaxLimit, DefaultLimit, MaxRetries}
          \subseteq Nat \ {0}
    /\ RawLimits \subseteq Int
    /\ DefaultLimit <= MaxLimit
    /\ Lengths \subseteq Nat

Methods == {"GET", "POST", "OTHER"}
Paths == {"/", "/robots.txt", "/login", "/admin", "/api", "/else"}

\* declared: Content-Length, or -1 of a chunked body, whose length nobody
\* knows; breaks: the connection is gone before the whole body has arrived.
\* form: the body is UTF-8; email, password: the first field of that name.
Requests ==
    {r \in [method : Methods, path : Paths, exact : BOOLEAN,
            chunked : BOOLEAN, length : 0 .. MaxBody + 2, breaks : BOOLEAN,
            form : BOOLEAN, email : Lengths, password : Lengths] :
        /\ r.length = 0 => r.form /\ ~r.breaks
        /\ r.email + r.password <= r.length}

VARIABLES
    request,        \* the request
    stage,          \* the await the handler is at
    left,           \* what has not been read yet
    total,          \* bytes in chunks
    draft,          \* the event being emitted
    answer,         \* status of the response, 0 before there is one
    recorded,       \* copies of events in the stream or in the buffer
    configured      \* max_credential_length_raw, read when the process starts

httpVars == <<request, configured, stage, left, total, draft, answer, recorded>>

Drafts == [type : {"http_request", "http_login_attempt"}, status : Nat,
           preview : Nat, email : Nat, password : Nat]

HTTPTypeOK ==
    /\ request \in Requests
    /\ stage \in {"idle", "body", "chunks", "emit", "done"}
    /\ left \in 0 .. MaxBody + 2
    /\ total \in 0 .. MaxBody
    /\ draft \in Drafts
    /\ answer \in {0, 200, 401, 403, 404, 405, 413, 500}
    /\ recorded \in Seq(Drafts)
    /\ configured \in RawLimits

NoDraft == [type |-> "http_request", status |-> 0, preview |-> 0,
            email |-> 0, password |-> 0]

HTTPInit ==
    /\ request \in Requests
    /\ stage = "idle"
    /\ left = request.length
    /\ total = 0
    /\ draft = NoDraft
    /\ answer = 0
    /\ recorded = <<>>
    /\ configured \in RawLimits

-----------------------------------------------------------------------------
(* What is answered and what is stored.                                    *)

Least(a, b) == Min({a, b})

\* path.rstrip("/").lower() == LOGIN_PATH: the spelling does not matter.
IsLogin == request.path = "/login"

\* _determine_response: only ADMIN_PATHS are compared in the normal spelling.
\* (Of "/" itself there is no other spelling; the slash is never stripped.)
ResponseStatus ==
    CASE request.path = "/"                                -> 200
      [] request.path = "/robots.txt" /\ request.exact     -> 200
      [] request.path = "/admin"                           -> 401
      [] request.path = "/api" /\ request.exact            -> 403
      [] OTHER                                             -> 404

\* _body_preview_from_bytes: 0 stands for None.
Preview(size) == Least(size, PreviewLimit)

\* Mutant: the configured limit is taken as it is.
CredentialLimitRaw == configured

\* CredentialSettings.max_credential_length.
CredentialLimit ==
    IF configured \in 1 .. MaxLimit THEN configured ELSE DefaultLimit

\* Mutant: what could be read of a broken body is parsed.
CredentialPartial(field, size) == Least(request[field], CredentialLimit)

\* _extract_credentials on the bytes that were read: without the whole form
\* there is nothing, and an empty field is None, like a missing one.
Credential(field, size) ==
    IF size = request.length /\ request.form
    THEN Least(request[field], CredentialLimit)
    ELSE 0

-----------------------------------------------------------------------------
(* The handler.                                                            *)

Emit(event) ==
    /\ draft' = event
    /\ stage' = "emit"

Respond(status) ==
    /\ answer' = status
    /\ stage' = "done"

\* _handle_request: every path but /login reads the body first.
HandleRequest ==
    /\ stage = "idle"
    /\ ~IsLogin
    /\ stage' = "body"
    /\ UNCHANGED <<request, configured, left, total, draft, answer, recorded>>

\* request.read() returned the body or raised, which costs the preview only.
BodyRead ==
    /\ stage = "body"
    /\ left' = 0
    /\ Emit([NoDraft EXCEPT !.status = ResponseStatus,
                !.preview = IF request.breaks \/ request.length > MaxBody
                            THEN 0 ELSE Preview(request.length)])
    /\ UNCHANGED <<request, configured, total, answer, recorded>>

\* _handle_login: neither GET nor POST.
LoginNotAllowed ==
    /\ stage = "idle"
    /\ IsLogin
    /\ request.method = "OTHER"
    /\ Respond(405)
    /\ UNCHANGED <<request, configured, left, total, draft, recorded>>

LoginForm ==
    /\ stage = "idle"
    /\ IsLogin
    /\ request.method = "GET"
    /\ Emit([NoDraft EXCEPT !.status = 200])
    /\ UNCHANGED <<request, configured, left, total, answer, recorded>>

\* Mutant: a body of exactly MAX_BODY_SIZE is taken for too large.
LoginPostAtLimit ==
    /\ stage = "idle"
    /\ IsLogin
    /\ request.method = "POST"
    /\ IF ~request.chunked /\ request.length >= MaxBody
       THEN Respond(413)
       ELSE stage' = "chunks" /\ UNCHANGED answer
    /\ UNCHANGED <<request, configured, left, total, draft, recorded>>

\* _read_body_limited: a Content-Length beyond the limit is not even read.
LoginPost ==
    /\ stage = "idle"
    /\ IsLogin
    /\ request.method = "POST"
    /\ IF ~request.chunked /\ request.length > MaxBody
       THEN Respond(413)
       ELSE stage' = "chunks" /\ UNCHANGED answer
    /\ UNCHANGED <<request, configured, left, total, draft, recorded>>

\* Mutant: the size is compared with what had been read before.
LoginChunkLate(n) ==
    /\ stage = "chunks"
    /\ n <= left
    /\ left' = left - n
    /\ IF total > MaxBody
       THEN Respond(413) /\ UNCHANGED total
       ELSE total' = total + n /\ UNCHANGED <<stage, answer>>
    /\ UNCHANGED <<request, configured, draft, recorded>>

\* Mutant: the event is built before the body is read, and recorded whatever
\* its size.
LoginChunkRecorded(n) ==
    /\ stage = "chunks"
    /\ n <= left
    /\ left' = left - n
    /\ IF total + n > MaxBody
       THEN /\ Respond(413)
            /\ UNCHANGED total
            /\ recorded' = Append(recorded, [NoDraft EXCEPT !.status = 401])
       ELSE total' = total + n /\ UNCHANGED <<stage, answer, recorded>>
    /\ UNCHANGED <<request, configured, draft>>

\* A chunk of n bytes: the one that passes the limit is not kept.
LoginChunk(n) ==
    /\ stage = "chunks"
    /\ n <= left
    /\ left' = left - n
    /\ IF total + n > MaxBody
       THEN Respond(413) /\ UNCHANGED total
       ELSE total' = total + n /\ UNCHANGED <<stage, answer>>
    /\ UNCHANGED <<request, configured, draft, recorded>>

\* The event of a login attempt whose body is the first size bytes.
LoginAttempt(size) ==
    Emit([type |-> "http_login_attempt", status |-> 401,
          preview |-> Preview(size),
          email |-> Credential("email", size),
          password |-> Credential("password", size)])

LoginBodyEnds ==
    /\ stage = "chunks"
    /\ left = 0
    /\ ~request.breaks
    /\ LoginAttempt(total)
    /\ UNCHANGED <<request, configured, left, total, answer, recorded>>

\* The body breaks off: the chunks are thrown away, the attempt is not.
LoginBodyBreaks ==
    /\ stage = "chunks"
    /\ request.breaks
    /\ left' = 0
    /\ LoginAttempt(0)
    /\ UNCHANGED <<request, configured, total, answer, recorded>>

\* An XADD of publish was executed and its reply is lost: the event is in the
\* stream, and publish tries again.
RequestAddedUnanswered ==
    /\ stage = "emit"
    /\ Len(recorded) < MaxRetries
    /\ recorded' = Append(recorded, draft)
    /\ UNCHANGED <<request, configured, stage, left, total, draft, answer>>

\* emit_event returns: the last XADD was answered, or the event is in the
\* buffer because none was.
RequestEmitted ==
    /\ stage = "emit"
    /\ recorded' = Append(recorded, draft)
    /\ Respond(draft.status)
    /\ UNCHANGED <<request, configured, left, total, draft>>

\* emit_event raises in its flush or in an attempt of its own publish (the
\* assertion of handler.py:113, a ResponseError), also after earlier attempts
\* whose replies were lost: what they added stays in the stream.
RequestEmitRaises ==
    /\ stage = "emit"
    /\ Len(recorded) < MaxRetries
    /\ Respond(500)
    /\ UNCHANGED <<request, configured, left, total, draft, recorded>>

HTTPNext ==
    \/ HandleRequest \/ BodyRead
    \/ LoginNotAllowed \/ LoginForm \/ LoginPost
    \/ \E n \in 1 .. ChunkSize : LoginChunk(n)
    \/ LoginBodyEnds \/ LoginBodyBreaks
    \/ RequestAddedUnanswered \/ RequestEmitted \/ RequestEmitRaises

HTTPSpec == HTTPInit /\ [][HTTPNext]_httpVars

-----------------------------------------------------------------------------
(* Correctness.                                                            *)

\* An answer can be relied on.  405 and 413 stand for "not recorded"; with any
\* other answer but 500 the request was recorded before it was answered, with
\* the status its sender sees; and whatever the retries of emit_event did, it
\* is recorded as one event (copies have one UUID).  Only the 500 of an
\* emit_event that raised says nothing: the event may be in the stream with the
\* status that would have been answered.
RecordedAsAnswered ==
    /\ stage \in {"idle", "body", "chunks"} => recorded = <<>>
    /\ stage = "done" =>
          /\ answer \in {405, 413} => recorded = <<>>
          /\ answer \notin {405, 413, 500} => recorded # <<>>
          /\ \A n \in DOMAIN recorded :
                /\ recorded[n] = recorded[1]
                /\ IF answer = 500 THEN recorded[n].status \in {200, 401, 403, 404}
                                   ELSE recorded[n].status = answer

\* The body limit of a login attempt (http.py:320): how a body is sent and in
\* which pieces it arrives makes no difference.  More than MaxBody bytes are
\* refused, and no more than MaxBody bytes are ever kept in memory.  Nothing
\* else is refused for its size: http.py:91 and requirement 1.6 (.kiro/specs/
\* 7-feat-http-login-form-collection) speak of a GET or POST beyond the limit,
\* but of a GET of the form the body is not read, and of any other path a body
\* beyond the limit costs the preview only.
TooLargeIsRefused ==
    /\ total <= MaxBody
    /\ stage = "done" =>
          LET attempt == IsLogin /\ request.method = "POST"
              large   == request.length > MaxBody
          IN /\ answer = 413 => attempt /\ large
             /\ attempt /\ large => answer = 413 \/ request.breaks

\* Requirements 2.4, 2.5 and 5.4: a credential is stored as it was sent, or cut
\* to the configured limit where that is between 1 and 4096, and to the default
\* where it is not (zero and negative limits included): it never vanishes for
\* the limit.  Only a login attempt whose form arrived in full yields any: a
\* part of a form, or bytes that are no form, yield none.
CredentialsAsSent ==
    \A n \in DOMAIN recorded : \A field \in {"email", "password"} :
        LET stored == recorded[n][field]
            sent   == request[field]
            valid  == 1 <= configured /\ configured <= MaxLimit
            whole  == request.form /\ ~request.breaks
        IN /\ stored > 0 => whole /\ total = request.length
           /\ recorded[n].type = "http_login_attempt" /\ whole =>
                 stored = Least(sent, IF valid THEN configured ELSE DefaultLimit)

=============================================================================
