------------------------------- MODULE Dashboard -------------------------------
(***************************************************************************)
(* One browser tab of the dashboard (frontend/src): the login, the view,   *)
(* and the hooks that fetch what is selected.  The polled hooks of the     *)
(* dashboard are alike but for the country summary, whose dependencies     *)
(* hold the time of the rendering; "summary" stands for the others.        *)
(*                                                                         *)
(* A hook's effect loads when it is mounted and whenever its dependencies  *)
(* change; the clean-up of the former one clears its "mounted" flag, so an *)
(* answer still under way is dropped.  Answers come in any order.          *)
(***************************************************************************)
EXTENDS Naturals, Sequences, Bags, BagsExt

CONSTANTS
    Periods, FirstPeriod,   \* the period selector
    Filters, NoFilter,      \* filters of the event list
    LastPage,               \* bound: pages of the event list
    Keys,                   \* user name and password; the API takes one
    NoKey,
    MaxPending              \* bound: requests under way

ASSUME DashboardAssumption ==
    /\ FirstPeriod \in Periods
    /\ NoFilter \in Filters
    /\ LastPage \in Nat \ {0}
    /\ NoKey \notin Keys
    /\ MaxPending \in Nat \ {0, 1}

VARIABLES
    apiKey,         \* what the API accepts
    stored,         \* localStorage[CREDENTIALS_KEY]
    authed,         \* App's state
    login,          \* the credentials of login()'s request, or NoKey
    view,           \* App's state
    selected,       \* what each hook's dependencies select
    pending,        \* requests of the hooks under way, a bag
    shown,          \* each hook's data: the selection it was fetched for
    error           \* each hook's error: none, or why

vars == <<apiKey, stored, authed, login, view, selected, pending, shown, error>>

Views == {"dashboard", "events"}
Hooks == {"summary", "country", "list"}
HooksOf(v) == IF v = "dashboard" THEN {"summary", "country"} ELSE {"list"}
Polled == {"summary", "country"}
Mounted == IF authed THEN HooksOf(view) ELSE {}

Pages == 1 .. LastPage
\* A period, or a filter and a page.
Selections == (Periods \X {1}) \cup (Filters \X Pages)
Nothing == <<>>
Errors == {"none", "401", "no login", "failed"}
Requests == [hook : Hooks, of : Selections, key : Keys, mounted : BOOLEAN]

TypeOK ==
    /\ apiKey \in Keys
    /\ stored \in Keys \cup {NoKey}
    /\ authed \in BOOLEAN
    /\ login \in Keys \cup {NoKey}
    /\ view \in Views
    /\ \A h \in Polled : selected[h] \in Periods \X {1}
    /\ selected["list"] \in Filters \X Pages
    /\ \A r \in DOMAIN pending : /\ r \in Requests
                                 /\ r.mounted => r.hook \in Mounted
    /\ \A h \in Hooks : /\ shown[h] \in Selections \cup {Nothing}
                        /\ h \notin Mounted => shown[h] = Nothing
    /\ error \in [Hooks -> Errors]

FirstSelection ==
    [h \in Hooks |-> <<IF h \in Polled THEN FirstPeriod ELSE NoFilter, 1>>]
Blank == [h \in Hooks |-> Nothing]
NoError == [h \in Hooks |-> "none"]

-----------------------------------------------------------------------------
(* Effects.                                                                *)

\* The clean-up of the effects of hs: mounted = false.
CleanUp(requests, hs) ==
    LET off(r) == IF r.hook \in hs THEN [r EXCEPT !.mounted = FALSE] ELSE r
        images == {off(r) : r \in DOMAIN requests}
    IN [x \in images |->
          BagCardinality([r \in {q \in DOMAIN requests : off(q) = x} |-> requests[r]])]

\* load of every hook of hs: a request, or the error of fetchWithAuth when
\* nobody is logged in, which useEventList throws on.
Load(requests, hs, key) ==
    /\ pending' = IF key = NoKey THEN requests
                  ELSE requests (+) SetToBag({[hook |-> h, of |-> selected'[h],
                                               key |-> key, mounted |-> TRUE] : h \in hs})
    /\ BagCardinality(pending') <= MaxPending

LoginError(errors, hs, key) ==
    [h \in Hooks |-> IF h \in hs \cap Polled /\ key = NoKey THEN "no login" ELSE errors[h]]

\* The effects of hs run again.
Rerun(requests, hs, key, errors) ==
    /\ Load(CleanUp(requests, hs), hs, key)
    /\ error' = LoginError(errors, hs, key)

\* A page is mounted in the place of another, with the state it starts with.
Mount(v, key) ==
    /\ selected' = FirstSelection
    /\ shown' = Blank
    /\ Load(CleanUp(pending, Hooks), HooksOf(v), key)
    /\ error' = LoginError(NoError, HooksOf(v), key)

\* What a rendering of a view runs again: periodToRange has a new end.
Unstable(v) == IF v = "dashboard" /\ selected'["country"][1] # "all" THEN {"country"} ELSE {}

-----------------------------------------------------------------------------
(* The user.                                                               *)

Init ==
    /\ apiKey \in Keys
    /\ stored \in Keys \cup {NoKey}
    /\ authed = (stored # NoKey)
    /\ login = NoKey
    /\ view = "dashboard"
    /\ selected = FirstSelection
    /\ pending = IF authed
                 THEN SetToBag({[hook |-> h, of |-> <<FirstPeriod, 1>>, key |-> stored,
                                 mounted |-> TRUE] : h \in Polled})
                 ELSE EmptyBag
    /\ shown = Blank
    /\ error = NoError

\* verify_credentials.
Accepts(key) == key = apiKey

\* login: stored before it is verified.
Submit(key) ==
    /\ ~authed
    /\ login = NoKey
    /\ stored' = key
    /\ login' = key
    /\ UNCHANGED <<apiKey, authed, view, selected, pending, shown, error>>

\* login's request was accepted: onLoginSuccess.
LoginSucceeds ==
    /\ Accepts(login)
    /\ login' = NoKey
    /\ authed' = TRUE
    /\ Mount(view, stored)
    /\ UNCHANGED <<apiKey, stored, view>>

\* A 401, another status or no answer: the stored credentials are dropped.
LoginFails ==
    /\ login # NoKey
    /\ login' = NoKey
    /\ stored' = NoKey
    /\ UNCHANGED <<apiKey, authed, view, selected, pending, shown, error>>

\* handleLogout: the page is unmounted.
Logout ==
    /\ authed
    /\ stored' = NoKey
    /\ authed' = FALSE
    /\ pending' = CleanUp(pending, Hooks)
    /\ selected' = FirstSelection
    /\ shown' = Blank
    /\ error' = NoError
    /\ UNCHANGED <<apiKey, login, view>>

Navigate(v) ==
    /\ authed
    /\ v # view
    /\ view' = v
    /\ Mount(v, stored)
    /\ UNCHANGED <<apiKey, stored, authed, login>>

\* setPeriod: all hooks of the dashboard depend on it.
SelectPeriod(p) ==
    /\ Polled \subseteq Mounted
    /\ <<p, 1>> # selected["summary"]
    /\ selected' = [h \in Hooks |-> IF h \in Polled THEN <<p, 1>> ELSE selected[h]]
    /\ Rerun(pending, Polled, stored, error)
    /\ UNCHANGED <<apiKey, stored, authed, login, view, shown>>

\* setPage.
SetPage(n) ==
    /\ "list" \in Mounted
    /\ n # selected["list"][2]
    /\ selected' = [selected EXCEPT !["list"][2] = n]
    /\ Rerun(pending, {"list"}, stored, error)
    /\ UNCHANGED <<apiKey, stored, authed, login, view, shown>>

\* setFilters: back to page 1; the filters are a new object even when equal.
SetFilters(f) ==
    /\ "list" \in Mounted
    /\ selected' = [selected EXCEPT !["list"] = <<f, 1>>]
    /\ Rerun(pending, {"list"}, stored, error)
    /\ UNCHANGED <<apiKey, stored, authed, login, view, shown>>

-----------------------------------------------------------------------------
(* Time and the API.                                                       *)

\* setInterval: load, without waiting for the last one's answer.
Poll(h) ==
    /\ h \in Polled \cap Mounted
    /\ error[h] = "no login" => stored # NoKey
    /\ UNCHANGED <<apiKey, stored, authed, login, view, selected, shown>>
    /\ IF stored = NoKey
       THEN Rerun(pending, Unstable(view), stored, [error EXCEPT ![h] = "no login"])
       ELSE Load(pending, {h}, stored) /\ UNCHANGED error

\* setData or setError of a hook renders its page.
Received(r, data, message) ==
    /\ UNCHANGED <<apiKey, authed, login, view, selected>>
    /\ shown' = [shown EXCEPT ![r.hook] = data]
    /\ LET errors == [error EXCEPT ![r.hook] = message]
       IN IF <<shown', errors>> = <<shown, error>> /\ message # "none"
          THEN pending' = BagRemove(pending, r) /\ error' = errors
          ELSE Rerun(BagRemove(pending, r), Unstable(view), stored', errors)

Dropped(r) ==
    /\ pending' = BagRemove(pending, r)
    /\ UNCHANGED <<apiKey, authed, login, view, selected, shown, error>>

\* Mutant: whether the effect is still mounted is not looked at.
AnswerLate(r) ==
    /\ Accepts(r.key)
    /\ UNCHANGED stored
    /\ Received(r, r.of, "none")

\* Mutant: the data of an effect that was cleaned up is still taken by a page
\* that has the hook.
AnswerToPage(r) ==
    /\ Accepts(r.key)
    /\ UNCHANGED stored
    /\ IF r.hook \in Mounted THEN Received(r, r.of, "none") ELSE Dropped(r)

\* Mutant: an answer is dropped when its page has shown something already.
AnswerOnce(r) ==
    /\ Accepts(r.key)
    /\ UNCHANGED stored
    /\ IF r.mounted /\ shown[r.hook] = Nothing
       THEN Received(r, r.of, "none") ELSE Dropped(r)

Answer(r) ==
    /\ Accepts(r.key)
    /\ UNCHANGED stored
    /\ IF r.mounted THEN Received(r, r.of, "none") ELSE Dropped(r)

\* 401: the credentials are dropped, whichever are stored by now.  A hook of the
\* dashboard shows the error; useEventList throws, to nobody.
Refuse(r) ==
    /\ ~Accepts(r.key)
    /\ stored' = NoKey
    /\ IF r.mounted /\ r.hook \in Polled THEN Received(r, shown[r.hook], "401") ELSE Dropped(r)

\* No answer, or another status.
Fail(r) ==
    /\ UNCHANGED stored
    /\ IF r.mounted THEN Received(r, shown[r.hook], "failed") ELSE Dropped(r)

\* The API comes back with another user or password.
ChangeKey(key) ==
    /\ apiKey' = key
    /\ UNCHANGED <<stored, authed, login, view, selected, pending, shown, error>>

-----------------------------------------------------------------------------

Comes(r) == Answer(r) \/ Refuse(r) \/ Fail(r)

Next ==
    \/ \E key \in Keys : Submit(key) \/ ChangeKey(key)
    \/ LoginSucceeds \/ LoginFails \/ Logout
    \/ \E v \in Views : Navigate(v)
    \/ \E p \in Periods : SelectPeriod(p)
    \/ \E n \in Pages : SetPage(n)
    \/ \E f \in Filters : SetFilters(f)
    \/ \E h \in Hooks : Poll(h)
    \/ \E r \in DOMAIN pending : Comes(r)

\* Every request of the browser is answered or fails in the end.
Fairness ==
    /\ \A h \in Hooks :
          WF_vars(\E r \in DOMAIN pending : r.hook = h /\ r.mounted /\ Comes(r))
    /\ WF_vars(\E r \in DOMAIN pending : ~r.mounted /\ Comes(r))

Spec == Init /\ [][Next]_vars /\ Fairness

-----------------------------------------------------------------------------
(* Correctness.                                                            *)

\* Answers come in any order, also after the user has gone on to another
\* period, page, filter or view, or has logged out: what appears on the screen
\* is always of what is selected at that time.
OnlySelectedAppears ==
    [][\A h \in Hooks : shown'[h] \in {shown[h], Nothing, selected'[h]}]_vars

\* Whatever is selected appears in the end, or the hook shows an error, unless
\* something else is selected first; a list whose request was refused shows
\* neither, and the country summary starts over whenever something else of the
\* dashboard appears.
SelectedAppears ==
    \A h \in {"summary", "list"}, s \in Selections :
        LET asked == h \in Mounted /\ selected[h] = s
        IN asked ~> \/ ~asked
                    \/ shown[h] = s \/ error[h] # "none"
                    \/ h = "list" /\ stored = NoKey

=============================================================================
