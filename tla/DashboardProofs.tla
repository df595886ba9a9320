--------------------------- MODULE DashboardProofs ---------------------------
(***************************************************************************)
(* Proofs about Dashboard, for any periods, filters, pages and             *)
(* credentials and any number of requests under way.                       *)
(*                                                                         *)
(* That only what is selected appears is a property of the steps, and none *)
(* of them looks at what is selected when an answer comes: the clean-up of *)
(* the effects has to have seen to it.  The invariant behind it says that  *)
(* a request whose effect is still mounted is for a hook of the page that  *)
(* is shown and for what that hook has selected (RequestsCurrent), and     *)
(* every action that selects something else or replaces the page has to    *)
(* clean up every effect this concerns in the same step.                   *)
(***************************************************************************)
EXTENDS Dashboard, TLAPS

RequestsCurrent ==
    \A r \in DOMAIN pending : r.mounted => r.of = selected[r.hook]

\* The data each hook may select and may show.
SelectionsTyped == selected \in [Hooks -> Selections]
ShownTyped == shown \in [Hooks -> Selections \cup {Nothing}]

IInv ==
    /\ TypeOK
    /\ SelectionsTyped
    /\ ShownTyped
    /\ RequestsCurrent

-----------------------------------------------------------------------------
(* The parts of the invariant.                                             *)

CredentialsTyped ==
    /\ apiKey \in Keys
    /\ stored \in Keys \cup {NoKey}
    /\ authed \in BOOLEAN
    /\ login \in Keys \cup {NoKey}
    /\ view \in Views

SelectedOK ==
    /\ SelectionsTyped
    /\ \A h \in Polled : selected[h] \in Periods \X {1}
    /\ selected["list"] \in Filters \X Pages

\* The requests whose effect is mounted are what the page has selected.
PendingOK ==
    \A r \in DOMAIN pending :
        /\ r \in Requests
        /\ r.mounted => r.hook \in Mounted /\ r.of = selected[r.hook]

ShownOK ==
    /\ ShownTyped
    /\ \A h \in Hooks : h \notin Mounted => shown[h] = Nothing

\* The invariant is the conjunction of these.
LEMMA Parts ==
    IInv <=> /\ CredentialsTyped
             /\ SelectedOK
             /\ PendingOK
             /\ ShownOK
             /\ error \in [Hooks -> Errors]
<1>1. ASSUME IInv
      PROVE  CredentialsTyped /\ SelectedOK /\ PendingOK /\ ShownOK /\ error \in [Hooks -> Errors]
  BY <1>1 DEF IInv, TypeOK, RequestsCurrent, CredentialsTyped, SelectedOK, PendingOK, ShownOK
<1>2. ASSUME CredentialsTyped, SelectedOK, PendingOK, ShownOK, error \in [Hooks -> Errors]
      PROVE  IInv
  <2>1. \A h \in Hooks : shown[h] \in Selections \cup {Nothing}
    BY <1>2 DEF ShownOK, ShownTyped
  <2> QED
    BY <1>2, <2>1
       DEF IInv, TypeOK, RequestsCurrent, CredentialsTyped, SelectedOK, PendingOK, ShownOK
<1> QED
  BY <1>1, <1>2

\* The same of the state after a step.
LEMMA PartsNext ==
    ASSUME CredentialsTyped', SelectedOK', PendingOK', ShownOK', error' \in [Hooks -> Errors]
    PROVE  IInv'
<1>1. \A h \in Hooks : shown'[h] \in Selections \cup {Nothing}
  BY DEF ShownOK, ShownTyped
<1> QED
  BY <1>1
     DEF IInv, TypeOK, RequestsCurrent, CredentialsTyped, SelectedOK, PendingOK, ShownOK

-----------------------------------------------------------------------------
(* Bags of requests.                                                       *)

\* What is under way after a bag of requests has been added, and after one
\* request has gone.
LEMMA BagDomains ==
    ASSUME NEW B, NEW S, NEW r
    PROVE  /\ DOMAIN SetToBag(S) = S
           /\ DOMAIN (B (+) SetToBag(S)) = DOMAIN B \cup S
           /\ DOMAIN BagRemove(B, r) \subseteq DOMAIN B
BY DEF SetToBag, (+), BagRemove

\* The clean-up of hs leaves no request of theirs mounted, and touches no other.
LEMMA CleanUpDrops ==
    ASSUME NEW B, NEW hs, \A r \in DOMAIN B : r \in Requests,
           NEW x \in DOMAIN CleanUp(B, hs)
    PROVE  /\ x \in Requests
           /\ x.mounted => x \in DOMAIN B /\ x.hook \notin hs
<1>1. PICK r \in DOMAIN B : x = IF r.hook \in hs THEN [r EXCEPT !.mounted = FALSE] ELSE r
  BY DEF CleanUp
<1>2. r \in Requests
  BY <1>1
<1> QED
  BY <1>1, <1>2 DEF Requests

\* load adds requests for what its hooks have selected, and nothing else.
LEMMA LoadKeeps ==
    ASSUME SelectionsTyped',
           NEW B, NEW hs, hs \subseteq Mounted', NEW key \in Keys \cup {NoKey},
           \A r \in DOMAIN B :
               /\ r \in Requests
               /\ r.mounted => r.hook \in Mounted' /\ r.of = selected'[r.hook],
           Load(B, hs, key)
    PROVE  PendingOK'
<1> DEFINE new == {[hook |-> h, of |-> selected'[h], key |-> key, mounted |-> TRUE] : h \in hs}
<1>1. CASE key = NoKey
  BY <1>1 DEF Load, PendingOK
<1>2. CASE key # NoKey
  <2>1. pending' = B (+) SetToBag(new)
    BY <1>2 DEF Load
  <2>2. DOMAIN pending' = DOMAIN B \cup new
    BY <2>1, BagDomains
  <2>3. hs \subseteq Hooks
    BY DEF Mounted, HooksOf, Hooks
  <2>4. ASSUME NEW r \in new
        PROVE  r \in Requests /\ r.hook \in Mounted' /\ r.of = selected'[r.hook]
    <3>1. PICK h \in hs :
              r = [hook |-> h, of |-> selected'[h], key |-> key, mounted |-> TRUE]
      BY <2>4
    <3>2. selected'[h] \in Selections /\ h \in Hooks
      BY <2>3, <3>1 DEF SelectionsTyped
    <3> QED
      BY <1>2, <3>1, <3>2 DEF Requests
  <2> QED
    BY <2>2, <2>4 DEF PendingOK
<1> QED
  BY <1>1, <1>2

\* The effects of hs run again: whatever concerned them, what is under way is
\* current afterwards, when all the others' requests were.
LEMMA EffectsKeep ==
    ASSUME SelectionsTyped',
           NEW B, NEW hs, NEW ran, ran \subseteq Mounted', NEW key \in Keys \cup {NoKey},
           \A r \in DOMAIN B :
               /\ r \in Requests
               /\ r.mounted /\ r.hook \notin hs
                      => r.hook \in Mounted' /\ r.of = selected'[r.hook],
           Load(CleanUp(B, hs), ran, key)
    PROVE  PendingOK'
<1>1. ASSUME NEW x \in DOMAIN CleanUp(B, hs)
      PROVE  /\ x \in Requests
             /\ x.mounted => x.hook \in Mounted' /\ x.of = selected'[x.hook]
  BY <1>1, CleanUpDrops
<1> QED
  BY <1>1, LoadKeeps

LEMMA ErrorTyped ==
    ASSUME NEW e \in [Hooks -> Errors], NEW hs, NEW key
    PROVE  LoginError(e, hs, key) \in [Hooks -> Errors]
BY DEF LoginError, Errors

\* The state every page starts with.
LEMMA FreshPage ==
    /\ NoError \in [Hooks -> Errors]
    /\ selected' = FirstSelection => SelectedOK'
    /\ shown' = Blank => ShownOK'
<1>1. NoError \in [Hooks -> Errors]
  BY DEF NoError, Errors
<1>2. ASSUME selected' = FirstSelection PROVE SelectedOK'
  <2>1. \A h \in Polled : h \in Hooks /\ selected'[h] = <<FirstPeriod, 1>>
    BY <1>2 DEF FirstSelection, Polled, Hooks
  <2>2. "list" \in Hooks \ Polled /\ Hooks = Polled \cup {"list"}
    BY DEF Polled, Hooks
  <2>3. selected'["list"] = <<NoFilter, 1>>
    BY <1>2, <2>2 DEF FirstSelection
  <2>4. 1 \in Pages
    BY DashboardAssumption DEF Pages
  <2>5. <<FirstPeriod, 1>> \in Periods \X {1} /\ <<NoFilter, 1>> \in Filters \X Pages
    BY <2>4, DashboardAssumption
  <2>6. SelectionsTyped'
    BY <1>2, <2>5 DEF SelectionsTyped, FirstSelection, Selections
  <2> QED
    BY <2>1, <2>3, <2>5, <2>6 DEF SelectedOK
<1>3. ASSUME shown' = Blank PROVE ShownOK'
  BY <1>3 DEF ShownOK, ShownTyped, Blank
<1> QED
  BY <1>1, <1>2, <1>3

\* What rendering a view runs again is part of the dashboard.
LEMMA UnstableMounted ==
    ASSUME authed' PROVE Unstable(view') \subseteq Mounted'
BY DEF Unstable, Mounted, HooksOf

-----------------------------------------------------------------------------
(* The invariant.                                                          *)

\* The tab starts with current requests, when it is logged in already.
LEMMA InitEstablishes == Init => IInv
<1> SUFFICES ASSUME Init PROVE IInv
  OBVIOUS
<1>1. CredentialsTyped
  BY DEF Init, CredentialsTyped, Views
<1>2. SelectedOK
  <2>1. 1 \in Pages
    BY DashboardAssumption DEF Pages
  <2>2. <<FirstPeriod, 1>> \in Periods \X {1} /\ <<NoFilter, 1>> \in Filters \X Pages
    BY <2>1, DashboardAssumption
  <2> QED
    BY <2>2 DEF Init, SelectedOK, SelectionsTyped, FirstSelection, Selections, Hooks, Polled
<1>3. PendingOK
  <2>1. CASE ~authed
    BY <2>1 DEF Init, PendingOK, EmptyBag, SetToBag
  <2>2. CASE authed
    <3> DEFINE first(h) == [hook |-> h, of |-> <<FirstPeriod, 1>>, key |-> stored,
                            mounted |-> TRUE]
    <3>1. DOMAIN pending = {first(h) : h \in Polled}
      BY <2>2, BagDomains DEF Init
    <3>2. ASSUME NEW h \in Polled
          PROVE  first(h) \in Requests /\ h \in Mounted /\ selected[h] = <<FirstPeriod, 1>>
      <4>1. h \in Hooks /\ selected[h] = <<FirstPeriod, 1>> /\ h \in Mounted
        BY <2>2 DEF Init, FirstSelection, Hooks, Polled, Mounted, HooksOf
      <4>2. <<FirstPeriod, 1>> \in Selections
        BY DashboardAssumption DEF Selections
      <4>3. stored \in Keys
        BY <2>2 DEF Init
      <4> QED
        BY <4>1, <4>2, <4>3 DEF Requests
    <3> QED
      BY <3>1, <3>2 DEF PendingOK
  <2> QED
    BY <2>1, <2>2
<1>4. ShownOK
  BY DEF Init, ShownOK, ShownTyped, Blank
<1>5. error \in [Hooks -> Errors]
  BY FreshPage DEF Init
<1> QED
  BY <1>1, <1>2, <1>3, <1>4, <1>5, Parts

\* A page put in the place of another: all its requests are cleaned up, and
\* those it makes are for what it selects at first.
LEMMA MountKeeps ==
    ASSUME IInv, NEW v \in Views, NEW key \in Keys \cup {NoKey},
           CredentialsTyped', authed', view' = v, Mount(v, key)
    PROVE  IInv'
<1>1. SelectedOK' /\ ShownOK'
  BY FreshPage DEF Mount
<1>2. error' \in [Hooks -> Errors]
  BY FreshPage, ErrorTyped DEF Mount
<1>3. HooksOf(v) \subseteq Mounted'
  BY DEF Mounted
<1>4. ASSUME NEW r \in DOMAIN pending
      PROVE  r \in Requests /\ r.hook \in Hooks
  BY Parts DEF PendingOK, Requests
<1>5. PendingOK'
  <2>1. Load(CleanUp(pending, Hooks), HooksOf(v), key)
    BY DEF Mount
  <2>2. SelectionsTyped'
    BY <1>1 DEF SelectedOK
  <2> HIDE DEF CleanUp
  <2> QED
    BY <1>3, <1>4, <2>1, <2>2, EffectsKeep
<1> QED
  BY <1>1, <1>2, <1>5, PartsNext

\* Hooks of the page that is shown select something else, and run again.
LEMMA SelectKeeps ==
    ASSUME IInv, NEW hs, hs \subseteq Mounted, SelectedOK',
           \A h \in Hooks \ hs : selected'[h] = selected[h],
           Rerun(pending, hs, stored, error),
           UNCHANGED <<apiKey, stored, authed, login, view, shown>>
    PROVE  IInv'
<1>1. CredentialsTyped /\ PendingOK /\ ShownOK /\ error \in [Hooks -> Errors]
  BY Parts
<1>2. Mounted' = Mounted
  BY DEF Mounted
<1>3. CredentialsTyped' /\ ShownOK'
  BY <1>1, <1>2 DEF CredentialsTyped, ShownOK, ShownTyped
<1>4. error' \in [Hooks -> Errors]
  BY <1>1, ErrorTyped DEF Rerun
<1>5. PendingOK'
  <2>1. ASSUME NEW r \in DOMAIN pending
        PROVE  /\ r \in Requests
               /\ r.mounted /\ r.hook \notin hs
                      => r.hook \in Mounted' /\ r.of = selected'[r.hook]
    BY <1>1, <1>2 DEF PendingOK, Requests
  <2>2. Load(CleanUp(pending, hs), hs, stored) /\ SelectionsTyped'
    BY DEF Rerun, SelectedOK
  <2>3. stored \in Keys \cup {NoKey} /\ hs \subseteq Mounted'
    BY <1>1, <1>2 DEF CredentialsTyped
  <2> QED
    BY <2>1, <2>2, <2>3, EffectsKeep
<1> QED
  BY <1>3, <1>4, <1>5, PartsNext

\* A request that has come back is no longer under way, the others are.
LEMMA FewerKeep ==
    ASSUME IInv, NEW B, DOMAIN B \subseteq DOMAIN pending, pending' = B,
           error' \in [Hooks -> Errors], ShownOK', CredentialsTyped',
           UNCHANGED <<authed, view, selected>>
    PROVE  IInv'
<1>1. SelectedOK /\ PendingOK
  BY Parts
<1>2. Mounted' = Mounted
  BY DEF Mounted
<1>3. SelectedOK' /\ PendingOK'
  BY <1>1, <1>2 DEF SelectedOK, SelectionsTyped, PendingOK
<1> QED
  BY <1>3, PartsNext

\* An answer or an error that its hook takes: the page is rendered.
LEMMA ReceivedKeeps ==
    ASSUME IInv, CredentialsTyped', NEW r \in DOMAIN pending, r.mounted,
           NEW data \in {r.of, shown[r.hook]}, NEW message \in Errors,
           Received(r, data, message)
    PROVE  IInv'
<1> DEFINE errors == [error EXCEPT ![r.hook] = message]
           rest == BagRemove(pending, r)
<1>1. CredentialsTyped /\ SelectedOK /\ PendingOK /\ ShownOK /\ error \in [Hooks -> Errors]
  BY Parts
<1>2. r \in Requests /\ r.hook \in Mounted /\ r.hook \in Hooks /\ r.of \in Selections
  BY <1>1 DEF PendingOK, Requests
<1>3. authed /\ authed' /\ Mounted' = Mounted /\ view' = view /\ selected' = selected
  BY <1>1, <1>2 DEF Mounted, Received, CredentialsTyped
<1>4. ShownOK'
  <2>1. shown' = [shown EXCEPT ![r.hook] = data]
    BY DEF Received
  <2>2. data \in Selections \cup {Nothing}
    BY <1>1, <1>2 DEF ShownOK, ShownTyped
  <2> QED
    BY <1>1, <1>2, <1>3, <2>1, <2>2 DEF ShownOK, ShownTyped
<1>5. errors \in [Hooks -> Errors]
  BY <1>1
<1>6. DOMAIN rest \subseteq DOMAIN pending
  BY BagDomains
<1> HIDE DEF errors, rest
<1>7. CASE pending' = rest /\ error' = errors
  BY <1>3, <1>4, <1>5, <1>6, <1>7, FewerKeep
<1>8. CASE Rerun(rest, Unstable(view), stored', errors)
  <2>1. ASSUME NEW q \in DOMAIN rest
        PROVE  q \in Requests /\ (q.mounted => q.hook \in Mounted' /\ q.of = selected'[q.hook])
    BY <1>1, <1>3, <1>6 DEF PendingOK
  <2>2. Load(CleanUp(rest, Unstable(view)), Unstable(view), stored')
    BY <1>8 DEF Rerun
  <2>3. SelectedOK' /\ SelectionsTyped'
    BY <1>1, <1>3 DEF SelectedOK, SelectionsTyped
  <2>4. Unstable(view) \subseteq Mounted'
    BY <1>3, UnstableMounted
  <2>5. stored' \in Keys \cup {NoKey}
    BY DEF CredentialsTyped
  <2>6. PendingOK'
    BY <2>1, <2>2, <2>3, <2>4, <2>5, EffectsKeep
  <2>7. error' \in [Hooks -> Errors]
    BY <1>5, <1>8, ErrorTyped DEF Rerun
  <2> QED
    BY <1>4, <2>3, <2>6, <2>7, PartsNext
<1> QED
  BY <1>7, <1>8 DEF Received, errors, rest

LEMMA DroppedKeeps ==
    ASSUME IInv, CredentialsTyped', NEW r, Dropped(r)
    PROVE  IInv'
<1>1. DOMAIN BagRemove(pending, r) \subseteq DOMAIN pending
  BY BagDomains
<1>2. ShownOK' /\ error' \in [Hooks -> Errors]
  BY Parts DEF Dropped, ShownOK, ShownTyped, Mounted
<1> QED
  BY <1>1, <1>2, FewerKeep DEF Dropped

\* Every action keeps the invariant.
LEMMA StepPreserves == IInv /\ [Next]_vars => IInv'
<1> SUFFICES ASSUME IInv, [Next]_vars PROVE IInv'
  OBVIOUS
<1>1. CredentialsTyped /\ SelectedOK /\ PendingOK /\ ShownOK /\ error \in [Hooks -> Errors]
  BY Parts
<1>2. ASSUME NEW key \in Keys, Submit(key) PROVE IInv'
  <2>1. CredentialsTyped'
    BY <1>1, <1>2 DEF Submit, CredentialsTyped
  <2>2. ShownOK' /\ error' \in [Hooks -> Errors]
    BY <1>1, <1>2 DEF Submit, ShownOK, ShownTyped, Mounted
  <2> QED
    BY <1>2, <2>1, <2>2, FewerKeep DEF Submit
<1>3. ASSUME NEW key \in Keys, ChangeKey(key) PROVE IInv'
  <2>1. CredentialsTyped'
    BY <1>1, <1>3 DEF ChangeKey, CredentialsTyped
  <2>2. ShownOK' /\ error' \in [Hooks -> Errors]
    BY <1>1, <1>3 DEF ChangeKey, ShownOK, ShownTyped, Mounted
  <2> QED
    BY <1>3, <2>1, <2>2, FewerKeep DEF ChangeKey
<1>4. ASSUME LoginSucceeds PROVE IInv'
  <2>1. CredentialsTyped' /\ authed' /\ view' = view /\ Mount(view, stored)
    BY <1>1, <1>4 DEF LoginSucceeds, CredentialsTyped
  <2>2. view \in Views /\ stored \in Keys \cup {NoKey}
    BY <1>1 DEF CredentialsTyped
  <2> QED
    BY <2>1, <2>2, MountKeeps
<1>5. ASSUME LoginFails PROVE IInv'
  <2>1. CredentialsTyped'
    BY <1>1, <1>5 DEF LoginFails, CredentialsTyped
  <2>2. ShownOK' /\ error' \in [Hooks -> Errors]
    BY <1>1, <1>5 DEF LoginFails, ShownOK, ShownTyped, Mounted
  <2> QED
    BY <1>5, <2>1, <2>2, FewerKeep DEF LoginFails
<1>6. ASSUME Logout PROVE IInv'
  <2>1. CredentialsTyped'
    BY <1>1, <1>6 DEF Logout, CredentialsTyped
  <2>2. SelectedOK' /\ ShownOK' /\ error' \in [Hooks -> Errors]
    BY <1>6, FreshPage DEF Logout
  <2>3. \A r \in DOMAIN pending : r \in Requests /\ r.hook \in Hooks
    BY <1>1 DEF PendingOK, Requests
  <2>4. ASSUME NEW x \in DOMAIN CleanUp(pending, Hooks)
        PROVE  x \in Requests /\ ~x.mounted
    <3>1. x \in Requests /\ (x.mounted => x \in DOMAIN pending /\ x.hook \notin Hooks)
      BY <2>3, CleanUpDrops
    <3> QED
      BY <2>3, <3>1
  <2>5. PendingOK'
    BY <1>6, <2>4 DEF Logout, PendingOK
  <2> QED
    BY <2>1, <2>2, <2>5, PartsNext
<1>7. ASSUME NEW v \in Views, Navigate(v) PROVE IInv'
  <2>1. CredentialsTyped' /\ authed' /\ view' = v /\ Mount(v, stored)
    BY <1>1, <1>7 DEF Navigate, CredentialsTyped
  <2>2. stored \in Keys \cup {NoKey}
    BY <1>1 DEF CredentialsTyped
  <2> QED
    BY <2>1, <2>2, MountKeeps
<1>8. ASSUME NEW p \in Periods, SelectPeriod(p) PROVE IInv'
  <2>1. selected' = [h \in Hooks |-> IF h \in Polled THEN <<p, 1>> ELSE selected[h]]
    BY <1>8 DEF SelectPeriod
  <2>2. "list" \in Hooks \ Polled /\ Polled \subseteq Hooks
    BY DEF Hooks, Polled
  <2>3. SelectedOK'
    BY <1>1, <2>1, <2>2 DEF SelectedOK, SelectionsTyped, Selections
  <2>4. \A h \in Hooks \ Polled : selected'[h] = selected[h]
    BY <2>1
  <2> QED
    BY <1>8, <2>3, <2>4, SelectKeeps DEF SelectPeriod
<1>9. ASSUME NEW n \in Pages, SetPage(n) PROVE IInv'
  <2>1. selected' = [selected EXCEPT !["list"][2] = n] /\ {"list"} \subseteq Mounted
    BY <1>9 DEF SetPage
  <2>2. "list" \in Hooks /\ Polled = Hooks \ {"list"}
    BY DEF Hooks, Polled
  <2>3. PICK f \in Filters, m \in Pages : selected["list"] = <<f, m>>
    BY <1>1 DEF SelectedOK
  <2>4. [selected["list"] EXCEPT ![2] = n] = <<f, n>>
    BY <2>3
  <2>5. selected' = [selected EXCEPT !["list"] = <<f, n>>]
    BY <2>1, <2>4
  <2>6. SelectedOK'
    BY <1>1, <2>2, <2>5 DEF SelectedOK, SelectionsTyped, Selections
  <2>7. \A h \in Hooks \ {"list"} : selected'[h] = selected[h]
    BY <1>1, <2>5 DEF SelectedOK, SelectionsTyped
  <2> QED
    BY <1>9, <2>1, <2>6, <2>7, SelectKeeps DEF SetPage
<1>10. ASSUME NEW f \in Filters, SetFilters(f) PROVE IInv'
  <2>1. selected' = [selected EXCEPT !["list"] = <<f, 1>>] /\ {"list"} \subseteq Mounted
    BY <1>10 DEF SetFilters
  <2>2. "list" \in Hooks /\ Polled = Hooks \ {"list"}
    BY DEF Hooks, Polled
  <2>3. <<f, 1>> \in Filters \X Pages
    BY DashboardAssumption DEF Pages
  <2>4. SelectedOK'
    BY <1>1, <2>1, <2>2, <2>3 DEF SelectedOK, SelectionsTyped, Selections
  <2>5. \A h \in Hooks \ {"list"} : selected'[h] = selected[h]
    BY <1>1, <2>1 DEF SelectedOK, SelectionsTyped
  <2> QED
    BY <1>10, <2>1, <2>4, <2>5, SelectKeeps DEF SetFilters
<1>11. ASSUME NEW h \in Hooks, Poll(h) PROVE IInv'
  <2>1. h \in Mounted /\ UNCHANGED <<apiKey, stored, authed, login, view, selected, shown>>
    BY <1>11 DEF Poll
  <2>2. authed /\ authed' /\ Mounted' = Mounted
    BY <1>1, <2>1 DEF Mounted, CredentialsTyped
  <2>3. CredentialsTyped' /\ SelectedOK' /\ SelectionsTyped' /\ ShownOK'
    BY <1>1, <2>1, <2>2
       DEF CredentialsTyped, SelectedOK, SelectionsTyped, ShownOK, ShownTyped
  <2>4. stored \in Keys \cup {NoKey}
    BY <1>1 DEF CredentialsTyped
  <2>5. \A r \in DOMAIN pending :
            r \in Requests /\ (r.mounted => r.hook \in Mounted' /\ r.of = selected'[r.hook])
    BY <1>1, <2>1, <2>2 DEF PendingOK
  <2>6. CASE stored = NoKey
    <3> DEFINE errors == [error EXCEPT ![h] = "no login"]
    <3>1. Rerun(pending, Unstable(view), stored, errors)
      BY <1>11, <2>6 DEF Poll
    <3>2. errors \in [Hooks -> Errors]
      BY <1>1 DEF Errors
    <3>3. Unstable(view) \subseteq Mounted'
      BY <2>1, <2>2, UnstableMounted
    <3> HIDE DEF errors
    <3>4. error' \in [Hooks -> Errors]
      BY <3>1, <3>2, ErrorTyped DEF Rerun
    <3>5. Load(CleanUp(pending, Unstable(view)), Unstable(view), stored)
      BY <3>1 DEF Rerun
    <3>6. PendingOK'
      BY <2>3, <2>4, <2>5, <3>3, <3>5, EffectsKeep
    <3> QED
      BY <2>3, <3>4, <3>6, PartsNext
  <2>7. CASE stored # NoKey
    <3>1. Load(pending, {h}, stored) /\ error' = error
      BY <1>11, <2>7 DEF Poll
    <3>2. {h} \subseteq Mounted'
      BY <2>1, <2>2
    <3>3. PendingOK'
      BY <2>3, <2>4, <2>5, <3>1, <3>2, LoadKeeps
    <3> QED
      BY <1>1, <2>3, <3>1, <3>3, PartsNext
  <2> QED
    BY <2>6, <2>7
<1>12. ASSUME NEW r \in DOMAIN pending, Comes(r) PROVE IInv'
  <2>1. CredentialsTyped'
    BY <1>1, <1>12 DEF Comes, Answer, Refuse, Fail, Received, Dropped, CredentialsTyped
  <2>2. CASE Answer(r)
    <3>1. "none" \in Errors
      BY DEF Errors
    <3> QED
      BY <2>1, <2>2, <3>1, ReceivedKeeps, DroppedKeeps DEF Answer
  <2>3. CASE Refuse(r)
    <3>1. "401" \in Errors
      BY DEF Errors
    <3> QED
      BY <2>1, <2>3, <3>1, ReceivedKeeps, DroppedKeeps DEF Refuse
  <2>4. CASE Fail(r)
    <3>1. "failed" \in Errors
      BY DEF Errors
    <3> QED
      BY <2>1, <2>4, <3>1, ReceivedKeeps, DroppedKeeps DEF Fail
  <2> QED
    BY <1>12, <2>2, <2>3, <2>4 DEF Comes
<1>13. CASE UNCHANGED vars
  <2>1. CredentialsTyped' /\ ShownOK' /\ error' \in [Hooks -> Errors]
    BY <1>1, <1>13 DEF vars, CredentialsTyped, ShownOK, ShownTyped, Mounted
  <2> QED
    BY <1>13, <2>1, FewerKeep DEF vars
<1> QED
  BY <1>2, <1>3, <1>4, <1>5, <1>6, <1>7, <1>8, <1>9, <1>10, <1>11, <1>12, <1>13 DEF Next

\* Whatever is under way for a mounted effect is of what its hook selects.
THEOREM InductiveInvariant == Spec => []IInv
BY InitEstablishes, StepPreserves, PTL DEF Spec

\* Every variable keeps its type, a hook whose page is not shown has no data,
\* and no request is under way for an effect of a page that is gone.
THEOREM TypeCorrect == Spec => []TypeOK
<1>1. IInv => TypeOK
  BY DEF IInv
<1> QED
  BY <1>1, InductiveInvariant, PTL

-----------------------------------------------------------------------------
(* What appears.                                                           *)

Appears == \A h \in Hooks : shown'[h] \in {shown[h], Nothing, selected'[h]}

\* An answer a hook takes is of what the hook selects.
LEMMA AnswerAppears ==
    ASSUME IInv, NEW r \in DOMAIN pending, Comes(r)
    PROVE  Appears
<1>1. PendingOK /\ ShownOK
  BY Parts
<1>2. selected' = selected
  BY DEF Comes, Answer, Refuse, Fail, Received, Dropped
<1>3. CASE shown' = shown
  BY <1>3 DEF Appears
<1>4. CASE r.mounted /\ shown' = [shown EXCEPT ![r.hook] = r.of]
  <2>1. r.hook \in Hooks /\ r.of = selected[r.hook]
    BY <1>1, <1>4 DEF PendingOK, Requests
  <2> QED
    BY <1>1, <1>2, <1>4, <2>1 DEF Appears, ShownOK, ShownTyped
<1>5. [shown EXCEPT ![r.hook] = shown[r.hook]] = shown
  BY <1>1 DEF ShownOK, ShownTyped
<1> QED
  BY <1>3, <1>4, <1>5 DEF Comes, Answer, Refuse, Fail, Received, Dropped

\* No step of the user or the timer shows anything but an empty page.
LEMMA StepAppears == IInv /\ [Next]_vars => [Appears]_vars
<1> SUFFICES ASSUME IInv, Next PROVE Appears
  OBVIOUS
<1>1. ASSUME NEW key \in Keys, Submit(key) \/ ChangeKey(key) PROVE Appears
  BY <1>1 DEF Submit, ChangeKey, Appears
<1>2. CASE LoginSucceeds \/ Logout
  BY <1>2 DEF LoginSucceeds, Logout, Mount, Blank, Appears
<1>3. CASE LoginFails
  BY <1>3 DEF LoginFails, Appears
<1>4. ASSUME NEW v \in Views, Navigate(v) PROVE Appears
  BY <1>4 DEF Navigate, Mount, Blank, Appears
<1>5. ASSUME NEW p \in Periods, SelectPeriod(p) PROVE Appears
  BY <1>5 DEF SelectPeriod, Appears
<1>6. ASSUME NEW n \in Pages, SetPage(n) PROVE Appears
  BY <1>6 DEF SetPage, Appears
<1>7. ASSUME NEW f \in Filters, SetFilters(f) PROVE Appears
  BY <1>7 DEF SetFilters, Appears
<1>8. ASSUME NEW h \in Hooks, Poll(h) PROVE Appears
  BY <1>8 DEF Poll, Appears
<1>9. ASSUME NEW r \in DOMAIN pending, Comes(r) PROVE Appears
  BY <1>9, AnswerAppears
<1> QED
  BY <1>1, <1>2, <1>3, <1>4, <1>5, <1>6, <1>7, <1>8, <1>9 DEF Next

\* Answers come in any order and late: what appears on the screen is of what is
\* selected at that time.
THEOREM SelectedOnly == Spec => OnlySelectedAppears
<1>1. [Appears]_vars => [\A h \in Hooks : shown'[h] \in {shown[h], Nothing, selected'[h]}]_vars
  BY DEF Appears
<1> QED
  BY <1>1, InductiveInvariant, StepAppears, PTL DEF Spec, OnlySelectedAppears

=============================================================================
