----------------------------- MODULE IndexProofs -----------------------------
(***************************************************************************)
(* Type correctness of the main page: each action keeps the types of the   *)
(* groups of variables it assigns, and leaves the other groups alone.      *)
(* Then its inductive invariant, for every set of servers, adapters and    *)
(* credentials and any number of events, and the properties that follow.   *)
(***************************************************************************)
EXTENDS Index, TLAPS

\* A group of variables that an action leaves alone keeps its types.
LEMMA Kept ==
  ASSUME TypeOK
  PROVE  /\ UNCHANGED view => ViewOK'
         /\ UNCHANGED target => TargetOK'
         /\ UNCHANGED form => FormOK' /\ StoreOK'
         /\ UNCHANGED store => StoreOK'
         /\ UNCHANGED ops => OpsOK'
         /\ UNCHANGED flow => OpsOK' /\ FlowOK'
         /\ UNCHANGED waiting => WaitingOK'
         /\ UNCHANGED pulse => PulseOK'
         /\ UNCHANGED caller => CallerOK'
         /\ UNCHANGED entry => EntryOK'
         /\ UNCHANGED nav => NavOK'
         /\ UNCHANGED <<input, events>> => InputOK'
<1> USE DEF TypeOK
<1>1. UNCHANGED view => ViewOK'
  BY DEF view, ViewOK
<1>2. UNCHANGED target => TargetOK'
  BY DEF target, TargetOK
<1>3. UNCHANGED form => FormOK' /\ StoreOK'
  BY DEF form, store, FormOK, StoreOK
<1>12. UNCHANGED store => StoreOK'
  BY DEF store, StoreOK
<1>4. UNCHANGED ops => OpsOK'
  BY DEF OpsOK
<1>5. UNCHANGED flow => OpsOK' /\ FlowOK'
  BY DEF flow, OpsOK, FlowOK
<1>6. UNCHANGED waiting => WaitingOK'
  BY DEF waiting, WaitingOK
<1>7. UNCHANGED pulse => PulseOK'
  BY DEF pulse, PulseOK
<1>8. UNCHANGED caller => CallerOK'
  BY DEF caller, CallerOK
<1>9. UNCHANGED entry => EntryOK'
  BY DEF entry, EntryOK
<1>10. UNCHANGED nav => NavOK'
  BY DEF nav, NavOK
<1>11. UNCHANGED <<input, events>> => InputOK'
  BY DEF input, InputOK
<1> QED
  BY <1>1, <1>2, <1>3, <1>4, <1>5, <1>6, <1>7, <1>8, <1>9, <1>10, <1>11, <1>12

\* A call in flight is built from its kind, generation, signal and account.
LEMMA OpTyped ==
  ASSUME NEW k \in Kinds, NEW g \in Nat, NEW s \in Nat, NEW a \in Account
  PROVE  Op(k, g, s, a) \in [kind : Kinds, gen : Nat, sig : Nat, acct : Account]
  BY DEF Op

\* Calls that carry no account.
LEMMA NoAccountTyped == NoAccount \in Account
  BY DEF NoAccount, Account

\* runCheck (index.vue:636) keeps the types of all it assigns.
LEMMA RunCheckTypes ==
  ASSUME TypeOK, NEW byUser \in BOOLEAN, NEW left \in BOOLEAN,
         NEW rest \in SUBSET ops, RunCheck(byUser, left, rest)
  PROVE  ViewOK' /\ OpsOK' /\ FlowOK' /\ PulseOK' /\ EntryOK'
<1>1. tries' = 0 \/ tries' = tries
  BY Zenon DEF RunCheck
<1>2. EntryOK'
  <2>1. tries' \in Nat
    BY <1>1 DEF TypeOK, EntryOK
  <2>2. manual' \in BOOLEAN /\ cooldown' \in BOOLEAN /\ managedAt' \in BOOLEAN
    BY Zenon DEF RunCheck, TypeOK, EntryOK
  <2> QED
    BY <2>1, <2>2 DEF EntryOK
<1>3. OpsOK'
  <2>1. gen + 1 \in Nat /\ "check" \in Kinds
    BY DEF TypeOK, FlowOK, Kinds
  <2> QED
    BY <2>1, OpTyped, NoAccountTyped DEF RunCheck, TypeOK, OpsOK
<1>4. FlowOK'
  BY DEF RunCheck, TypeOK, FlowOK
<1>5. ViewOK' /\ PulseOK'
  BY DEF RunCheck, TypeOK, ViewOK, PulseOK
<1> QED
  BY <1>2, <1>3, <1>4, <1>5

\* The kinds of calls.
LEMMA KindsAre == {"check", "conf", "login", "verify", "stat"} \subseteq Kinds
  BY DEF Kinds

\* _autoManage (index.vue:423) counts its tries up by one or not at all.
LEMMA AutoManageTypes ==
  ASSUME TypeOK, NEW cb, AutoManage(cb)
  PROVE  EntryOK'
<1>1. tries' = tries + 1 \/ tries' = tries
  BY Zenon DEF AutoManage, entry
<1>2. tries' \in Nat
  BY <1>1 DEF TypeOK, EntryOK
<1>3. manual' \in BOOLEAN /\ cooldown' \in BOOLEAN /\ managedAt' \in BOOLEAN
  BY Zenon DEF AutoManage, entry, TypeOK, EntryOK
<1> QED
  BY <1>2, <1>3 DEF EntryOK

\* The call that startPortalConf waits for.
LEMMA ConfTyped ==
  ASSUME NEW g \in Nat, NEW s \in Nat
  PROVE  Op("conf", g, s, NoAccount) \in [kind : Kinds, gen : Nat, sig : Nat, acct : Account]
  BY OpTyped, NoAccountTyped DEF Kinds

\* The call that doLogin waits for.
LEMMA LoginTyped ==
  ASSUME NEW g \in Nat, NEW s \in Nat, NEW c \in Creds \cup {None},
         NEW b \in Servers \cup {None}, NEW a \in Adapters \cup {None}
  PROVE  Op("login", g, s, [cred |-> c, server |-> b, adapter |-> a])
           \in [kind : Kinds, gen : Nat, sig : Nat, acct : Account]
  BY OpTyped DEF Kinds, Account

\* A save reaches the file or waits for it, with an account either way.
LEMMA StoreTypes ==
  ASSUME TypeOK, NEW a \in Account, NEW reread \in BOOLEAN, Store(a, reread)
  PROVE  StoreOK'
<1>1. CASE loaded
  BY <1>1 DEF Store, TypeOK, StoreOK
<1>2. CASE ~loaded
  <2>1. saved.server \in Servers \cup {None}
    BY DEF TypeOK, StoreOK, Account
  <2> QED
    BY <1>2, <2>1 DEF Store, TypeOK, StoreOK
<1> QED
  BY <1>1, <1>2

\* The stored account arrives.
LEMMA InitDoneTypes ==
  ASSUME TypeOK, InitDone
  PROVE  TypeOK'
<1>1. ViewOK' /\ OpsOK' /\ FlowOK' /\ PulseOK' /\ EntryOK'
  BY RunCheckTypes DEF InitDone, TypeOK, NavOK
<1>2. WaitingOK'
  BY DEF InitDone, TypeOK, WaitingOK
<1>3. TargetOK'
  BY DEF InitDone, TypeOK, TargetOK, StoreOK, Account
<1>4. FormOK'
  BY DEF InitDone, TypeOK, FormOK, StoreOK, Account
<1>5. StoreOK'
  BY DEF InitDone, TypeOK, StoreOK
<1> QED
  BY <1>1, <1>2, <1>3, <1>4, <1>5, Kept DEF InitDone, TypeOK

\* onShow.
LEMMA ShowTypes ==
  ASSUME TypeOK, Show
  PROVE  TypeOK'
<1>1. ViewOK' /\ OpsOK' /\ FlowOK' /\ PulseOK' /\ EntryOK'
  BY Kept, RunCheckTypes DEF Show
<1>2. NavOK'
  BY DEF Show, TypeOK, NavOK
<1>3. InputOK'
  BY DEF Show, TypeOK, InputOK, Event, input
<1> QED
  BY <1>1, <1>2, <1>3, Kept DEF Show, TypeOK

\* onHide.
LEMMA HideTypes ==
  ASSUME TypeOK, Hide
  PROVE  TypeOK'
<1>1. NavOK'
  BY DEF Hide, TypeOK, NavOK
<1>2. PulseOK'
  BY DEF Hide, TypeOK, PulseOK
<1>3. InputOK'
  BY DEF Hide, TypeOK, InputOK, Event, input
<1> QED
  BY <1>1, <1>2, <1>3, Kept DEF Hide, TypeOK

\* onUnload.
LEMMA UnloadTypes ==
  ASSUME TypeOK, Unload
  PROVE  TypeOK'
<1>1. NavOK'
  BY DEF Unload, TypeOK, NavOK
<1>2. OpsOK'
  BY DEF Unload, TypeOK, OpsOK
<1>3. FlowOK'
  BY DEF Unload, TypeOK, FlowOK, Invalidate
<1>4. PulseOK'
  BY DEF Unload, TypeOK, PulseOK
<1>5. InputOK'
  BY DEF Unload, TypeOK, InputOK, Event, input
<1> QED
  BY <1>1, <1>2, <1>3, <1>4, <1>5, Kept DEF Unload, TypeOK

\* onNewOptions.
LEMMA NewOptionsTypes ==
  ASSUME TypeOK, NewOptions
  PROVE  TypeOK'
<1>1. CallerOK'
  BY DEF NewOptions, TypeOK, CallerOK
<1>2. InputOK'
  BY DEF NewOptions, TypeOK, InputOK, Event, input
<1> QED
  BY <1>1, <1>2, Kept DEF NewOptions, TypeOK

\* The button that checks again.
LEMMA TapRecheckTypes ==
  ASSUME TypeOK, TapRecheck
  PROVE  TypeOK'
<1>1. ViewOK' /\ OpsOK' /\ FlowOK' /\ PulseOK' /\ EntryOK'
  BY RunCheckTypes DEF TapRecheck, TypeOK, NavOK
<1>2. InputOK'
  BY DEF TapRecheck, TypeOK, InputOK, Tap, Event, input
<1> QED
  BY <1>1, <1>2, Kept DEF TapRecheck, TypeOK

\* pickAdapter.
LEMMA PickAdapterTypes ==
  ASSUME TypeOK, NEW a \in Adapters, PickAdapter(a)
  PROVE  TypeOK'
<1>1. ViewOK'
  BY DEF PickAdapter, TypeOK, ViewOK, StartConf
<1>2. TargetOK'
  BY DEF PickAdapter, TypeOK, TargetOK, StartConf
<1>3. OpsOK'
  <2>1. \/ ops' = ops
        \/ ops' = ops \cup {Op("conf", gen + 1, signal, NoAccount)}
    BY DEF PickAdapter, StartConf
  <2>2. gen \in Nat /\ gen + 1 \in Nat /\ signal \in Nat
    BY DEF TypeOK, FlowOK
  <2> QED
    BY <2>1, <2>2, ConfTyped DEF TypeOK, OpsOK
<1>4. FlowOK'
  BY DEF PickAdapter, TypeOK, FlowOK
<1>5. InputOK'
  BY DEF PickAdapter, TypeOK, InputOK, Tap, Event, input
<1> QED
  BY <1>1, <1>2, <1>3, <1>4, <1>5, Kept DEF PickAdapter, TypeOK

\* applyManualServer.
LEMMA ApplyManualTypes ==
  ASSUME TypeOK, ApplyManual
  PROVE  TypeOK'
<1>1. ViewOK'
  BY DEF ApplyManual, TypeOK, ViewOK, StartConf
<1>2. TargetOK'
  BY DEF ApplyManual, TypeOK, TargetOK, StartConf, FormOK
<1>3. FormOK'
  BY DEF ApplyManual, TypeOK, FormOK
<1>7. StoreOK'
  <2>1. \/ UNCHANGED store
        \/ Store([saved EXCEPT !.server = manualServer], FALSE)
    BY DEF ApplyManual
  <2>2. [saved EXCEPT !.server = manualServer] \in Account
    BY DEF TypeOK, FormOK, StoreOK, Account
  <2> QED
    BY <2>1, <2>2, StoreTypes, Kept
<1>4. OpsOK'
  <2>1. \/ ops' = ops
        \/ ops' = ops \cup {Op("conf", gen + 1, signal, NoAccount)}
    BY DEF ApplyManual, StartConf
  <2>2. gen \in Nat /\ gen + 1 \in Nat /\ signal \in Nat
    BY DEF TypeOK, FlowOK
  <2> QED
    BY <2>1, <2>2, ConfTyped DEF TypeOK, OpsOK
<1>5. FlowOK'
  <2>1. gen' = gen \/ gen' = gen + 1
    BY DEF ApplyManual
  <2> QED
    BY <2>1 DEF ApplyManual, TypeOK, FlowOK
<1>6. InputOK'
  BY DEF ApplyManual, TypeOK, InputOK, Tap, Event, input
<1> QED
  BY <1>1, <1>2, <1>3, <1>4, <1>5, <1>6, <1>7, Kept DEF ApplyManual, TypeOK

\* The fields that open the input method.
LEMMA EditTypes ==
  ASSUME TypeOK, Edit
  PROVE  TypeOK'
<1>1. InputOK'
  <2>1. PICK f \in Fields : ime' = [ime EXCEPT ![f] = @ + 1]
    BY DEF Edit
  <2>2. ime' \in [Fields -> Nat]
    BY <2>1 DEF TypeOK, InputOK
  <2> QED
    BY <2>2 DEF Edit, TypeOK, InputOK, Tap, Event
<1> QED
  BY <1>1, Kept DEF Edit, TypeOK

\* The input method returns.
LEMMA ImeDoneTypes ==
  ASSUME TypeOK, NEW f \in Fields, ImeDone(f)
  PROVE  TypeOK'
<1>1. InputOK'
  <2>1. \/ f = "user" /\ ime' = [ime EXCEPT !.user = @ - 1]
        \/ f = "user" /\ ime' = [ime EXCEPT !.user = @ - 1, !.password = @ + 1]
        \/ ime' = [ime EXCEPT ![f] = @ - 1]
    BY DEF ImeDone
  <2>2. ime[f] - 1 \in Nat
    BY DEF ImeDone, TypeOK, InputOK
  <2>3. ime' \in [Fields -> Nat]
    <3>1. CASE f = "user"
      <4>1. /\ "user" \in Fields /\ "password" \in Fields
            /\ ime["password"] + 1 \in Nat /\ ime["user"] - 1 \in Nat
        BY <2>2, <3>1 DEF TypeOK, InputOK, Fields
      <4> QED
        BY <2>1, <3>1, <4>1 DEF TypeOK, InputOK
    <3>2. CASE f # "user"
      BY <2>1, <2>2, <3>2 DEF TypeOK, InputOK
    <3> QED
      BY <3>1, <3>2
  <2>4. imeBusy' \in BOOLEAN /\ imeClosed' \in BOOLEAN /\ events' = events
    BY DEF ImeDone
  <2> QED
    BY <2>3, <2>4 DEF TypeOK, InputOK
<1>2. FormOK'
  <2>1. cred' \in Creds \cup {None} /\ manualServer' \in Servers \cup {None}
    BY DEF ImeDone, TypeOK, FormOK
  <2> QED
    BY <2>1 DEF ImeDone, TypeOK, FormOK
<1> QED
  BY <1>1, <1>2, Kept DEF ImeDone, TypeOK

\* The remember switch.
LEMMA ToggleRememberTypes ==
  ASSUME TypeOK, ToggleRemember
  PROVE  TypeOK'
<1>1. FormOK'
  BY DEF ToggleRemember, TypeOK, FormOK
<1>2. InputOK'
  BY DEF ToggleRemember, TypeOK, InputOK, Tap, Event, input
<1> QED
  BY <1>1, <1>2, Kept DEF ToggleRemember, TypeOK

\* doLogin up to its await.
LEMMA TapLoginTypes ==
  ASSUME TypeOK, TapLogin
  PROVE  TypeOK'
<1>1. OpsOK'
  BY LoginTyped DEF TapLogin, StartLogin, TypeOK, OpsOK, FlowOK, TargetOK, FormOK
<1>2. FlowOK'
  BY DEF TapLogin, TypeOK, FlowOK, StartLogin
<1>3. InputOK'
  BY DEF TapLogin, TypeOK, InputOK, Tap, Event, input
<1> QED
  BY <1>1, <1>2, <1>3, Kept DEF TapLogin, TypeOK

\* The button to the management page.
LEMMA TapManageTypes ==
  ASSUME TypeOK, TapManage
  PROVE  TypeOK'
<1>1. NavOK'
  BY DEF TapManage, TypeOK, NavOK
<1>2. PulseOK'
  BY DEF TapManage, TypeOK, PulseOK
<1>3. InputOK'
  BY DEF TapManage, TypeOK, InputOK, Tap, Event, input
<1> QED
  BY <1>1, <1>2, <1>3, Kept DEF TapManage, TypeOK

\* doLogout up to its await.
LEMMA TapLogoutTypes ==
  ASSUME TypeOK, TapLogout
  PROVE  TypeOK'
<1>1. WaitingOK'
  BY DEF TapLogout, TypeOK, WaitingOK
<1>2. InputOK'
  BY DEF TapLogout, TypeOK, InputOK, Tap, Event, input
<1> QED
  BY <1>1, <1>2, Kept DEF TapLogout, TypeOK

\* A continuation that its generation check drops.
LEMMA DropTypes ==
  ASSUME TypeOK, NEW o \in ops, Drop(o)
  PROVE  TypeOK'
<1>1. OpsOK'
  BY DEF Drop, TypeOK, OpsOK
<1>2. FlowOK'
  BY DEF Drop, TypeOK, FlowOK
<1> QED
  BY <1>1, <1>2, Kept DEF Drop, TypeOK

\* The verdict of a check, in its four ways.
LEMMA CheckDoneTypes ==
  ASSUME TypeOK, NEW o \in ops, CheckDone(o)
  PROVE  TypeOK'
<1>1. CallerOK'
  <2>1. callback' = "sent" \/ callback' = callback
    BY Zenon DEF CheckDone, Deliver
  <2> QED
    BY <2>1 DEF CheckDone, TypeOK, CallerOK
<1>2. FlowOK'
  BY DEF CheckDone, TypeOK, FlowOK
<1>3. ViewOK' /\ TargetOK' /\ OpsOK' /\ EntryOK' /\ timers' \in Nat
  <2>1. CASE CheckFree /\ ops' = ops \ {o}
    <3>1. ViewOK'
      BY <2>1 DEF CheckFree, TypeOK, ViewOK
    <3>2. timers' \in Nat
      BY <2>1 DEF CheckFree, AutoManage, TypeOK, NavOK
    <3>3. TargetOK'
      BY <2>1, AdaptersAssumption DEF CheckDone, CheckFree, KnownAdapter, TypeOK, TargetOK
    <3>4. EntryOK'
      BY <2>1, Kept, AutoManageTypes DEF CheckFree
    <3>5. OpsOK'
      BY <2>1 DEF TypeOK, OpsOK
    <3> QED
      BY <3>1, <3>2, <3>3, <3>4, <3>5
  <2>2. CASE CheckOffline /\ ops' = ops \ {o}
    <3>1. ViewOK'
      BY <2>2 DEF CheckOffline, TypeOK, ViewOK
    <3>2. TargetOK'
      BY <2>2 DEF CheckDone, CheckOffline, TypeOK, TargetOK
    <3>3. OpsOK' /\ EntryOK' /\ timers' \in Nat
      BY <2>2, Kept DEF CheckOffline, TypeOK, OpsOK, NavOK
    <3> QED
      BY <3>1, <3>2, <3>3
  <2>3. ASSUME NEW s, NEW best, CheckUnknown(s, best), ops' = ops \ {o}
        PROVE  ViewOK' /\ TargetOK' /\ OpsOK' /\ EntryOK' /\ timers' \in Nat
    <3>1. ViewOK'
      BY <2>3 DEF CheckUnknown, TypeOK, ViewOK
    <3>2. TargetOK'
      BY <2>3 DEF CheckDone, CheckUnknown, TypeOK, TargetOK
    <3>3. OpsOK' /\ EntryOK' /\ timers' \in Nat
      BY <2>3, Kept DEF CheckUnknown, TypeOK, OpsOK, NavOK
    <3> QED
      BY <3>1, <3>2, <3>3
  <2>4. ASSUME NEW base \in Servers, NEW a \in Adapters,
               StartConf(a, base, gen, ops \ {o}),
               UNCHANGED <<pageState, showForm, showManual, canLogout, entry, timers>>
        PROVE  ViewOK' /\ TargetOK' /\ OpsOK' /\ EntryOK' /\ timers' \in Nat
    <3>1. ViewOK'
      BY <2>4 DEF StartConf, TypeOK, ViewOK
    <3>2. TargetOK'
      BY <2>4 DEF CheckDone, StartConf, TypeOK, TargetOK
    <3>3. OpsOK'
      BY <2>4, ConfTyped DEF StartConf, TypeOK, OpsOK, FlowOK
    <3>4. EntryOK' /\ timers' \in Nat
      BY <2>4, Kept DEF TypeOK, NavOK
    <3> QED
      BY <3>1, <3>2, <3>3, <3>4
  <2> QED
    BY <2>1, <2>2, <2>3, <2>4 DEF CheckDone
<1>4. NavOK'
  BY <1>3 DEF CheckDone, TypeOK, NavOK
<1> QED
  BY <1>1, <1>2, <1>3, <1>4, Kept DEF CheckDone, TypeOK

\* startPortalConf after its await.
LEMMA ConfDoneTypes ==
  ASSUME TypeOK, NEW o \in ops, ConfDone(o)
  PROVE  TypeOK'
<1>1. ViewOK'
  BY DEF ConfDone, TypeOK, ViewOK, Online
<1>2. FormOK'
  BY DEF ConfDone, TypeOK, FormOK, TargetOK
<1>3. OpsOK'
  BY DEF ConfDone, TypeOK, OpsOK
<1>4. FlowOK'
  BY DEF ConfDone, TypeOK, FlowOK
<1>5. PulseOK'
  <2>1. heartbeat' \in BOOLEAN
    BY Zenon DEF ConfDone, Online, TypeOK, PulseOK, pulse
  <2>2. synced' \in BOOLEAN
    BY Zenon DEF ConfDone, TypeOK, PulseOK, pulse
  <2> QED
    BY <2>1, <2>2 DEF PulseOK
<1>6. EntryOK'
  BY Kept, AutoManageTypes DEF ConfDone
<1>7. NavOK'
  BY DEF ConfDone, TypeOK, NavOK, AutoManage
<1> QED
  BY <1>1, <1>2, <1>3, <1>4, <1>5, <1>6, <1>7, Kept DEF ConfDone, TypeOK

\* doLogin after its await.
LEMMA LoginDoneTypes ==
  ASSUME TypeOK, NEW o \in ops, LoginDone(o)
  PROVE  TypeOK'
<1>1. ViewOK'
  BY DEF LoginDone, TypeOK, ViewOK
<1>2. FormOK'
  BY DEF LoginDone, TypeOK, FormOK
<1>6. StoreOK'
  <2> DEFINE a == [cred    |-> IF remember THEN cred ELSE None,
                   server  |-> server,
                   adapter |-> o.acct.adapter]
  <2>1. UNCHANGED store \/ Store(a, ~remember)
    BY DEF LoginDone
  <2>2. a \in Account
    BY DEF TypeOK, FormOK, TargetOK, OpsOK, Account
  <2>3. (~remember) \in BOOLEAN
    OBVIOUS
  <2> HIDE DEF a
  <2> QED
    BY <2>1, <2>2, <2>3, StoreTypes, Kept
<1>3. OpsOK'
  <2>1. \/ ops' = ops \ {o}
        \/ ops' = (ops \ {o}) \cup {Op("verify", gen, signal, NoAccount)}
    BY DEF LoginDone
  <2>2. gen \in Nat /\ gen + 1 \in Nat /\ signal \in Nat
    BY DEF TypeOK, FlowOK
  <2> QED
    BY <2>1, <2>2, OpTyped, NoAccountTyped, KindsAre DEF TypeOK, OpsOK
<1>4. FlowOK'
  BY DEF LoginDone, TypeOK, FlowOK
<1>5. PulseOK'
  BY DEF LoginDone, TypeOK, PulseOK
<1> QED
  BY <1>1, <1>2, <1>3, <1>4, <1>5, <1>6, Kept DEF LoginDone, TypeOK

\* The file is there for a save.
LEMMA SaveDoneTypes ==
  ASSUME TypeOK, NEW r \in saves, SaveDone(r)
  PROVE  TypeOK'
<1>1. FormOK'
  BY DEF SaveDone, TypeOK, FormOK
<1>2. saved' \in Account
  <2>1. r.acct \in Account /\ r.was \in Servers \cup {None}
    BY DEF TypeOK, StoreOK
  <2>2. \/ saved' = r.acct
        \/ saved' = [r.acct EXCEPT !.server = server]
        \/ saved' = [r.acct EXCEPT !.server = r.was]
    BY DEF SaveDone
  <2> QED
    BY <2>1, <2>2 DEF TypeOK, TargetOK, Account
<1>3. StoreOK'
  BY <1>2 DEF SaveDone, TypeOK, StoreOK
<1> QED
  BY <1>1, <1>3, Kept DEF SaveDone, TypeOK

\* verifyOnline after its promise.
LEMMA VerifyDoneTypes ==
  ASSUME TypeOK, NEW o \in ops, VerifyDone(o)
  PROVE  TypeOK'
<1>1. ViewOK'
  BY DEF VerifyDone, TypeOK, ViewOK, Online
<1>2. OpsOK'
  BY DEF VerifyDone, TypeOK, OpsOK
<1>3. FlowOK'
  BY DEF VerifyDone, TypeOK, FlowOK
<1>4. PulseOK'
  BY DEF VerifyDone, TypeOK, PulseOK, Online
<1>5. EntryOK'
  BY Kept, AutoManageTypes DEF VerifyDone
<1>6. NavOK'
  BY DEF VerifyDone, TypeOK, NavOK, AutoManage
<1> QED
  BY <1>1, <1>2, <1>3, <1>4, <1>5, <1>6, Kept DEF VerifyDone, TypeOK

\* The heartbeat sends a query.
LEMMA StatTickTypes ==
  ASSUME TypeOK, StatTick
  PROVE  TypeOK'
<1>1. OpsOK'
  <2>1. ops' = ops \cup {Op("stat", gen, signal, NoAccount)}
    BY DEF StatTick
  <2>2. gen \in Nat /\ gen + 1 \in Nat /\ signal \in Nat
    BY DEF TypeOK, FlowOK
  <2> QED
    BY <2>1, <2>2, OpTyped, NoAccountTyped, KindsAre DEF TypeOK, OpsOK
<1>2. FlowOK'
  BY DEF StatTick, TypeOK, FlowOK
<1> QED
  BY <1>1, <1>2, Kept DEF StatTick, TypeOK

\* The query is answered.
LEMMA StatDoneTypes ==
  ASSUME TypeOK, NEW o \in ops, StatDone(o)
  PROVE  TypeOK'
<1>1. ViewOK'
  BY DEF StatDone, TypeOK, ViewOK, Online
<1>2. OpsOK'
  BY DEF StatDone, TypeOK, OpsOK
<1>3. FlowOK'
  BY DEF StatDone, TypeOK, FlowOK
<1>4. PulseOK'
  BY DEF StatDone, TypeOK, PulseOK, Online
<1> QED
  BY <1>1, <1>2, <1>3, <1>4, Kept DEF StatDone, TypeOK

\* doLogout after its await.
LEMMA LogoutDoneTypes ==
  ASSUME TypeOK, LogoutDone
  PROVE  TypeOK'
<1>1. ViewOK' /\ OpsOK' /\ FlowOK' /\ PulseOK' /\ EntryOK'
  BY RunCheckTypes DEF LogoutDone, TypeOK, NavOK
<1>2. WaitingOK'
  BY DEF LogoutDone, TypeOK, WaitingOK
<1> QED
  BY <1>1, <1>2, Kept DEF LogoutDone, TypeOK

\* The timer that opens the management page.
LEMMA ManageTimerTypes ==
  ASSUME TypeOK, ManageTimer
  PROVE  TypeOK'
<1>1. NavOK'
  BY DEF ManageTimer, TypeOK, NavOK
<1>2. PulseOK'
  BY DEF ManageTimer, TypeOK, PulseOK
<1> QED
  BY <1>1, <1>2, Kept DEF ManageTimer, TypeOK

\* Event wifiManageUsable.
LEMMA ManageUsableTypes ==
  ASSUME TypeOK, ManageUsable
  PROVE  TypeOK'
<1>1. EntryOK'
  BY DEF ManageUsable, TypeOK, EntryOK
<1>2. InputOK'
  BY DEF ManageUsable, TypeOK, InputOK, Event, input
<1> QED
  BY <1>1, <1>2, Kept DEF ManageUsable, TypeOK

\* Event wifiManageClosed.
LEMMA ManageClosedTypes ==
  ASSUME TypeOK, NEW failed \in BOOLEAN, ManageClosed(failed)
  PROVE  TypeOK'
<1>1. EntryOK'
  <2>1. tries' = 2 \/ tries' = tries
    BY Zenon DEF ManageClosed
  <2>2. manual' \in BOOLEAN /\ cooldown' \in BOOLEAN /\ managedAt' \in BOOLEAN
    BY Zenon DEF ManageClosed, TypeOK, EntryOK
  <2> QED
    BY <2>1, <2>2 DEF TypeOK, EntryOK
<1>2. NavOK'
  BY DEF ManageClosed, TypeOK, NavOK
<1>3. InputOK'
  BY DEF ManageClosed, TypeOK, InputOK, Event, input
<1> QED
  BY <1>1, <1>2, <1>3, Kept DEF ManageClosed, TypeOK

\* The log or about page opens.
LEMMA OpenOtherTypes ==
  ASSUME TypeOK, OpenOther
  PROVE  TypeOK'
<1>1. NavOK'
  BY DEF OpenOther, TypeOK, NavOK
<1>2. InputOK'
  BY DEF OpenOther, TypeOK, InputOK, Tap, Event, input
<1> QED
  BY <1>1, <1>2, Kept DEF OpenOther, TypeOK

\* The log or about page closes.
LEMMA OtherClosedTypes ==
  ASSUME TypeOK, OtherClosed
  PROVE  TypeOK'
<1>1. NavOK'
  BY DEF OtherClosed, TypeOK, NavOK
<1>2. InputOK'
  BY DEF OtherClosed, TypeOK, InputOK, Event, input
<1> QED
  BY <1>1, <1>2, Kept DEF OtherClosed, TypeOK

\* The first onShow, in its five ways.
LEMMA ShowFirstTypes ==
  ASSUME TypeOK, NEW l \in Launches, ShowFirst(l)
  PROVE  TypeOK'
<1>1. InputOK'
  BY Kept DEF ShowFirst
<1>2. NavOK'
  BY DEF ShowFirst, TypeOK, NavOK
<1>3. CallerOK'
  <2>1. callback' = "armed" \/ callback' = callback
    BY Zenon DEF ShowFirst
  <2>2. launched' \in BOOLEAN /\ relaunches' = relaunches
    BY Zenon DEF ShowFirst
  <2> QED
    BY <2>1, <2>2 DEF TypeOK, CallerOK
<1>4. WaitingOK'
  <2>1. initing' = TRUE \/ initing' = initing
    BY Zenon DEF ShowFirst
  <2>2. logouts' = logouts
    BY DEF ShowFirst
  <2> QED
    BY <2>1, <2>2 DEF TypeOK, WaitingOK
<1>5. l \in Launch
  BY EnvironmentAssumption
<1>6. TargetOK'
  BY <1>5, Kept, AdaptersAssumption DEF ShowFirst, TypeOK, TargetOK, Launch, target
<1>7. FormOK'
  <2>1. cred' = l.cred \/ cred' = cred
    BY Zenon DEF ShowFirst
  <2>2. remember' \in BOOLEAN
    BY Zenon DEF ShowFirst, TypeOK, FormOK
  <2>3. manualServer' = manualServer
    BY DEF ShowFirst
  <2> QED
    BY <1>5, <2>1, <2>2, <2>3 DEF TypeOK, FormOK, Launch
<1>8. ViewOK' /\ OpsOK' /\ FlowOK' /\ PulseOK' /\ EntryOK'
  <2>1. CASE RunCheck(FALSE, leftAt, ops)
    BY <2>1, RunCheckTypes DEF TypeOK, NavOK
  <2>2. CASE UNCHANGED <<view, flow, pulse, entry>>
    BY <2>2, Kept
  <2>3. CASE l.server # None /\ l.action \in {"login", "other"}
    <3>1. ViewOK'
      BY <2>3 DEF ShowFirst, TypeOK, ViewOK
    <3>2. PulseOK' /\ EntryOK'
      BY <2>3, Kept DEF ShowFirst, PulseOK
    <3>3. \/ UNCHANGED <<gen, ops, logging>>
          \/ StartLogin(adapter', l.server, l.cred, ops)
      BY Zenon, <2>3 DEF ShowFirst
    <3>4. signal' = signal /\ checking' = checking
      BY <2>3 DEF ShowFirst
    <3>5. OpsOK' /\ FlowOK'
      <4>1. CASE UNCHANGED <<gen, ops, logging>>
        BY <3>4, <4>1, Kept DEF flow
      <4>2. CASE StartLogin(adapter', l.server, l.cred, ops)
        <5>1. adapter' \in Adapters \cup {None} /\ gen + 1 \in Nat /\ signal \in Nat
          BY <1>6 DEF TargetOK, TypeOK, FlowOK
        <5>2. OpsOK'
          <6>1. Op("login", gen + 1, signal,
                    [cred |-> l.cred, server |-> l.server, adapter |-> adapter'])
                  \in [kind : Kinds, gen : Nat, sig : Nat, acct : Account]
            <7>1. l.cred \in Creds \cup {None} /\ l.server \in Servers \cup {None}
              BY <1>5 DEF Launch
            <7> QED
              BY <5>1, <7>1, LoginTyped
          <6> QED
            BY <4>2, <6>1 DEF StartLogin, TypeOK, OpsOK
        <5>3. FlowOK'
          BY <3>4, <4>2 DEF StartLogin, TypeOK, FlowOK
        <5> QED
          BY <5>2, <5>3
      <4> QED
        BY <3>3, <4>1, <4>2
    <3> QED
      BY <3>1, <3>2, <3>5
  <2> QED
    BY <2>1, <2>2, <2>3 DEF ShowFirst
<1>9. StoreOK'
  BY Kept DEF ShowFirst
<1> QED
  BY <1>1, <1>2, <1>3, <1>4, <1>6, <1>7, <1>8, <1>9 DEF TypeOK

\* The page starts with values of these types.
THEOREM InitTypes == Init => TypeOK
<1> SUFFICES ASSUME Init PROVE TypeOK
  OBVIOUS
<1>1. ViewOK /\ TargetOK /\ PulseOK
  BY DEF Init, ViewOK, TargetOK, PulseOK
<1>2. FormOK /\ StoreOK
  BY EnvironmentAssumption DEF Init, FormOK, StoreOK
<1>3. OpsOK /\ FlowOK /\ WaitingOK
  BY DEF Init, OpsOK, FlowOK, WaitingOK
<1>4. CallerOK /\ EntryOK
  BY DEF Init, CallerOK, EntryOK
<1>5. NavOK /\ InputOK
  BY DEF Init, NavOK, InputOK
<1> QED
  BY <1>1, <1>2, <1>3, <1>4, <1>5 DEF TypeOK

\* Every step keeps the types.
THEOREM TypeStep == TypeOK /\ [Next]_vars => TypeOK'
<1> SUFFICES ASSUME TypeOK, [Next]_vars PROVE TypeOK'
  OBVIOUS
<1>1. CASE UNCHANGED vars
  BY <1>1, Kept DEF vars, TypeOK
<1>2. CASE LifeCycle
  BY <1>2, ShowTypes, HideTypes, UnloadTypes, NewOptionsTypes, ShowFirstTypes
     DEF LifeCycle
<1>3. CASE User
  BY <1>3, TapRecheckTypes, ApplyManualTypes, EditTypes, ToggleRememberTypes,
     TapLoginTypes, TapManageTypes, TapLogoutTypes, OpenOtherTypes, PickAdapterTypes DEF User
<1>4. CASE Management
  BY <1>4, ManageUsableTypes, OtherClosedTypes, ManageClosedTypes DEF Management
<1>5. ASSUME NEW o \in ops, Settle(o) PROVE TypeOK'
  BY <1>5, DropTypes, CheckDoneTypes, ConfDoneTypes, LoginDoneTypes,
     VerifyDoneTypes, StatDoneTypes DEF Settle
<1> QED
  BY <1>1, <1>2, <1>3, <1>4, <1>5, InitDoneTypes, ImeDoneTypes, StatTickTypes,
     LogoutDoneTypes, ManageTimerTypes, SaveDoneTypes DEF Next

-----------------------------------------------------------------------------

\* The conjuncts of Inv that say which calls are in flight.
Calls == NewIsIdle /\ GensBounded /\ CurrentSignal /\ OneCurrentFlow
\* ... what the page shows meanwhile, and what it works with.
Page == QuietWhenOnline /\ BusyIsChecking
Targets == ActionsHaveTarget /\ LoginTarget
Rest == Calls /\ Page /\ Targets

\* Inv in these three parts.
LEMMA InvParts == Inv <=> TypeOK /\ Rest
  BY DEF Inv, Rest, Calls, Page, Targets

\* The page starts with nothing in flight.
THEOREM InitInv == Init => Inv
<1> SUFFICES ASSUME Init PROVE TypeOK /\ Rest
  BY InvParts
<1>1. TypeOK
  BY InitTypes
<1>2. Calls
  BY DEF Init, Calls, NewIsIdle, GensBounded, CurrentSignal, OneCurrentFlow, Current
<1>3. Page
  BY DEF Init, Page, QuietWhenOnline, BusyIsChecking, Current
<1>4. Targets
  BY DEF Init, Targets, ActionsHaveTarget, LoginTarget, Current
<1> QED
  BY <1>1, <1>2, <1>3, <1>4 DEF Rest

-----------------------------------------------------------------------------
(* What a step may do to the calls in flight.                              *)

\* No call in flight belongs to a generation that has not begun.
LEMMA NoCallAhead ==
  ASSUME TypeOK, GensBounded
  PROVE  \A o \in ops : o.gen # gen + 1
  BY DEF TypeOK, FlowOK, OpsOK, GensBounded

\* A call that is started with the next generation is the only current one.
LEMMA NextGeneration ==
  ASSUME TypeOK, Calls, NEW c, c.gen = gen + 1, c.sig = signal', life' # "new",
         gen' = gen + 1, ops' = ops \cup {c}
  PROVE  Calls' /\ Current' = {c}
<1>1. Current' = {c}
  BY NoCallAhead DEF Calls, Current
<1>2. GensBounded'
  BY DEF Calls, GensBounded, TypeOK, OpsOK, FlowOK
<1> QED
  BY <1>1, <1>2 DEF Calls, NewIsIdle, CurrentSignal, OneCurrentFlow

\* A continuation takes its own call away, and nothing else.
LEMMA Removed ==
  ASSUME Calls, NEW o \in ops, ops' = ops \ {o}, UNCHANGED <<gen, signal, life>>
  PROVE  Calls' /\ Current' = Current \ {o}
  BY DEF Calls, NewIsIdle, GensBounded, CurrentSignal, OneCurrentFlow, Current

\* A continuation may put the next call of its flow in its place.
LEMMA Replaced ==
  ASSUME TypeOK, Calls, NEW o \in Current, o.kind # "stat",
         NEW c, c.gen = gen, c.sig = signal, UNCHANGED <<gen, signal, life>>,
         ops' = (ops \ {o}) \cup {c}
  PROVE  Calls' /\ Current' = (Current \ {o}) \cup {c}
<1>1. Current' = (Current \ {o}) \cup {c}
  BY DEF Current
<1>2. \A p \in Current \ {o} : p.kind = "stat"
  BY DEF Calls, OneCurrentFlow
<1>3. OneCurrentFlow'
  BY <1>1, <1>2 DEF OneCurrentFlow
<1>4. GensBounded'
  BY DEF Calls, GensBounded, TypeOK, FlowOK
<1> QED
  BY <1>1, <1>3, <1>4 DEF Calls, NewIsIdle, CurrentSignal, Current

\* A step that starts and ends no call, and at most stops the heartbeat.
LEMMA Undisturbed ==
  ASSUME Rest, UNCHANGED <<pageState, showForm, canLogout, server, adapter,
                           gen, signal, ops, initing>>,
         life' = "new" => life = "new" /\ logouts' = logouts,
         heartbeat' => heartbeat
  PROVE  Rest'
<1>1. Current' = Current
  BY DEF Current
<1>2. Calls'
  BY <1>1 DEF Rest, Calls, NewIsIdle, GensBounded, CurrentSignal, OneCurrentFlow
<1>3. Page'
  BY <1>1 DEF Rest, Page, QuietWhenOnline, BusyIsChecking
<1>4. Targets'
  BY <1>1 DEF Rest, Targets, ActionsHaveTarget, LoginTarget
<1> QED
  BY <1>2, <1>3, <1>4 DEF Rest

\* runCheck, from whatever handler.
LEMMA RunCheckInv ==
  ASSUME TypeOK, Rest, NEW byUser \in BOOLEAN, NEW left \in BOOLEAN,
         RunCheck(byUser, left, ops), UNCHANGED <<server, adapter>>, life' # "new"
  PROVE  Rest'
<1> DEFINE c == Op("check", gen + 1, gen + 1, NoAccount)
<1>1. /\ gen' = gen + 1 /\ signal' = gen + 1 /\ ops' = ops \cup {c}
      /\ c.gen = gen + 1 /\ c.sig = gen + 1 /\ c.kind = "check"
  BY DEF RunCheck, Op
<1>2. Calls' /\ Current' = {c}
  BY <1>1, NextGeneration DEF Rest
<1>3. Page'
  BY <1>1, <1>2 DEF RunCheck, Page, QuietWhenOnline, BusyIsChecking
<1>4. Targets'
  BY <1>1, <1>2 DEF RunCheck, Rest, Targets, ActionsHaveTarget, LoginTarget
<1> QED
  BY <1>2, <1>3, <1>4 DEF Rest

\* startPortalConf, entered with the next generation.
LEMMA StartConfInv ==
  ASSUME TypeOK, Rest, NEW a \in Adapters, NEW s \in Servers, gen' = gen + 1,
         StartConf(a, s, gen + 1, ops), life' # "new",
         UNCHANGED <<pageState, showForm, canLogout, signal, heartbeat>>
  PROVE  Rest'
<1> DEFINE c == Op("conf", gen + 1, signal, NoAccount)
<1>1. /\ ops' = ops \cup {c} /\ server' = s /\ adapter' = a
      /\ c.gen = gen + 1 /\ c.sig = signal /\ c.kind = "conf"
  BY DEF StartConf, Op
<1>2. Calls' /\ Current' = {c}
  BY <1>1, NextGeneration DEF Rest
<1>3. Page'
  BY <1>1, <1>2 DEF Rest, Page, QuietWhenOnline, BusyIsChecking
<1>4. Targets'
  BY <1>1, <1>2, NoneAssumption DEF Targets, ActionsHaveTarget, LoginTarget
<1> QED
  BY <1>2, <1>3, <1>4 DEF Rest

-----------------------------------------------------------------------------
(* The steps that start a check, or nothing.                               *)

\* The steps that only touch the user's inputs, the pages in front and the
\* heartbeat, which they may stop.
LEMMA QuietSteps ==
  ASSUME TypeOK, Rest,
         \/ Hide \/ NewOptions \/ Edit \/ ToggleRemember \/ TapManage
         \/ TapLogout \/ ManageTimer \/ ManageUsable \/ OtherClosed \/ OpenOther
         \/ \E f \in Fields : ImeDone(f)
         \/ \E r \in saves : SaveDone(r)
         \/ \E failed \in BOOLEAN : ManageClosed(failed)
  PROVE  Rest'
<1> USE DEF view, target, flow, waiting, pulse, nav
<1>1. CASE Hide
  BY <1>1, Undisturbed DEF Hide
<1>2. CASE NewOptions \/ Edit \/ ToggleRemember
  BY <1>2, Undisturbed DEF NewOptions, Edit, ToggleRemember
<1>3. ASSUME NEW f \in Fields, ImeDone(f) PROVE Rest'
  BY <1>3, Undisturbed DEF ImeDone
<1>4. CASE TapManage
  BY <1>4, Undisturbed DEF TapManage
<1>5. CASE TapLogout
  BY <1>5, Undisturbed DEF TapLogout, Tap
<1>6. CASE ManageTimer
  BY <1>6, Undisturbed DEF ManageTimer
<1>7. CASE ManageUsable \/ OtherClosed \/ OpenOther
  BY <1>7, Undisturbed DEF ManageUsable, OtherClosed, OpenOther
<1>9. ASSUME NEW r \in saves, SaveDone(r) PROVE Rest'
  BY <1>9, Undisturbed DEF SaveDone
<1>8. ASSUME NEW failed \in BOOLEAN, ManageClosed(failed) PROVE Rest'
  BY <1>8, Undisturbed DEF ManageClosed
<1> QED
  BY <1>1, <1>2, <1>3, <1>4, <1>5, <1>6, <1>7, <1>8, <1>9

\* The stored account arrives: only a page that has been shown waits for it.
LEMMA InitDoneInv == ASSUME TypeOK, Rest, InitDone PROVE Rest'
<1>1. life' # "new"
  BY DEF Rest, Calls, NewIsIdle, InitDone, nav
<1> QED
  BY <1>1, RunCheckInv DEF InitDone, TypeOK, NavOK

\* onShow starts a check or leaves everything as it is.
LEMMA ShowInv == ASSUME TypeOK, Rest, Show PROVE Rest'
<1>1. CASE RunCheck(FALSE, FALSE, ops)
  BY <1>1, RunCheckInv DEF Show, target
<1>2. CASE UNCHANGED <<view, flow, pulse>>
  BY <1>2, Undisturbed DEF Show, view, target, flow, waiting, pulse
<1> QED
  BY <1>1, <1>2 DEF Show

\* The button "check again".
LEMMA TapRecheckInv == ASSUME TypeOK, Rest, TapRecheck PROVE Rest'
  BY RunCheckInv DEF TapRecheck, Tap, TypeOK, NavOK, nav, target

\* A logout that has been answered.
LEMMA LogoutDoneInv == ASSUME TypeOK, Rest, LogoutDone PROVE Rest'
<1>1. life' # "new"
  BY DEF Rest, Calls, NewIsIdle, LogoutDone, nav, TypeOK, WaitingOK
<1> QED
  BY <1>1, RunCheckInv DEF LogoutDone, TypeOK, NavOK, target

\* onUnload leaves no call current.
LEMMA UnloadInv == ASSUME TypeOK, Rest, Unload PROVE Rest'
<1>1. Current' = {}
  BY NoCallAhead DEF Rest, Calls, Unload, Invalidate, Current
<1>2. Calls'
  <2>1. GensBounded'
    BY DEF Rest, Calls, GensBounded, Unload, Invalidate, TypeOK, OpsOK, FlowOK
  <2> QED
    BY <1>1, <2>1 DEF Unload, Calls, NewIsIdle, CurrentSignal, OneCurrentFlow
<1>3. Page'
  BY <1>1 DEF Rest, Unload, Page, QuietWhenOnline, BusyIsChecking, view
<1>4. Targets'
  BY <1>1 DEF Rest, Unload, Targets, ActionsHaveTarget, LoginTarget, target, view
<1> QED
  BY <1>2, <1>3, <1>4 DEF Rest

\* pickAdapter starts a configuration, or only remembers the choice.
LEMMA PickAdapterInv ==
  ASSUME TypeOK, Rest, NEW a \in Adapters, PickAdapter(a)
  PROVE  Rest'
<1>1. life' # "new"
  BY DEF PickAdapter, Tap, nav
<1>2. CASE server = None
  <2>1. Current' = Current
    BY <1>2 DEF PickAdapter, Current
  <2>2. Calls'
    BY <1>1, <1>2, <2>1 DEF PickAdapter, Rest, Calls, NewIsIdle, GensBounded,
       CurrentSignal, OneCurrentFlow
  <2>3. Page'
    BY <1>2, <2>1 DEF PickAdapter, Rest, Page, QuietWhenOnline, BusyIsChecking, pulse
  <2>4. Targets'
    BY <1>2, <2>1 DEF PickAdapter, Rest, Targets, ActionsHaveTarget, LoginTarget, pulse
  <2> QED
    BY <2>2, <2>3, <2>4 DEF Rest
<1>3. CASE server # None
  BY <1>1, <1>3, StartConfInv DEF PickAdapter, TypeOK, TargetOK, pulse
<1> QED
  BY <1>2, <1>3

\* applyManualServer starts a configuration, or asks for the adapter.
LEMMA ApplyManualInv == ASSUME TypeOK, Rest, ApplyManual PROVE Rest'
<1>1. life' # "new"
  BY DEF ApplyManual, Tap, nav
<1>2. CASE adapter = None
  BY <1>1, <1>2, Undisturbed DEF ApplyManual, waiting, pulse
<1>3. CASE adapter # None
  BY <1>1, <1>3, StartConfInv DEF ApplyManual, TypeOK, TargetOK, FormOK, pulse
<1> QED
  BY <1>2, <1>3

-----------------------------------------------------------------------------
(* Logins.                                                                 *)

\* doLogin past its early returns, on a page that is not busy.
LEMMA StartLoginInv ==
  ASSUME TypeOK, Calls, NEW a, NEW s, NEW k, StartLogin(a, s, k, ops),
         s = server', s # None, adapter' # None,
         UNCHANGED signal, life' # "new", pageState' # "busy"
  PROVE  Calls' /\ BusyIsChecking' /\ Targets'
<1> DEFINE c == Op("login", gen + 1, signal, [cred |-> k, server |-> s, adapter |-> a])
<1>1. /\ gen' = gen + 1 /\ ops' = ops \cup {c}
      /\ c.gen = gen + 1 /\ c.sig = signal /\ c.kind = "login" /\ c.acct.server = s
  BY DEF StartLogin, Op
<1>2. Calls' /\ Current' = {c}
  BY <1>1, NextGeneration
<1>3. BusyIsChecking'
  BY <1>1, <1>2 DEF BusyIsChecking
<1>4. Targets'
  BY <1>1, <1>2 DEF Targets, ActionsHaveTarget, LoginTarget
<1> QED
  BY <1>2, <1>3, <1>4

\* The login button is only there on a page that is not busy.
LEMMA TapLoginInv == ASSUME TypeOK, Rest, TapLogin PROVE Rest'
<1>1. /\ server' = server /\ adapter' = adapter /\ signal' = signal
      /\ life' = life /\ life = "shown" /\ heartbeat' = heartbeat
      /\ pageState' = pageState /\ showForm' = showForm /\ showForm
  BY DEF TapLogin, Tap, view, target, pulse, nav
<1>2. pageState' # "busy"
  BY <1>1 DEF Rest, Page, QuietWhenOnline
<1>3. Calls' /\ BusyIsChecking' /\ Targets'
  BY <1>1, <1>2, StartLoginInv DEF TapLogin, Rest
<1>4. QuietWhenOnline'
  BY <1>1 DEF Rest, Page, QuietWhenOnline
<1> QED
  BY <1>3, <1>4 DEF Rest, Page

\* A launch with a server shows the form, and may log in at once.
LEMMA LaunchLoginInv ==
  ASSUME TypeOK, Rest, NEW l \in Launches, ShowFirst(l),
         l.server # None, l.action \in {"login", "other"}
  PROVE  Rest'
<1>1. /\ life = "new" /\ life' = "shown" /\ server' = l.server
      /\ adapter' = IF l.forced # None THEN l.forced ELSE First
      /\ pageState' = "portal" /\ signal' = signal
      /\ UNCHANGED <<canLogout, initing, logouts>>
  BY DEF ShowFirst
<1>2. \/ UNCHANGED <<gen, ops, logging>>
      \/ StartLogin(adapter', l.server, l.cred, ops)
  BY Zenon DEF ShowFirst
<1>3. ops = {} /\ adapter' # None
  BY <1>1, AdaptersAssumption, NoneAssumption DEF Rest, Calls, NewIsIdle
<1>4. Calls' /\ BusyIsChecking' /\ Targets'
  <2>1. CASE UNCHANGED <<gen, ops, logging>>
    <3>1. Current' = {} /\ ops' = {}
      BY <1>3, <2>1 DEF Current
    <3> QED
      BY <1>1, <1>3, <3>1 DEF Calls, NewIsIdle, GensBounded, CurrentSignal,
         OneCurrentFlow, BusyIsChecking, Targets, ActionsHaveTarget, LoginTarget
  <2>2. CASE StartLogin(adapter', l.server, l.cred, ops)
    BY <1>1, <1>3, <2>2, StartLoginInv DEF Rest
  <2> QED
    BY <1>2, <2>1, <2>2
<1>5. QuietWhenOnline'
  BY <1>1 DEF QuietWhenOnline
<1> QED
  BY <1>4, <1>5 DEF Rest, Page

\* The first onShow, however the page was launched.
LEMMA ShowFirstInv ==
  ASSUME TypeOK, Rest, NEW l \in Launches, ShowFirst(l)
  PROVE  Rest'
<1>1. CASE l.server # None /\ l.action \in {"login", "other"}
  BY <1>1, LaunchLoginInv
<1>2. CASE RunCheck(FALSE, leftAt, ops) /\ UNCHANGED target
  BY <1>2, RunCheckInv DEF ShowFirst, TypeOK, NavOK, target
<1>3. CASE UNCHANGED <<view, target, flow, initing, pulse>>
  BY <1>3, Undisturbed DEF ShowFirst, view, target, flow, pulse
<1>4. CASE l.action \in {"absent", "other"} /\ l.server = None
  <2>1. /\ life' = "shown" /\ UNCHANGED <<view, target, flow, pulse>>
    BY <1>4 DEF ShowFirst
  <2>2. Current' = Current
    BY <2>1 DEF Current, flow
  <2>3. Calls'
    BY <2>1, <2>2 DEF Rest, Calls, NewIsIdle, GensBounded, CurrentSignal, OneCurrentFlow, flow
  <2>4. Page'
    BY <2>1, <2>2 DEF Rest, Page, QuietWhenOnline, BusyIsChecking, view, pulse
  <2>5. Targets'
    BY <2>1, <2>2 DEF Rest, Targets, ActionsHaveTarget, LoginTarget, view, target, pulse
  <2> QED
    BY <2>3, <2>4, <2>5 DEF Rest
<1> QED
  BY <1>1, <1>2, <1>3, <1>4 DEF ShowFirst

-----------------------------------------------------------------------------
(* The continuations.                                                      *)

\* A current call that is not a heartbeat query is the only such call.
LEMMA OthersAreStat ==
  ASSUME Calls, NEW o \in Current, o.kind # "stat"
  PROVE  \A p \in Current \ {o} : p.kind = "stat"
  BY DEF Calls, OneCurrentFlow

\* A dropped continuation only disappears.
LEMMA DropInv == ASSUME TypeOK, Rest, NEW o \in ops, Drop(o) PROVE Rest'
<1>1. Calls' /\ Current' = Current \ {o}
  BY Removed DEF Drop, Rest, nav
<1>2. Page'
  BY <1>1 DEF Rest, Drop, Page, QuietWhenOnline, BusyIsChecking, view, pulse
<1>3. Targets'
  BY <1>1 DEF Rest, Drop, Targets, ActionsHaveTarget, LoginTarget, view, target, pulse
<1> QED
  BY <1>1, <1>2, <1>3 DEF Rest

\* A check that ends ends alone: the page was busy, so no query was current.
LEMMA CheckDoneInv == ASSUME TypeOK, Rest, NEW o \in ops, CheckDone(o) PROVE Rest'
<1>1. /\ o \in Current /\ o.kind = "check" /\ pageState = "busy"
      /\ UNCHANGED <<gen, signal, life, initing, logouts, heartbeat>>
  BY DEF CheckDone, Fresh, Current, Rest, Page, BusyIsChecking, waiting, pulse
<1>2. Current \ {o} = {}
  BY <1>1, OthersAreStat DEF Rest, Page, BusyIsChecking
<1>3. ~showForm /\ ~heartbeat /\ ~canLogout /\ life # "new"
  BY <1>1 DEF Rest, Page, QuietWhenOnline, BusyIsChecking, Calls, NewIsIdle
<1>4. CASE ops' = ops \ {o}
  <2>1. Calls' /\ Current' = {}
    BY <1>1, <1>2, <1>4, Removed DEF Rest
  <2>2. ASSUME CheckFree PROVE Page' /\ Targets'
    BY <1>1, <1>3, <2>1, <2>2, AdaptersAssumption, NoneAssumption
       DEF CheckFree, KnownAdapter, TypeOK, TargetOK, Page, QuietWhenOnline,
           BusyIsChecking, Targets, ActionsHaveTarget, LoginTarget
  <2>3. ASSUME CheckOffline PROVE Page' /\ Targets'
    BY <1>1, <1>3, <2>1, <2>3 DEF CheckOffline, Page, QuietWhenOnline,
       BusyIsChecking, Targets, ActionsHaveTarget, LoginTarget
  <2>4. ASSUME NEW s, NEW best, CheckUnknown(s, best) PROVE Page' /\ Targets'
    BY <1>1, <1>3, <2>1, <2>4 DEF CheckUnknown, Page, QuietWhenOnline,
       BusyIsChecking, Rest, Targets, ActionsHaveTarget, LoginTarget
  <2>5. ASSUME NEW base, NEW a, StartConf(a, base, gen, ops \ {o}) PROVE FALSE
    <3>1. Op("conf", gen, signal, NoAccount) \in ops \ {o}
      BY <1>4, <2>5 DEF StartConf
    <3> QED
      BY <1>2, <3>1 DEF Current, Op
  <2> QED
    BY <2>1, <2>2, <2>3, <2>4, <2>5 DEF CheckDone, Rest
<1>5. ASSUME NEW base \in Servers, NEW a \in Adapters,
             StartConf(a, base, gen, ops \ {o}),
             UNCHANGED <<pageState, showForm, showManual, canLogout, entry, timers>>
      PROVE  Rest'
  <2> DEFINE c == Op("conf", gen, signal, NoAccount)
  <2>1. /\ ops' = (ops \ {o}) \cup {c} /\ server' = base /\ adapter' = a
        /\ c.kind = "conf" /\ c.gen = gen /\ c.sig = signal
    BY <1>5 DEF StartConf, Op
  <2>2. Calls' /\ Current' = {c}
    BY <1>1, <1>2, <2>1, Replaced DEF Rest
  <2>3. Page'
    BY <1>1, <1>3, <1>5, <2>1, <2>2 DEF Page, QuietWhenOnline, BusyIsChecking
  <2>4. Targets'
    BY <2>1, <2>2, NoneAssumption DEF Targets, ActionsHaveTarget, LoginTarget
  <2> QED
    BY <2>2, <2>3, <2>4 DEF Rest
<1> QED
  BY <1>4, <1>5 DEF CheckDone

\* A configuration that ends leaves at most queries current.
LEMMA ConfDoneInv == ASSUME TypeOK, Rest, NEW o \in ops, ConfDone(o) PROVE Rest'
<1>1. /\ o \in Current /\ o.kind = "conf"
      /\ ops' = ops \ {o} /\ UNCHANGED <<gen, signal, life, server, adapter>>
  BY DEF ConfDone, Fresh, Current, target
<1>2. Calls' /\ Current' = Current \ {o}
  BY <1>1, Removed DEF Rest
<1>3. server # None /\ adapter # None
  BY <1>1 DEF Rest, Targets, ActionsHaveTarget
<1>4. \A p \in Current' : p.kind = "stat"
  BY <1>1, <1>2, OthersAreStat DEF Rest
<1>5. /\ pageState' \in {"ok", "portal", "manual"}
      /\ pageState' = "ok" => ~showForm' /\ ~heartbeat'
  BY DEF ConfDone, Online
<1>6. Page'
  BY <1>4, <1>5 DEF Page, QuietWhenOnline, BusyIsChecking
<1>7. Targets'
  BY <1>1, <1>3, <1>4 DEF Targets, ActionsHaveTarget, LoginTarget
<1> QED
  BY <1>2, <1>6, <1>7 DEF Rest

\* A login that ends leaves at most queries and its own verification current.
LEMMA LoginDoneInv == ASSUME TypeOK, Rest, NEW o \in ops, LoginDone(o) PROVE Rest'
<1> DEFINE c == Op("verify", gen, signal, NoAccount)
<1>1. /\ o \in Current /\ o.kind = "login"
      /\ UNCHANGED <<gen, signal, life, server, adapter, canLogout>>
  BY DEF LoginDone, Fresh, Current, target, nav
<1>2. server # None /\ adapter # None /\ pageState # "busy"
  BY <1>1 DEF Rest, Page, BusyIsChecking, Targets, ActionsHaveTarget
<1>3. \/ ops' = ops \ {o}
      \/ ops' = (ops \ {o}) \cup {c}
  BY DEF LoginDone
<1>4. c.kind = "verify" /\ c.gen = gen /\ c.sig = signal
  BY DEF Op
<1>5. Calls' /\ Current' \in {Current \ {o}, (Current \ {o}) \cup {c}}
  BY <1>1, <1>3, <1>4, Removed, Replaced DEF Rest
<1>6. \A p \in Current' : p.kind \in {"stat", "verify"}
  BY <1>1, <1>4, <1>5, OthersAreStat DEF Rest
<1>7. \/ UNCHANGED <<pageState, showForm, heartbeat>>
      \/ pageState' = "ok" /\ ~showForm' /\ ~heartbeat'
  BY DEF LoginDone
<1>8. Page'
  BY <1>2, <1>6, <1>7 DEF Rest, Page, QuietWhenOnline, BusyIsChecking
<1>9. Targets'
  BY <1>1, <1>2, <1>6 DEF Targets, ActionsHaveTarget, LoginTarget
<1> QED
  BY <1>5, <1>8, <1>9 DEF Rest

\* A verification that ends leaves at most queries current.
LEMMA VerifyDoneInv == ASSUME TypeOK, Rest, NEW o \in ops, VerifyDone(o) PROVE Rest'
<1>1. /\ o \in Current /\ o.kind = "verify"
      /\ ops' = ops \ {o} /\ UNCHANGED <<gen, signal, life, server, adapter>>
  BY DEF VerifyDone, Fresh, Current, target
<1>2. Calls' /\ Current' = Current \ {o}
  BY <1>1, Removed DEF Rest
<1>3. server # None /\ adapter # None
  BY <1>1 DEF Rest, Targets, ActionsHaveTarget
<1>4. \A p \in Current' : p.kind = "stat"
  BY <1>1, <1>2, OthersAreStat DEF Rest
<1>5. /\ pageState' \in {"ok", "portal", "offline"}
      /\ pageState' = "ok" => ~showForm' /\ ~heartbeat'
  BY DEF VerifyDone, Online
<1>6. Page'
  BY <1>4, <1>5 DEF Page, QuietWhenOnline, BusyIsChecking
<1>7. Targets'
  BY <1>1, <1>3, <1>4 DEF Targets, ActionsHaveTarget, LoginTarget
<1> QED
  BY <1>2, <1>6, <1>7 DEF Rest

\* A query starts only while the heartbeat runs, never on a busy page.
LEMMA StatTickInv == ASSUME TypeOK, Rest, StatTick PROVE Rest'
<1> DEFINE c == Op("stat", gen, signal, NoAccount)
<1>1. /\ heartbeat /\ server # None /\ ops' = ops \cup {c}
      /\ UNCHANGED <<view, target, gen, signal, heartbeat, life, initing, logouts>>
  BY DEF StatTick, pulse, nav, waiting
<1>2. c.kind = "stat" /\ c.gen = gen /\ c.sig = signal
  BY DEF Op
<1>3. Current' = Current \cup {c} /\ pageState # "busy" /\ life # "new"
  BY <1>1, <1>2 DEF Current, Rest, Page, QuietWhenOnline, Calls, NewIsIdle
<1>4. Calls'
  BY <1>1, <1>2, <1>3 DEF Rest, Calls, NewIsIdle, GensBounded, CurrentSignal,
     OneCurrentFlow, TypeOK, FlowOK
<1>5. Page'
  BY <1>1, <1>2, <1>3 DEF Rest, Page, QuietWhenOnline, BusyIsChecking, view
<1>6. Targets'
  BY <1>1, <1>2, <1>3 DEF Rest, Targets, ActionsHaveTarget, LoginTarget, view, target
<1> QED
  BY <1>4, <1>5, <1>6 DEF Rest

\* A query that ends may find the device online; no check is current then.
LEMMA StatDoneInv == ASSUME TypeOK, Rest, NEW o \in ops, StatDone(o) PROVE Rest'
<1>1. /\ o \in Current /\ o.kind = "stat"
      /\ ops' = ops \ {o} /\ UNCHANGED <<gen, signal, life, server, adapter>>
  BY DEF StatDone, Fresh, Current, target, nav
<1>2. Calls' /\ Current' = Current \ {o}
  BY <1>1, Removed DEF Rest
<1>3. server # None /\ adapter # None /\ pageState # "busy"
  BY <1>1 DEF Rest, Page, BusyIsChecking, Targets, ActionsHaveTarget
<1>4. \A p \in Current' : p.kind # "check"
  BY <1>2, <1>3 DEF Rest, Page, BusyIsChecking
<1>5. \/ pageState' = "ok" /\ ~showForm' /\ ~heartbeat'
      \/ UNCHANGED <<heartbeat, pageState, showForm>>
  BY DEF StatDone, Online
<1>6. Page'
  BY <1>3, <1>4, <1>5 DEF Rest, Page, QuietWhenOnline, BusyIsChecking
<1>7. Targets'
  BY <1>1, <1>2, <1>3 DEF Rest, Targets, ActionsHaveTarget, LoginTarget
<1> QED
  BY <1>2, <1>6, <1>7 DEF Rest

-----------------------------------------------------------------------------
\* Every step keeps the inductive invariant.
THEOREM InvStep == Inv /\ [Next]_vars => Inv'
<1> SUFFICES ASSUME TypeOK, Rest, [Next]_vars PROVE Rest'
  BY TypeStep DEF Inv, Rest, Calls, Page, Targets
<1>1. CASE UNCHANGED vars
  BY <1>1, Undisturbed DEF vars, view, target, flow, waiting, pulse, nav
<1>2. CASE LifeCycle
  BY <1>2, ShowInv, QuietSteps, UnloadInv, ShowFirstInv DEF LifeCycle
<1>3. CASE User
  BY <1>3, QuietSteps, TapRecheckInv, ApplyManualInv, TapLoginInv, PickAdapterInv
     DEF User
<1>4. CASE Management
  BY <1>4, QuietSteps DEF Management
<1>5. ASSUME NEW o \in ops, Settle(o) PROVE Rest'
  BY <1>5, DropInv, CheckDoneInv, ConfDoneInv, LoginDoneInv, VerifyDoneInv,
     StatDoneInv DEF Settle
<1> QED
  BY <1>1, <1>2, <1>3, <1>4, <1>5, InitDoneInv, StatTickInv, LogoutDoneInv,
     QuietSteps DEF Next

\* The main page always satisfies its inductive invariant.
THEOREM Invariance == Spec => []Inv
  BY InitInv, InvStep, PTL DEF Spec

\* The variables keep their types.
THEOREM TypeCorrect == Spec => []TypeOK
<1>1. Inv => TypeOK
  BY DEF Inv
<1> QED
  BY <1>1, Invariance, PTL

\* At most one check, configuration, login or verification in flight will
\* still act on the page, whatever was started and overtaken before.
THEOREM OneFlow == Spec => []OneCurrentFlow
<1>1. Inv => OneCurrentFlow
  BY DEF Inv
<1> QED
  BY <1>1, Invariance, PTL

\* The check the page waits for is never one that was aborted.
THEOREM AbortedStale == Spec => []AbortedIsStale
<1>1. Inv => AbortedIsStale
  BY DEF Inv, CurrentSignal, AbortedIsStale, Aborted, Current
<1> QED
  BY <1>1, Invariance, PTL

\* A page that is checking or online neither asks for a password nor keeps a
\* session alive.
THEOREM Quiet == Spec => []QuietWhenOnline
<1>1. Inv => QuietWhenOnline
  BY DEF Inv
<1> QED
  BY <1>1, Invariance, PTL

\* Form, buttons, heartbeat and calls in flight have a server and an adapter.
THEOREM HaveTarget == Spec => []ActionsHaveTarget
<1>1. Inv => ActionsHaveTarget
  BY DEF Inv
<1> QED
  BY <1>1, Invariance, PTL

-----------------------------------------------------------------------------
\* Saving an account writes it, or lets it wait for the file.
LEMMA StoreHands ==
  ASSUME NEW a, NEW reread, Store(a, reread)
  PROVE  {r.acct : r \in saves' \ saves} \cup ({saved'} \ {saved}) \subseteq {a}
  BY DEF Store

\* The steps that end a login are its own continuation and its being dropped,
\* which saves nothing.
LEMMA LoginEnds ==
  ASSUME [Next]_vars, NEW o \in ops, o \notin ops', o.kind = "login"
  PROVE  UNCHANGED store \/ LoginDone(o)
<1> USE DEF flow, form
<1>1. ~ UNCHANGED vars
  BY DEF vars
<1>2. ~ LifeCycle
  BY DEF LifeCycle, Show, Hide, Unload, NewOptions, ShowFirst, RunCheck, StartLogin
<1>3. ~ User
  <2>1. ~ (TapRecheck \/ Edit \/ ToggleRemember \/ TapLogin)
    BY DEF TapRecheck, Edit, ToggleRemember, TapLogin, RunCheck, StartLogin
  <2>2. ~ (TapManage \/ TapLogout \/ OpenOther)
    BY DEF TapManage, TapLogout, OpenOther
  <2>3. ~ ApplyManual
    BY DEF ApplyManual, StartConf
  <2>4. ASSUME NEW a, PickAdapter(a) PROVE FALSE
    BY <2>4 DEF PickAdapter, StartConf
  <2> QED
    BY <2>1, <2>2, <2>3, <2>4 DEF User
<1>4. ~ Management
  BY DEF Management, ManageUsable, OtherClosed, ManageClosed
<1>5. ~ (InitDone \/ StatTick \/ LogoutDone \/ ManageTimer)
  BY DEF InitDone, StatTick, LogoutDone, ManageTimer, RunCheck
<1>6. ~ \E r \in saves : SaveDone(r)
  BY DEF SaveDone
<1>8. ~ \E f \in Fields : ImeDone(f)
  BY DEF ImeDone
<1>7. ASSUME NEW p \in ops, Settle(p) PROVE UNCHANGED store \/ LoginDone(o)
  <2>1. ASSUME LoginDone(p) PROVE p = o
    BY <2>1 DEF LoginDone
  <2> QED
    BY <1>7, <2>1 DEF Settle, Drop, CheckDone, ConfDone, VerifyDone, StatDone
<1> QED
  BY <1>1, <1>2, <1>3, <1>4, <1>5, <1>6, <1>7, <1>8 DEF Next

\* What a remembered login hands to the store is for the server and the adapter
\* that accepted it, although the page's server is read again after the answer.
THEOREM SavedRight == Spec => SavedForItsServer
<1> DEFINE Right == \A o \in ops \ ops' : o.kind = "login" /\ remember =>
                      \A a \in {r.acct : r \in saves' \ saves} \cup ({saved'} \ {saved}) :
                        a.server = o.acct.server /\ a.adapter = o.acct.adapter
<1>1. ASSUME Inv, [Next]_vars PROVE Right
  <2> SUFFICES ASSUME NEW o \in ops \ ops', o.kind = "login", remember,
                      NEW a \in {r.acct : r \in saves' \ saves} \cup ({saved'} \ {saved})
               PROVE  a.server = o.acct.server /\ a.adapter = o.acct.adapter
    OBVIOUS
  <2>1. LoginDone(o)
    <3>1. ~ UNCHANGED store
      BY DEF store
    <3> QED
      BY <1>1, <3>1, LoginEnds
  <2>2. o.acct.server = server
    BY <1>1, <2>1 DEF LoginDone, Fresh, Current, Inv, LoginTarget
  <2> DEFINE new == [cred    |-> IF remember THEN cred ELSE None,
                     server  |-> server,
                     adapter |-> o.acct.adapter]
  <2>3. Store(new, ~remember)
    BY <2>1 DEF LoginDone, store
  <2>4. a = new
    BY <2>3, StoreHands
  <2> QED
    BY <2>2, <2>4
<1>2. ASSUME Inv, [Next]_vars PROVE [Right]_vars
  BY <1>1, <1>2
<1>3. Spec => [][Right]_vars
  BY <1>2, Invariance, PTL DEF Spec
<1> QED
  BY <1>3 DEF SavedForItsServer

=============================================================================
