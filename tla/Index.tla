-------------------------------- MODULE Index --------------------------------
(***************************************************************************)
(* The main page (ui/src/pages/index/index.vue): the portal check, the     *)
(* configuration of the adapter, login, verification, logout, the          *)
(* keep-alive heartbeat, and the automatic way into the device management  *)
(* page, as they interleave with the page's life cycle, with the user and  *)
(* with the answers of requests started earlier.                           *)
(*                                                                         *)
(* Every asynchronous call is a record in `ops`; its continuation is the   *)
(* action that removes the record, in any order and after any delay.  The  *)
(* page tells a stale continuation by the generation `gen`.  Comparisons   *)
(* with the wall clock (8 s, 3 s, 90 s, 180 s) are a free choice once the  *)
(* time stamp they start from is set.                                      *)
(***************************************************************************)
EXTENDS Integers, FiniteSets

CONSTANTS
    None,           \* an absent server, adapter or credential
    Servers,        \* base URLs of authentication servers
    Adapters,       \* registered adapters
    First,          \* adapters[0]
    CanStat, CanLogout, CanManage,  \* adapters with these optional methods
    Creds,          \* complete user name / password pairs
    Launches,       \* option objects the page may be launched with
    Accounts,       \* accounts the store may hold for the network at start
    MaxEvents       \* bound on user and system events in a behaviour

Account == [cred : Creds \cup {None}, server : Servers \cup {None},
            adapter : Adapters \cup {None}]

NoAccount == [cred |-> None, server |-> None, adapter |-> None]

Launch == [action : {"absent", "other", "log", "check", "login"},
           server : Servers \cup {None}, forced : Adapters \cup {None},
           cred : Creds \cup {None}, auto : BOOLEAN]

ASSUME NoneAssumption == None \notin Servers \cup Adapters \cup Creds
ASSUME AdaptersAssumption ==
    /\ First \in Adapters
    /\ CanStat \subseteq Adapters
    /\ CanLogout \subseteq Adapters
    /\ CanManage \subseteq Adapters
ASSUME EnvironmentAssumption ==
    /\ Launches \subseteq Launch
    /\ Accounts \subseteq Account
    /\ MaxEvents \in Nat

VARIABLES
    life,       \* "new", "shown", "hidden" or "dead" (unloaded)
    front,      \* the page in front when this one is in the stack
    pageState,  \* the status line
    showForm, showManual, showPick, canLogout,   \* which controls are shown
    checking, logging,
    server,     \* serverBase
    lastServer, \* _lastServer
    adapter,    \* activeAdapterId
    remembered, \* _rememberedAdapter
    cred,       \* username and password, None unless both are given
    remember,
    manualServer,
    saved,      \* the account the store holds for this network
    loaded,     \* the store has read its file (_memory of store.js)
    saves,      \* saves that wait for the file to be read
    gen,        \* _gen
    signal,     \* the generation of the check whose _detectSignal is not aborted
    ops,        \* asynchronous calls in flight
    initing,    \* wifiSsid().then(loadAccount) in flight
    logouts,    \* logout requests in flight
    heartbeat,  \* _statTimer is set
    synced,     \* _lastSyncAt is set
    callback,   \* _checkCallback: "none", "armed", or "sent" once triggered
    launched,   \* _launched
    manual,     \* _manual
    leftAt,     \* _leftAt is set
    tries,      \* _manageTries
    cooldown,   \* _manageCooldownUntil is set
    managedAt,  \* _autoManagedAt is set
    timers,     \* 800 ms timers about to open the management page
    ime,        \* input sessions not answered yet, for each field
    imeBusy,    \* _imeBusy
    imeClosed,  \* _imeClosedAt is set
    relaunches, \* external launches delivered to the running page
    events      \* user and system events so far

view    == <<pageState, showForm, showManual, showPick, canLogout>>
target  == <<server, lastServer, adapter, remembered>>
store   == <<saved, loaded, saves>>
form    == <<cred, remember, manualServer, store>>
flow    == <<gen, signal, ops, checking, logging>>
waiting == <<initing, logouts>>
pulse   == <<heartbeat, synced>>
caller  == <<callback, launched, relaunches>>
entry   == <<manual, tries, cooldown, managedAt>>
nav     == <<life, front, leftAt, timers>>
input   == <<ime, imeBusy, imeClosed>>

vars == <<view, target, form, flow, waiting, pulse, caller, entry, nav, input,
          events>>

-----------------------------------------------------------------------------
Fields == {"server", "user", "password"}

Kinds == {"check", "conf", "login", "verify", "stat"}

Op(kind, g, sig, acct) == [kind |-> kind, gen |-> g, sig |-> sig, acct |-> acct]

Ops(kind) == {o \in ops : o.kind = kind}

\* The generation check of a continuation, and a page without it.
FreshAlways(o) == o \in ops
Fresh(o) == o.gen = gen

\* The signal a check was started with (0: none yet) is aborted once a newer
\* check has replaced it or onUnload has cleared it.
Aborted(o) == o.sig # 0 /\ o.sig # signal

Init ==
    /\ life = "new" /\ front = "index"
    /\ pageState = "busy"
    /\ showForm = FALSE /\ showManual = FALSE /\ showPick = FALSE
    /\ canLogout = FALSE
    /\ checking = FALSE /\ logging = FALSE
    /\ server = None /\ lastServer = None /\ adapter = None /\ remembered = None
    /\ cred = None /\ remember = FALSE /\ manualServer = None
    /\ saved \in Accounts /\ loaded = FALSE /\ saves = {}
    /\ gen = 0 /\ signal = 0 /\ ops = {}
    /\ initing = FALSE /\ logouts = 0
    /\ heartbeat = FALSE /\ synced = FALSE
    /\ callback = "none" /\ launched = FALSE /\ relaunches = 0
    /\ manual = FALSE /\ tries = 0 /\ cooldown = FALSE /\ managedAt = FALSE
    /\ leftAt = FALSE /\ timers = 0
    /\ ime = [f \in Fields |-> 0] /\ imeBusy = FALSE /\ imeClosed = FALSE
    /\ events = 0

\* An event the page does not cause itself, and a tap on a visible page.
Event == events < MaxEvents /\ events' = events + 1
Tap == Event /\ life = "shown" /\ front = "index"

-----------------------------------------------------------------------------
(* runCheck, called with the flag `byUser` while _leftAt is `left`; `rest` *)
(* are the other calls in flight.  It leaves showPick and logging alone.   *)
RunCheck(byUser, left, rest) ==
    /\ IF byUser
         THEN /\ manual' = TRUE /\ tries' = 0
              /\ managedAt' = FALSE /\ cooldown' = FALSE
         ELSE /\ manual' = IF left THEN manual ELSE FALSE
              /\ UNCHANGED <<tries, managedAt, cooldown>>
    /\ gen' = gen + 1
    /\ signal' = gen + 1
    /\ ops' = rest \cup {Op("check", gen + 1, gen + 1, NoAccount)}
    /\ heartbeat' = FALSE
    /\ checking' = TRUE
    /\ pageState' = "busy"
    /\ canLogout' = FALSE /\ showForm' = FALSE /\ showManual' = FALSE
    /\ UNCHANGED <<showPick, logging, synced>>

\* _autoManage, while _checkCallback is `cb`: its conditions that no clock
\* decides, and its two outcomes.
MayAutoManage(cb) ==
    /\ cb # "armed"
    /\ ~launched /\ ~manual /\ life # "dead"
    /\ tries < 2

AutoManage(cb) ==
    \/ /\ MayAutoManage(cb)
       /\ managedAt' = TRUE
       /\ tries' = tries + 1
       /\ timers' = timers + 1
       /\ UNCHANGED <<manual, cooldown>>
    \/ /\ ~MayAutoManage(cb) \/ cooldown \/ managedAt
       /\ UNCHANGED <<entry, timers>>

\* doLogin once its early returns are passed; and without a generation.
StartLoginSameGen(a, s, c, rest) ==
    /\ logging' = TRUE
    /\ UNCHANGED gen
    /\ ops' = rest \cup {Op("login", gen, signal,
                            [cred |-> c, server |-> s, adapter |-> a])}

StartLogin(a, s, c, rest) ==
    /\ logging' = TRUE
    /\ gen' = gen + 1
    /\ ops' = rest \cup {Op("login", gen + 1, signal,
                            [cred |-> c, server |-> s, adapter |-> a])}

\* startPortalConf up to its await; and with the generation before.
StartConfStale(a, s, g, rest) ==
    /\ adapter' = a
    /\ server' = s
    /\ lastServer' = s
    /\ showPick' = FALSE
    /\ ops' = rest \cup {Op("conf", g - 1, signal, NoAccount)}

StartConf(a, s, g, rest) ==
    /\ adapter' = a
    /\ server' = s
    /\ lastServer' = s
    /\ showPick' = FALSE
    /\ ops' = rest \cup {Op("conf", g, signal, NoAccount)}

\* A save of account a: at once if the file is in memory, and after it has
\* been read otherwise.  With `reread` the server is read from the page then.
Store(a, reread) ==
    IF loaded
      THEN saved' = a /\ UNCHANGED <<loaded, saves>>
      ELSE /\ saves' = saves \cup {[acct |-> a, reread |-> reread, was |-> saved.server]}
           /\ UNCHANGED <<saved, loaded>>

-----------------------------------------------------------------------------
(* The first onShow, with the options the page was launched with.          *)
ShowFirst(l) ==
    /\ life = "new"
    /\ life' = "shown"
    /\ launched' = (l.action # "absent")
    /\ \/ /\ l.action = "log"
          /\ front' = "other"
          /\ UNCHANGED <<view, target, cred, remember, flow, initing, pulse,
                         callback, entry>>
       \/ /\ l.action = "check"
          /\ callback' = "armed"
          /\ RunCheck(FALSE, leftAt, ops)
          /\ UNCHANGED <<target, cred, remember, initing, front>>
       \/ /\ l.action = "login" /\ l.server = None
          /\ RunCheck(FALSE, leftAt, ops)
          /\ UNCHANGED <<target, cred, remember, initing, callback, front>>
       \/ /\ l.action \in {"login", "other"} /\ l.server # None
          /\ server' = l.server /\ lastServer' = l.server
          /\ adapter' = IF l.forced # None THEN l.forced ELSE First
          /\ synced' = TRUE /\ heartbeat' = TRUE
          /\ pageState' = "portal" /\ showForm' = TRUE /\ showManual' = FALSE
          /\ cred' = l.cred
          /\ remember' \in BOOLEAN
          /\ IF l.auto /\ l.cred # None
               THEN StartLogin(adapter', l.server, l.cred, ops)
               ELSE UNCHANGED <<gen, ops, logging>>
          /\ UNCHANGED <<remembered, showPick, canLogout, signal, checking,
                         initing, callback, entry, front>>
       \/ /\ l.action \in {"absent", "other"} /\ l.server = None
          /\ initing' = TRUE
          /\ UNCHANGED <<view, target, cred, remember, flow, pulse, callback,
                         entry, front>>
    /\ UNCHANGED <<manualServer, store, logouts, relaunches, leftAt, timers,
                   input, events>>

\* The stored account has been read.
InitDone ==
    /\ initing
    /\ initing' = FALSE
    /\ cred' = saved.cred
    /\ remember' = (saved.cred # None)
    /\ lastServer' = saved.server
    /\ remembered' = saved.adapter
    /\ loaded' = TRUE
    /\ RunCheck(FALSE, leftAt, ops)
    /\ UNCHANGED <<server, adapter, manualServer, saved, saves, logouts, caller, nav,
                   input, events>>

-----------------------------------------------------------------------------
(* The life cycle after the first onShow.                                  *)

\* onShow of a page that is started: at most one new check.
Show ==
    /\ Event
    /\ life = "hidden"
    /\ life' = "shown"
    /\ \/ /\ logging \/ imeBusy \/ imeClosed
          /\ UNCHANGED <<view, flow, pulse, entry, leftAt>>
       \/ /\ ~logging /\ ~imeBusy /\ leftAt
          /\ leftAt' = FALSE
          /\ RunCheck(FALSE, FALSE, ops)
       \/ /\ ~logging /\ ~imeBusy /\ ~leftAt
          /\ pageState \in {"portal", "manual"}
          /\ RunCheck(FALSE, FALSE, ops)
          /\ UNCHANGED leftAt
       \/ /\ ~logging /\ ~imeBusy /\ ~leftAt
          /\ pageState \in {"portal", "manual"} => synced
          /\ UNCHANGED <<view, flow, pulse, entry, leftAt>>
    /\ UNCHANGED <<target, form, waiting, caller, front, timers, input>>

\* onHide: an input session is not a departure.
Hide ==
    /\ Event
    /\ life = "shown"
    /\ life' = "hidden"
    /\ IF imeBusy
         THEN UNCHANGED <<leftAt, heartbeat>>
         ELSE leftAt' = TRUE /\ heartbeat' = FALSE
    /\ UNCHANGED <<view, target, form, flow, waiting, synced, caller, entry,
                   front, timers, input>>

\* onUnload makes every call in flight stale and aborts the check; a page
\* that forgets the first.
InvalidateSignalOnly == UNCHANGED gen /\ signal' = 0
Invalidate == gen' = gen + 1 /\ signal' = 0

\* onUnload: of the pending timers only the last one is known and cleared,
\* and the others find the page destroyed.
Unload ==
    /\ Event
    /\ life \in {"shown", "hidden"}
    /\ life' = "dead"
    /\ Invalidate
    /\ timers' = 0
    /\ heartbeat' = FALSE
    /\ UNCHANGED <<view, target, form, ops, checking, logging, waiting,
                   synced, caller, entry, front, leftAt, input>>

\* onNewOptions: the handler throws at the log line that names the undefined
\* safeJson, before applyLaunch.
NewOptions ==
    /\ Event
    /\ life \in {"shown", "hidden"}
    /\ relaunches' = relaunches + 1
    /\ UNCHANGED <<view, target, form, flow, waiting, pulse, callback, launched,
                   entry, nav, input>>

-----------------------------------------------------------------------------
(* What the user does on the page.                                         *)

TapRecheck ==
    /\ Tap
    /\ RunCheck(TRUE, leftAt, ops)
    /\ UNCHANGED <<target, form, waiting, caller, nav, input>>

\* pickAdapter; without a server it only asks for one.
PickAdapter(a) ==
    /\ Tap /\ showPick
    /\ IF server = None
         THEN /\ adapter' = a
              /\ showPick' = FALSE /\ showManual' = TRUE
              /\ UNCHANGED <<server, lastServer, gen, ops>>
         ELSE /\ showManual' = FALSE
              /\ gen' = gen + 1
              /\ StartConf(a, server, gen + 1, ops)
    /\ UNCHANGED <<remembered, pageState, showForm, canLogout, form, signal,
                   checking, logging, waiting, pulse, caller, entry, nav, input>>

\* applyManualServer with a well-formed address; saveServer included.
ApplyManual ==
    /\ Tap /\ showManual /\ manualServer # None
    /\ IF adapter = None
         THEN /\ showPick' = TRUE
              /\ UNCHANGED <<showManual, store, adapter, server, lastServer,
                             gen, ops>>
         ELSE /\ showManual' = FALSE
              /\ Store([saved EXCEPT !.server = manualServer], FALSE)
              /\ gen' = gen + 1
              /\ StartConf(adapter, manualServer, gen + 1, ops)
    /\ UNCHANGED <<remembered, pageState, showForm, canLogout, cred, remember,
                   manualServer, signal, checking, logging, waiting, pulse,
                   caller, entry, nav, input>>

\* editServer, editUsername and editPassword.  A second session may be asked
\* for before the first one covers the page.
Edit ==
    /\ Tap
    /\ \E f \in Fields :
          /\ IF f = "server" THEN showManual ELSE showForm
          /\ ime' = [ime EXCEPT ![f] = @ + 1]
    /\ imeBusy' = TRUE
    /\ UNCHANGED <<view, target, form, flow, waiting, pulse, caller, entry, nav,
                   imeClosed>>

\* An input session for field f is answered, with null or with a text; after
\* the user name comes the password, unless onUnload has taken the input
\* method away.
ImeDone(f) ==
    /\ ime[f] > 0
    /\ imeClosed' = TRUE
    /\ \/ /\ f = "user"
          /\ cred' \in Creds \cup {None}
          /\ imeBusy' = TRUE
          /\ ime' = IF life = "dead"
                      THEN [ime EXCEPT !.user = @ - 1]
                      ELSE [ime EXCEPT !.user = @ - 1, !.password = @ + 1]
          /\ UNCHANGED manualServer
       \/ /\ imeBusy' = FALSE
          /\ ime' = [ime EXCEPT ![f] = @ - 1]
          /\ \/ UNCHANGED <<cred, manualServer>>
             \/ f = "server" /\ manualServer' \in Servers \cup {None} /\ UNCHANGED cred
             \/ f = "password" /\ cred' \in Creds \cup {None} /\ UNCHANGED manualServer
    /\ UNCHANGED <<view, target, remember, store, flow, waiting, pulse, caller,
                   entry, nav, events>>

ToggleRemember ==
    /\ Tap /\ showForm
    /\ remember' = ~remember
    /\ UNCHANGED <<view, target, cred, manualServer, store, flow, waiting, pulse,
                   caller, entry, nav, input>>

\* doLogin; its early returns only change the message.
TapLogin ==
    /\ Tap /\ showForm
    /\ ~logging /\ adapter # None /\ server # None /\ cred # None
    /\ StartLogin(adapter, server, cred, ops)
    /\ UNCHANGED <<view, target, form, signal, checking, waiting, pulse, caller,
                   entry, nav, input>>

\* openManagement, from the button.
TapManage ==
    /\ Tap /\ canLogout /\ adapter \in CanManage
    /\ front' = "management"
    /\ heartbeat' = FALSE
    /\ UNCHANGED <<view, target, form, flow, waiting, synced, caller, entry,
                   life, leftAt, timers, input>>

\* doLogout: neither the generation nor the state of the page changes.
TapLogout ==
    /\ Tap /\ canLogout
    /\ server # None /\ adapter \in CanLogout
    /\ logouts' = logouts + 1
    /\ UNCHANGED <<view, target, form, flow, initing, pulse, caller, entry, nav,
                   input>>

-----------------------------------------------------------------------------
(* Continuations of asynchronous calls.                                    *)

\* A continuation that its generation check drops; a check settled with
\* "aborted" is dropped as well.
Drop(o) ==
    /\ ~Fresh(o) \/ (o.kind \in {"check", "verify"} /\ Aborted(o))
    /\ ops' = ops \ {o}
    /\ UNCHANGED <<view, target, form, gen, signal, checking, logging, waiting,
                   pulse, caller, entry, nav, input, events>>

\* The adapter of a connection that needs no login, and without a fallback.
KnownAdapterOnly == adapter
KnownAdapter ==
    CASE adapter # None -> adapter
      [] adapter = None /\ remembered # None -> remembered
      [] OTHER -> First

\* The device is online; and a page that leaves its heartbeat running.
OnlineWithHeartbeat ==
    /\ pageState' = "ok" /\ showForm' = FALSE /\ canLogout' = TRUE
    /\ UNCHANGED heartbeat
Online ==
    /\ pageState' = "ok" /\ showForm' = FALSE /\ canLogout' = TRUE
    /\ heartbeat' = FALSE

\* The external caller gets its event; and a callback cleared untriggered.
DeliverNothing == callback' = "none"
Deliver == callback' = IF callback = "armed" THEN "sent" ELSE callback

\* The verdicts of a check.
CheckFree ==
    /\ pageState' = "free"
    /\ IF lastServer = None
         THEN /\ server' = None
              /\ UNCHANGED <<adapter, canLogout, entry, timers>>
         ELSE /\ server' = lastServer
              /\ canLogout' = TRUE
              /\ adapter' = KnownAdapter
              /\ AutoManage(callback')
    /\ UNCHANGED <<showForm, showManual, showPick, lastServer>>

CheckOffline ==
    /\ pageState' = "offline"
    /\ server' = None
    /\ UNCHANGED <<showForm, showManual, showPick, canLogout, lastServer, adapter,
                   entry, timers>>

\* A portal without a known server (None if the redirect names none), or that
\* no adapter is recognised for: the user has to say.
CheckUnknown(s, best) ==
    /\ pageState' = "manual"
    /\ showForm' = FALSE /\ showManual' = TRUE /\ showPick' = TRUE
    /\ \/ s = None /\ lastServer = None /\ server' = None
       \/ (s # None \/ lastServer # None)
          /\ best = None /\ remembered = None
          /\ UNCHANGED server
    /\ UNCHANGED <<canLogout, lastServer, adapter, entry, timers>>

\* The continuation of a check: the external caller gets its callback, and a
\* portal at server s, recognised as the adapter best, goes through
\* afterPortal up to its await.
CheckDone(o) ==
    /\ o.kind = "check" /\ Fresh(o) /\ ~Aborted(o)
    /\ checking' = FALSE
    /\ Deliver
    /\ \/ CheckFree /\ ops' = ops \ {o}
       \/ CheckOffline /\ ops' = ops \ {o}
       \/ \E s \in Servers \cup {None}, best \in Adapters \cup {None} :
             \/ CheckUnknown(s, best) /\ ops' = ops \ {o}
             \/ /\ \E base \in Servers, a \in Adapters :
                      /\ base = IF s # None THEN s ELSE lastServer
                      /\ a = IF best # None THEN best ELSE remembered
                      /\ StartConf(a, base, gen, ops \ {o})
                /\ UNCHANGED <<pageState, showForm, showManual, canLogout, entry,
                               timers>>
    /\ UNCHANGED <<remembered, form, gen, signal, logging, waiting, pulse,
                   launched, relaunches, life, front, leftAt, input, events>>

\* startPortalConf after its await, for each status of loadConf.
ConfDone(o) ==
    /\ o.kind = "conf" /\ Fresh(o)
    /\ ops' = ops \ {o}
    /\ \/ Online                        \* free
          /\ AutoManage(callback)
          /\ UNCHANGED <<showManual, showPick, manualServer, synced>>
       \/ pageState' = "portal"         \* ready
          /\ showForm' = TRUE /\ canLogout' = FALSE
          /\ synced' = TRUE /\ heartbeat' = TRUE
          /\ UNCHANGED <<showManual, showPick, manualServer, entry, timers>>
       \/ pageState' = "portal"         \* other: no user name and password
          /\ showForm' = FALSE
          /\ heartbeat' = TRUE
          /\ UNCHANGED <<showManual, showPick, canLogout, manualServer, synced,
                         entry, timers>>
       \/ pageState' = "manual"         \* the server does not answer
          /\ showForm' = FALSE /\ showManual' = TRUE /\ showPick' = TRUE
          /\ manualServer' = server
          /\ UNCHANGED <<canLogout, pulse, entry, timers>>
       \/ pageState' = "portal"         \* error
          /\ showForm' = TRUE
          /\ UNCHANGED <<showManual, showPick, canLogout, manualServer, pulse,
                         entry, timers>>
    /\ UNCHANGED <<target, cred, remember, store, gen, signal, checking, logging,
                   waiting, caller, life, front, leftAt, input, events>>

\* doLogin after its await.  An accepted login saves the account, without
\* the password unless it is to be remembered, and probes the connection.
LoginDone(o) ==
    /\ o.kind = "login" /\ Fresh(o)
    /\ logging' = FALSE
    /\ \/ ops' = ops \ {o}              \* refused
          /\ UNCHANGED <<pageState, showForm, heartbeat, store>>
       \/ ops' = ops \ {o}              \* code 200: already authenticated
          /\ pageState' = "ok" /\ showForm' = FALSE
          /\ heartbeat' = FALSE
          /\ UNCHANGED store
       \/ ops' = (ops \ {o}) \cup {Op("verify", gen, signal, NoAccount)}
          /\ Store([cred    |-> IF remember THEN cred ELSE None,
                    server  |-> server,
                    adapter |-> o.acct.adapter], ~remember)
          /\ UNCHANGED <<pageState, showForm, heartbeat>>
    /\ UNCHANGED <<showManual, showPick, canLogout, target, cred, remember,
                   manualServer, gen, signal, checking, waiting, synced, caller,
                   entry, nav, input, events>>

\* The file is there for a save that has waited for it.  Its content replaces
\* what another save may have put in memory meanwhile.
SaveDone(r) ==
    /\ r \in saves
    /\ saves' = saves \ {r}
    /\ loaded' = TRUE
    /\ saved' = IF ~r.reread THEN r.acct
                ELSE [r.acct EXCEPT !.server = IF server # None THEN server ELSE r.was]
    /\ UNCHANGED <<view, target, cred, remember, manualServer, flow, waiting,
                   pulse, caller, entry, nav, input, events>>

\* verifyOnline after its promise.
VerifyDone(o) ==
    /\ o.kind = "verify" /\ Fresh(o) /\ ~Aborted(o)
    /\ ops' = ops \ {o}
    /\ logging' = FALSE
    /\ \/ Online                        \* free
          /\ AutoManage(callback)
       \/ pageState' = "portal"
          /\ showForm' = TRUE
          /\ heartbeat' = TRUE
          /\ UNCHANGED <<canLogout, entry, timers>>
       \/ pageState' = "offline"
          /\ heartbeat' = FALSE
          /\ UNCHANGED <<showForm, canLogout, entry, timers>>
    /\ UNCHANGED <<showManual, showPick, target, form, gen, signal, checking,
                   waiting, synced, caller, life, front, leftAt, input, events>>

\* The interval of the heartbeat: a query every 30 s, each settled within
\* the request timeout of 8.5 s, so one is in flight at a time.
StatTick ==
    /\ heartbeat
    /\ adapter \in CanStat /\ server # None
    /\ Ops("stat") = {}
    /\ ops' = ops \cup {Op("stat", gen, signal, NoAccount)}
    /\ UNCHANGED <<view, target, form, gen, signal, checking, logging, waiting,
                   pulse, caller, entry, nav, input, events>>

\* The device has been authenticated elsewhere; or it has not (the session
\* is in sync), or the query has failed.
StatDone(o) ==
    /\ o.kind = "stat" /\ Fresh(o)
    /\ ops' = ops \ {o}
    /\ \/ Online /\ synced' = TRUE
       \/ synced' \in {synced, TRUE}
          /\ UNCHANGED <<heartbeat, pageState, showForm, canLogout>>
    /\ UNCHANGED <<showManual, showPick, target, form, gen, signal, checking,
                   logging, waiting, caller, entry, nav, input, events>>

\* The logout request has been answered, in whatever way.
LogoutDone ==
    /\ logouts > 0
    /\ logouts' = logouts - 1
    /\ RunCheck(FALSE, leftAt, ops)
    /\ UNCHANGED <<target, form, initing, caller, nav, input, events>>

-----------------------------------------------------------------------------
(* The device management page, as this page sees it.                       *)

\* The 800 ms timer of _autoManage.
ManageTimer ==
    /\ timers > 0
    /\ timers' = timers - 1
    /\ IF life = "dead" \/ server = None
         THEN UNCHANGED <<front, heartbeat>>
         ELSE front' = "management" /\ heartbeat' = FALSE
    /\ UNCHANGED <<view, target, form, flow, waiting, synced, caller, entry,
                   life, leftAt, input, events>>

\* Event wifiManageUsable: the page has a list of devices.
ManageUsable ==
    /\ Event
    /\ front = "management" /\ life # "dead"
    /\ tries' = 0 /\ cooldown' = FALSE
    /\ UNCHANGED <<view, target, form, flow, waiting, pulse, caller, manual,
                   managedAt, nav, input>>

\* Event wifiManageClosed; `failed` if the server could not be reached.
ManageClosed(failed) ==
    /\ Event
    /\ front = "management" /\ life # "dead"
    /\ front' = "index"
    /\ leftAt' = ~failed
    /\ IF failed
         THEN tries' = 2 /\ managedAt' = TRUE /\ cooldown' = TRUE
         ELSE UNCHANGED <<tries, managedAt, cooldown>>
    /\ UNCHANGED <<view, target, form, flow, waiting, pulse, caller, manual,
                   life, timers, input>>

\* openLog and openAbout.
OpenOther ==
    /\ Tap
    /\ front' = "other"
    /\ UNCHANGED <<view, target, form, flow, waiting, pulse, caller, entry, life,
                   leftAt, timers, input>>

\* The log or about page is closed.
OtherClosed ==
    /\ Event
    /\ front = "other" /\ life # "dead"
    /\ front' = "index"
    /\ UNCHANGED <<view, target, form, flow, waiting, pulse, caller, entry, life,
                   leftAt, timers, input>>

-----------------------------------------------------------------------------
Settle(o) ==
    Drop(o) \/ CheckDone(o) \/ ConfDone(o) \/ LoginDone(o) \/ VerifyDone(o) \/ StatDone(o)

LifeCycle == Show \/ Hide \/ Unload \/ NewOptions \/ \E l \in Launches : ShowFirst(l)

User ==
    \/ TapRecheck \/ ApplyManual \/ Edit \/ ToggleRemember
    \/ TapLogin \/ TapManage \/ TapLogout \/ OpenOther
    \/ \E a \in Adapters : PickAdapter(a)

Management ==
    \/ ManageUsable \/ OtherClosed
    \/ \E failed \in BOOLEAN : ManageClosed(failed)

Next ==
    \/ LifeCycle \/ User \/ Management
    \/ InitDone \/ StatTick \/ LogoutDone \/ ManageTimer
    \/ \E f \in Fields : ImeDone(f)
    \/ \E r \in saves : SaveDone(r)
    \/ \E o \in ops : Settle(o)

\* Requests settle (raceTimeout of net.js, the guard of detect.js), file
\* reads return and timers fire; nothing is asked of the user.
Fairness ==
    /\ WF_vars(InitDone) /\ WF_vars(LogoutDone) /\ WF_vars(ManageTimer)
    /\ WF_vars(\E r \in saves : SaveDone(r))
    /\ WF_vars(\E o \in ops : o.kind # "stat" /\ Settle(o))

Spec == Init /\ [][Next]_vars /\ Fairness

-----------------------------------------------------------------------------
\* Types of the variables, in the groups of vars.
ViewOK ==
    /\ pageState \in {"busy", "free", "ok", "portal", "offline", "manual"}
    /\ showForm \in BOOLEAN /\ showManual \in BOOLEAN /\ showPick \in BOOLEAN
    /\ canLogout \in BOOLEAN
TargetOK ==
    /\ server \in Servers \cup {None} /\ lastServer \in Servers \cup {None}
    /\ adapter \in Adapters \cup {None} /\ remembered \in Adapters \cup {None}
FormOK ==
    /\ cred \in Creds \cup {None} /\ remember \in BOOLEAN
    /\ manualServer \in Servers \cup {None}
StoreOK ==
    /\ saved \in Account /\ loaded \in BOOLEAN
    /\ saves \subseteq [acct : Account, reread : BOOLEAN, was : Servers \cup {None}]
OpsOK == ops \subseteq [kind : Kinds, gen : Nat, sig : Nat, acct : Account]
FlowOK == gen \in Nat /\ signal \in Nat /\ checking \in BOOLEAN /\ logging \in BOOLEAN
WaitingOK == initing \in BOOLEAN /\ logouts \in Nat
PulseOK == heartbeat \in BOOLEAN /\ synced \in BOOLEAN
CallerOK ==
    /\ callback \in {"none", "armed", "sent"}
    /\ launched \in BOOLEAN /\ relaunches \in Nat
EntryOK ==
    /\ manual \in BOOLEAN /\ tries \in Nat
    /\ cooldown \in BOOLEAN /\ managedAt \in BOOLEAN
NavOK ==
    /\ life \in {"new", "shown", "hidden", "dead"}
    /\ front \in {"index", "management", "other"}
    /\ leftAt \in BOOLEAN /\ timers \in Nat
InputOK ==
    /\ ime \in [Fields -> Nat] /\ imeBusy \in BOOLEAN /\ imeClosed \in BOOLEAN
    /\ events \in Nat

TypeOK ==
    /\ ViewOK /\ TargetOK /\ FormOK /\ StoreOK /\ OpsOK /\ FlowOK /\ WaitingOK
    /\ PulseOK /\ CallerOK /\ EntryOK /\ NavOK /\ InputOK

\* The calls that belong to the present generation.
Current == {o \in ops : o.gen = gen}

\* One flow at a time: of all the checks, configurations, logins and
\* verifications in flight, the continuation of at most one still acts on
\* the page (the generation discipline of index.vue:647-660, 829, 890, 914,
\* 951, 961, 1009).
OneCurrentFlow ==
    \A o1, o2 \in Current :
        o1.kind # "stat" /\ o2.kind # "stat" => o1 = o2

\* The silent return on "aborted" (index.vue:661 and 1010) never hits the
\* flow the page waits for: an aborted check is a stale one.
AbortedIsStale ==
    \A o \in Current : o.kind \in {"check", "verify"} => ~Aborted(o)

\* A page that is checking, or knows the device to be online, neither asks
\* for a password nor keeps a login session alive.
QuietWhenOnline ==
    pageState \in {"busy", "free", "ok"} => ~showForm /\ ~heartbeat

\* Whatever the page offers or keeps running has a server and an adapter to
\* work with: the login form, logout and the way to the management page, the
\* heartbeat, and every call in flight that will act on the page.  For the
\* 800 ms timer this is what openManagement hands over (index.vue:452-455).
ActionsHaveTarget ==
    /\ server # None => adapter # None
    /\ showForm \/ canLogout \/ heartbeat => server # None
    /\ \A o \in Current : o.kind # "check" => server # None

\* The inductive invariant: the properties above, and what keeps them.
NewIsIdle == life = "new" => ops = {} /\ ~initing /\ logouts = 0 /\ ~heartbeat
GensBounded == \A o \in ops : o.gen <= gen
CurrentSignal == \A o \in Current : o.sig = signal
BusyIsChecking ==
    /\ pageState = "busy" => ~canLogout /\ \A o \in Current : o.kind \in {"check", "conf"}
    /\ \A o \in Current : o.kind = "check" => pageState = "busy"
LoginTarget == \A o \in Current : o.kind = "login" => o.acct.server = server

Inv ==
    /\ TypeOK
    /\ NewIsIdle /\ GensBounded /\ CurrentSignal /\ OneCurrentFlow
    /\ QuietWhenOnline /\ BusyIsChecking /\ ActionsHaveTarget /\ LoginTarget

\* An accepted login that is remembered is saved for the server that accepted
\* it, however long the answer took: the code reads serverBase again after its
\* await (index.vue:977-988), with the adapter from before it.  One that is not
\* remembered reads it once more when the file is there (990-997), and may by
\* then find another.
SavedForItsServer ==
    [][\A o \in ops \ ops' : o.kind = "login" /\ remember =>
          \A a \in {r.acct : r \in saves' \ saves} \cup ({saved'} \ {saved}) :
              a.server = o.acct.server /\ a.adapter = o.acct.adapter]_vars

\* "Checking..." does not stay: a busy page with a call in flight shows a
\* result unless it is unloaded, whatever the user does meanwhile.
BusyResolves ==
    pageState = "busy" /\ (initing \/ ops # {})
        ~> pageState # "busy" \/ life = "dead"

\* An external caller of action=check gets its callback event, unless the
\* page is unloaded first (index.vue:313-320, 666-686).
CallbackDelivered == callback = "armed" ~> callback = "sent" \/ life = "dead"
=============================================================================
