# WiFi login: a TLA+ model of the captive portal client

The program is an application for a dictionary pen: it finds out whether the
WiFi it is on wants a login, recognises the kind of login page, logs the device
in, keeps the session alive and manages the devices of the account. The UI is a
Vue-like page framework in JavaScript with one thread and many asynchronous
calls; HTTP and files are calls of a native module, `panet`, that an SDK runs on
a worker thread. What makes the program hard is not any single function but the
order in which answers, timers, page events and taps arrive. That is what is
modelled here.

Paths below are relative to the repository; `index.vue` is
`ui/src/pages/index/index.vue`, `detect.js`, `net.js` are in `ui/src/services/`.

## 1. Inventory

| Part | State | Operations | Talks to |
|---|---|---|---|
| Portal check (`detect.js`) | one promise per call: settled flag, countdown `pending`, guard timer, abort poll | `checkPortal(signal)`, classification of replies | request layer; called by the main page, which sets `signal.aborted` |
| Request layer (`net.js`, `platform/net-cvi.js`) | per request: `done` flag and one timer | `raceTimeout`, `request` | native module; every service |
| Native client (`native/panet/panet.cpp`) | a socket per call, files under the data directory | `request`, file read and write, `wifiSsid` | one worker thread of the SDK |
| Main page (`index.vue`) | see section 2 | life cycle, check, configuration, login, verification, logout, heartbeat, automatic entry to device management, launch by another program | everything |
| Device management page (`management.vue`) | device list, refresh timer, dialogs, failure count | load, refresh, take a device offline | adapters; events `wifiManageUsable`, `wifiManageClosed` to the main page |
| System input method (`ime.js`) | one session, retry and reopen timers | open, cancel | main page (`onShow`, `onHide` also see it) |
| Account store (`store.js`, `platform/store-cvi.js`) | one JSON file, a memory copy, a slot per WiFi | `loadAccount`, `saveAccount`, `forgetPassword`, clearing | native file calls, main page |
| Adapters (`registry.js`, `panabit.js`) | session keys of the last configuration | `match`, `loadConf`, `login`, `queryStat`, `logout`, `listDevices`, ... | main page, management page, request layer |
| Logger and log page (`logger*.js`, `log.vue`) | a file that is emptied beyond its limit | append, clear, read | native file calls |
| SDK: worker threads (`JQNamedThread.cpp`, `Thread.h`) | per name a queue, a thread, its keep-alive wait | post, run, remove | asynchronous calls |
| SDK: asynchronous calls (`JQAsyncExecutor.cpp`, `JQFuncDef.cpp`, `JQObjectTemplate.cpp`) | callbacks by id, functions kept for them, tasks of the script thread | call, answer, deliver, collect | worker threads; every native method |
| SDK: counted pointers (`REF.h`, `StrongPtr.h`) | strong and weak count, the object | copy, assign, drop, promote | all native code, on several threads |
| SDK: native objects (`JQBaseObject*.cpp`, `JQPublishObject.cpp`, `JQSignal.h`, `JQProperty.h`) | maps of the template under the object's address, listeners, topics, one property | attach, collect, hold, subscribe, publish, set | script and workers |
| SDK: classes (`JQFunctionTemplate`, `JQObjectTemplate`) | templates, their properties, constructors | set, clone, construct, call | every native module |
| SDK: module environment (`JQTemplateEnv.cpp`) | functions, fields and exports by name | register, export, fail, free | the engine |
| SDK: value codec (`jqbson.cpp`, `jqmisc.cpp`) | none | script value to Bson to text and back | every call that crosses the border |
| SDK: bounded cache (`utils/LruCache.h`) | list, map, size, limit | put, get, resize, trim, erase | handed to native modules; the repository does not use it |
| Cipher (`aes.js`), shell (`app.js`, `base-page.js`, `about.vue`) | none another part reads | | |

What makes these parts hard, and what must be true of them:

* **Portal check.** Three answers, three request timeouts, a guard, a poll of the
  abort flag and an abort race to settle one promise. It must be settled once,
  in time, with a verdict that has a cause; an abort must not wait for a hung
  request. On the pen the three requests are not concurrent at all: they queue
  for one native thread while their timeouts already run.
* **Main page.** Any of its asynchronous calls may be overtaken: by a recheck, a
  choice of adapter, a manual address, a logout, an unload. The page numbers its
  flows (`_gen`) and every continuation compares. It must never be driven by an
  overtaken answer, never offer an action it has no server for, never stay in
  "checking", and give an external caller its result.
* **Management page and input method.** Timers that are stopped in `onHide` and
  may be started again by the next handler; an answer older than the one shown.
* **Store and log.** Load, change, write back with no lock; files overwritten in
  place; the application killed in between; a network that changes under the page.
  What was saved for a network must be what is read there; the log must be the
  latest lines, in order.
* **Worker threads.** A closure posted while the thread is about to remove itself:
  none may be stranded, two of one name must never run at once.
* **Asynchronous calls.** The object may be collected, its executor destroyed, the
  context freed between the call and its answer; callback functions are counted by
  hand. A call must be answered once, in order, and keep what it needs and no more.
* **Counted pointers and native objects.** Counts of several threads; addresses used
  again while maps still speak of the object before; circles; callbacks that
  unsubscribe each other while they run.
* **Classes.** An object gets its properties when it is made, but a call looks up the
  template as it is then: changes, clones and prototypes in between must not break it.
* **Codec, exchange, environment, cache.** Data that must come out as it went in,
  whatever is cut, broken, nested or repeated; references with one owner each; a
  limit that changes while room is made.

`PROJECT.json` lists each hazard at its line, with the properties that catch it.

## 2. Modules

| Module | What it is |
|---|---|
| `CheckPromise` | abstract: a promise that is settled once, with "aborted" if the flag was set |
| `Detect` | one `checkPortal` with its request timeouts; implements `CheckPromise` |
| `DetectNative` | `Detect` composed with the single native thread; implements `Detect` |
| `Index` | the main page with everything it waits for |
| `Ime` | the wrapper of the system input method |
| `IndexClaims` | statements of the documentation that the main page does not keep |
| `SerialExecutor` | abstract: closures of one name run one by one in their order |
| `NamedThread` | the named threads of the SDK; implements `SerialExecutor` |
| `Calls` | asynchronous native calls, composed with `SerialExecutor` |
| `SharedObject` | abstract: an object is not deleted while somebody owns it |
| `RefCount` | strong and weak pointers, one atomic access at a time; implements `SharedObject` until a promotion is tricked |
| `Objects` | native objects, their holders, signals, topics and property |
| `Templates` | function and object templates, the objects made from them and their calls |
| `ModuleEnv` | functions, fields and exports of a native module, and their references |
| `Bson` | values as Bson and as text |
| `Exchange` | one HTTP exchange of `panet` |
| `Store` | the account store over the native file operations |
| `Log` | the log file |
| `LruCache` | the bounded cache |
| `Extension` | `Bson`, `Exchange`, `Templates`, `ModuleEnv`, `Store`, `Log`, `LruCache` side by side |
| `IndexProofs`, `NamedThreadProofs`, `CallsProofs`, `RefCountProofs`, `ObjectsProofs` | theorems about the modules of these names |
| `PanetProofs` | theorems about `Detect`, `DetectNative` and `Exchange` |
| `ServiceProofs` | theorems about `Ime`, `Store` and `Log` |
| `SdkProofs` | theorems about `Bson`, `Templates`, `ModuleEnv` and `LruCache` |
| `MCDetectNative`, `MCIndex`, `MCObjects`, `MCStore`, `MCExtension` | instances for TLC |

Some operators exist in two forms, the second being the code with a plausible
mistake (`InitShort`, `FreshAlways`, `OnlineWithHeartbeat`, ...). They are not part
of the specification: substituting one shows that a property notices the mistake.

### Detect and DetectNative

`answer[p]` is what the callback of a probe has seen, `pending` the code's counter,
`result` the settled value. `OnReply` is the `.then` callback of `detect.js:90-105`
whole: abort, verdict, countdown. It is entered by `Respond` (the request layer
answers), by `RaceTimeout` (`raceTimeout` of `net.js` rejects) and, in
`DetectNative`, by `Answer` and `GiveUp` (the native call returns). `Guard`,
`AbortPoll` and `Abort` are the guard timer, a tick of the poll and the caller's
`signal.aborted = true`. Time is a tick counter; the clock does not pass a timer
that is due (`TimersQuiet`), and what is due at the same tick runs in any order.

`DetectNative` adds `queue`, the calls the native thread has not finished, and what
each host does. `Late` is a native call that ends after `raceTimeout` has rejected its
promise: the `done` flag drops it. The sizes are the code's: a request asks for
3.5 s, the native side cuts that to 3 s, `raceTimeout` adds 500 ms.

### Index

A variable stands for each field of the page that decides anything (section 3);
`ops` holds the asynchronous calls in flight as records with the generation and
the abort signal they captured. Starting a call adds a record, its continuation is
the action that removes it (`CheckDone`, `ConfDone`, `LoginDone`, `VerifyDone`,
`StatDone`), in any order and after any delay. `Drop` is a continuation whose
generation check fails, or a check that ended with "aborted". `RunCheck`,
`StartConf`, `StartLogin`, `AutoManage` are the methods the handlers share, and are
part of each action that calls them.

| Code (`index.vue`) | Action |
|---|---|
| first `onShow`, `readLaunchOptions`, `applyLaunch` | `ShowFirst(l)` |
| `wifiSsid().then(loadAccount)` | `InitDone` |
| later `onShow`, `onHide`, `onUnload`, `onNewOptions` | `Show`, `Hide`, `Unload`, `NewOptions` |
| `runCheck(true)` by tap; `pickAdapter`, `applyManualServer`, `doLogin`, `doLogout`, `openManagement` | `TapRecheck`, `PickAdapter`, `ApplyManual`, `TapLogin`, `TapLogout`, `TapManage` |
| edit fields and what the input method returns | `Edit`, `ImeDone` |
| verdict of a check, up to `startPortalConf`'s await | `CheckDone` |
| after the awaits of `startPortalConf`, `doLogin`, `verifyOnline`, `doLogout` | `ConfDone`, `LoginDone`, `VerifyDone`, `LogoutDone` |
| heartbeat interval and its answer | `StatTick`, `StatDone` |
| the 800 ms timer of `_autoManage` | `ManageTimer` |
| events of the management page, other pages opening and closing | `ManageUsable`, `ManageClosed`, `OpenOther`, `OtherClosed` |
| `read` of `store.js` for a save that had to wait for it | `SaveDone` |

Abstractions. Windows of the wall clock (8 s after `onHide`, 90 s and 180 s of the
automatic entry, 3 s after the input method) are a free choice once the time stamp
they start from is set, so the model has every behaviour the clock could give and
some it could not. A user name and password are one value. `status.json` is
written and never read back by the page and is left out, as are texts and the log.
A save is one step when the store has its file in memory; otherwise (an external
launch does not read it) the save is a record in `saves` until `SaveDone`. Only the
account of the present network is kept in this module; `Store` has the file with all of them. Of the input method the page sees sessions that are asked for and
answered (`ime`, `imeBusy`); before the panel covers the page, which may take 600 ms,
the user can tap something else, a second field included, so taps are never barred. One heartbeat query is in flight at a time: it is sent every 30 s
and settles within 8.5 s. Destroyed pages keep running their continuations, as
they do in the code.

### Ime

`Open` is `open()`, which only sets a timer; `Start` and `Refused` are `openNow` with
the two answers of the native side, each with the `cleanup` it begins with (`Cleaned`,
`Idle`); `Finish` is the callback, `Cancel` is `cancel` and `destroy`. A session is named
by the attempt that started it, which stands for its UUID. The native panel is
external: it shows what was started and not closed (`screen`), and the user confirms
or leaves a session any number of times (`UserEnds`), which sends the callback over
both channels. What the callback's payload looks like is abstracted to a confirmed
text or none, and to whether `finish` finds the UUID of its session in it (`named`). The
comment at the top of `ime.js` says that a callback may have the UUID as its first
argument; `asObject` makes an object of such a string, in which `finish` does not look for a
UUID, so it is then not compared (`Matches`), and the UUID of another session may pass for the text
(`Results`). `Index` sees only the calls and their answers.

### NamedThread and SerialExecutor

`thread` is the manager's map, `state[t]` says where in its loop a thread is
(`JQNamedThread.cpp:40-85`): what it does under the mutex is one step, and the wait for a
signal is left by a signal, by the keep-alive time or for no reason. `TakeOrLeave` is the
round after it: the first closure, or out of the map. A thread that cannot be created
(`Thread.h:137`) is in the map all the same and serves nothing (`stillborn`); the abstract
executor has such names in `stalled`. The mutex of the manager covers a post and a
removal, so these are whole steps.

### Calls

The script's `Call` is `JQObjectTemplate::Caller` to the end: id, functions, executor,
post. The worker takes it (`Run`), promotes its weak pointer (`Promote`), posts one task
(`PostAnswer`), lets the object go (`Release`); `Deliver` is the task on the script thread.
`Collect`, `FreeMethods` and `FreeContext` come at any time. The worker threads are the
abstract `SerialExecutor`, which `NamedThread` implements. Who holds an object is the set
`refs`; the functions in the context's `__jq_AE_cbMap` are triples of id, role and call.
The Handler that queues the tasks of the script thread is closed source: first in, first
out.

### RefCount and SharedObject

One object, its two counters and the pointers of any number of threads. Every
`jquick_atomic_inc` or `_dec`, the write of `m_ref`, and the two deletions are steps of
their own; `state[p]` is how far an operation on a pointer is.

Every thread promotes. In the SDK the script thread does (`JQFuncDef.cpp:179`, `:233`, and the
executor's deliveries, `JQAsyncExecutor.cpp:68`, `:84`, `:129`, `:167`), the methods of an object do on
their named thread (`JQFunctionTemplate.h:106`), and a slot does on the thread of its handler
(`JQSignal.h:159`). By default there is one named thread for each module
(`JQAsyncSchedule.cpp:112-126`), so an object is promoted by two threads; a schedule by function or
object, or a slot on a third thread, makes them more. A promotion raises the strong count
before it looks, and one that meets another's failing attempt takes it for an owner. Then either
`m_ref` is cleared already and it gets NULL, while the counts it has raised stay (`strays`), or a third
thread is just between its last release and the clearing of `m_ref`, and the promotion
gets an object that is about to be deleted (`tricked`). The latter takes three threads.

A wp that is assigned from a wp looks whether the object is there, and reads the object in a
step of its own, which nothing protects (`AssignFromWeak`, `Reach`); what a thread does that has read a
deleted object is not followed. `SharedObject` has owners and a flag, and a promotion there is
one step; a promotion that is tricked is mapped to a deletion, after which nobody owns
anything that is there.

### Objects

An object is named by its address, and addresses are used again. The maps of the
template (`valueHolders`, `refHolders`, `registers`, `hooks`) are keyed by it. `counts` are
the references to the script's functions, counted by hand in the code. A publication is
many steps, since the functions it calls may subscribe, unsubscribe and collect; a
property set on a worker becomes a task of the script thread. Left out: emissions from
within a listener.

### Extension and its parts

Seven components have no state in common, and one run checks them together: a
behaviour picks one at the start and leaves the others as they are.

* `Templates`: a template maps names to kinds of properties, an object remembers the
  template it came from and what it got. `Aborts` is what `Caller` does when the template
  has no such function any more or no native object stands behind an asynchronous one.
  The script calls a method it finds on an object with that object; methods torn off and
  called on another object are left out, as are templates nested as values.
* `ModuleEnv`: `counts` against the owners of each reference.
* `Bson`: numbers are counts of halves, strings are sequences of kinds of characters, so
  that widths, surrogate pairs, escapes and U+0000 are told apart. Strings go back to the script as
  C strings and keys both ways, so they are cut before U+0000 (`UpToNul`, `KeysCut`), although the text keeps it
  in strings; of two keys that become the same one some one stays. A value is a function from places
  (the steps that lead there) to nodes, so `ToBson`, `ToScript` and `Dump` work place by
  place. The parser is one function over its calls (`Calls`: which loop, from which token, how
  deep), and `Yields` is the body of a call. A text may lose, gain or change one token on its
  way, and `Parse` must then say what a reference definition says: `Meaning` is the grammar of
  JSON, which asks of every span of tokens what it can be and knows nothing of a next token.
* `Exchange`: a URL as tokens, a reply as units that arrive in any portions. A server may
  stop, break or stall at any point. The loops of the parsers are functions of the number of
  rounds done (`Dechunk`, `B64ToBytes`), with the round as an operator (`NextChunk`, `NextDigit`). Replies that are ambiguous in themselves (a head
  with bare LF whose body has a blank CRLF line, `panet.cpp:260`) are excluded from
  `BodyHonest` by name (`Ambiguous`).
* `Store`: the calls of `store.js` as the page makes them, the native file operations one
  after the other, a write that opens (and empties) the file before it fills it, a kill at
  any point, files of version 1. `asked` and `kept` remember what was saved. The script's
  work for one answer is done before the next; both tools that print the WiFi's name
  print the same one.
* `Log`: lines as numbers; the file is emptied when it has passed its limit, before the next
  line; a full disk cuts a line.
* `LruCache`: every read or write of the limit outside of the mutex is a step. Keys only.

## 3. Properties and runs

Every property has a mutant of the code in `PROJECT.json` that TLC catches with it.

| Run | Question | Bounds |
|---|---|---|
| `detect` | `detect.js` by itself, whatever its requests do: `VerdictHasCause`, `AbortPrompt`, and refinement of `CheckPromise` with its liveness (`ImplementsPromise`) | one tick for 250 ms: poll every tick, guard 19 (4.7 s, rounded up), request timeout 21, after the guard, so that the guard has something to decide; clock to 22 |
| `detect_native` | probes served one by one, with the timers of the program, implement `Detect` (`Spec`); no check outlives `raceTimeout`, 500 ms after the timeout that its requests are given (`SettledByRace`), the guard decides nothing (`OfflineMeansAllFailed`), and one silent host does not turn the verdict (`OneSilentProbeIsTolerated`) | three hosts, each of three kinds; ticks of 250 ms: silent calls hold the thread for 12 (3 s), `raceTimeout` 16 (4 s), guard 19; the second silent call ends at 24, the clock at 25. For requests answered in any order the first two are theorems |
| `index_safety` | the page from a plain start: `OneCurrentFlow`, `AbortedIsStale`, `QuietWhenOnline`, `ActionsHaveTarget` | four events by user and system, any number of answers; one server and adapter, since these properties do not compare two |
| `index_caller` | the page launched in every way: `SavedForItsServer`, `CallbackDelivered`, `BusyResolves` | two servers and two adapters to confuse, two events |
| `ime` | `SessionTended` (no session is left on the screen by a second call, a retry or a cancel), `TextIsOwn` (a late callback that names its session does not answer another call), `Answered` (each call is answered or has its session) | two calls of `open()`, each with its retry: four sessions, so that one has ended, one is open and one waits for its timer |
| `named_thread` | post against wait, timeout, removal and a failing creation: `OneAtATime`, `NothingStranded`, `NoMissedSignal`, and refinement of `SerialExecutor` with its liveness (`ImplementsSerial`) | two names, one with a keep-alive time; four closures; four threads, so that a name loses its thread and gets another |
| `calls` | `FunctionsHeld` (what a waiting call needs is there, and nothing else), `AnsweredInOrder` (once, in order), `Answered` | two objects on two threads, three calls |
| `refcount` | `OwnersFindIt`, `DeletedOnce`, and refinement of `SharedObject` (`ImplementsShared`), until a promotion is tricked; `TricksTakeThree`: that does not happen on two threads | three strong and two weak pointers, three threads that all promote, so that one releases while two promote; promotions begin while no count is left behind |
| `objects` | `RefsBalanced`, `DeadLeavesNothing` (an address used again), `CirclesGo`, `TopicCallsLive`, `LastToldIsCurrent` | two addresses, three objects, two functions, three acts |
| `extension` | `TextKeepsValue`, `BodyHonest`, `CallsAnswered`, `ExportsBalanced`, `StoreHonest`, `LogIsRecent`, `CacheHonest`, one for each part | three templates, two functions, two objects; values nested one beyond the limit; replies of up to three bytes in two chunks, two addresses; two users on two networks, two starts, two calls of the store, one change of network; five lines with a limit of two; four keys, two threads and two resizes of the cache |

Only what the user, the system and the script do is bounded; answers and timers are
not. Four events are enough for a recheck during a login during a hidden page with
a management page on top; two are enough to change the server under a login. Three asynchronous
calls let one be answered while one runs and one waits; three acts let a subscription, an
unsubscription and a publication meet. Deadlock is not checked: a check that is
settled, a page that is unloaded, a freed context and a reply that is answered stop.

**Fairness.** In `Detect` the timers of the JavaScript run time fire and the clock
advances (`WF` of `RaceTimeout`, `Guard`, `AbortPoll`, `Tick`); the network owes
nothing. In `Index` every request settles: `raceTimeout` and the guard, which
`detect` and `detect_native` establish, justify `WF` of the continuations, file reads
return (`InitDone`, `SaveDone`), timers fire. One `WF` covers all continuations but the heartbeat's together: every one
of them removes a call, and only user events, which are bounded, and those
continuations themselves add calls, so none is starved. Nothing is asked of the user.
In `Ime` timers fire; neither the user nor the callbacks owe anything. In `NamedThread`
the system runs its threads and a closure returns, in `Calls` the worker and the script
thread go on (the timeouts of the C library bound a method of `panet`). Nobody has to post, call or
collect. `RefCount`, `Objects` and `Extension` have safety only.

**Disagreements.** Two runs are expected to fail: each checks one statement of the
repository's own text that the code does not keep. `PROJECT.json` quotes the line.

| Run | What happens |
|---|---|
| `claim_login_ends` | a recheck during a login drops the login's continuation before it clears `logging`; from then on `doLogin` returns at once |
| `claim_store` | the page asks for the WiFi's name once; after the device has joined another network a login there is saved under the first name, over the account kept for it |

## 4. Proofs

TLAPS checks the following for all values of the constants that satisfy the
`ASSUME`s of the modules (a finite, nonempty set of probes, positive times with the
guard inside the clock; an absent value distinct from servers, adapters and
credentials; launches and stored accounts of their types; URLs and replies that are well formed; finitely many pointers and
addresses). Bounds like `MaxCalls` are any numbers there.

**Main page** (`IndexProofs`). `TypeOK` is a conjunction with one part
for each group of variables, so that an action is proved for the groups it assigns and
`Kept` covers the rest. The safety properties are not inductive alone. `Inv` adds:

* `GensBounded`, no call of a future generation: a new generation starts alone;
* `CurrentSignal`, a current call holds the live abort signal, from which
  `AbortedIsStale` follows;
* `BusyIsChecking`, a busy page has no current call but its check or configuration,
  and a current check means a busy page. Without it a heartbeat query or a login
  could turn a checking page, and `QuietWhenOnline` would not be kept;
* `LoginTarget`, a current login is for the server the page shows;
* `NewIsIdle`, nothing is in flight before the first `onShow`.

Four lemmas say what a step may do to the calls in flight (`NextGeneration`,
`Removed`, `Replaced`, `Undisturbed`); each action is one of these and a few words
about the page. Results: `TypeCorrect`, `OneFlow`, `AbortedStale`, `Quiet`,
`HaveTarget`, and the action property `SavedRight`, which rests on `LoginTarget`: the
code reads `serverBase` again after the login's await, and this is why it is safe.
It speaks of a remembered login (`index.vue:977-988`) and of what is handed to the store at that
moment; one that is not remembered reads the server once more after a second await (section 5).

**Portal check** (`PanetProofs`). `Inv` adds the meaning of the countdown
(`Countdown`: the probes that have not failed, and failures after an abort are not
counted) and `Undecided` (an unsettled check is still missing an answer). Results:
`TypeCorrect`, `HasCause`, `InTime`, `ByRace`, `AllFailed` (if the request timeout is
below the guard), `Prompt` (one poll period after the abort, from the division
lemmas), and `KeepsPromise`, the safety part of the refinement.

**Input method** (`ServiceProofs`). `Inv` adds `Consistent`: the resolver, the subscription,
the current UUID and the screen agree on whether there is a session. Results:
`TypeCorrect`, `Tended`, and `OwnText`, which rests on the comparison of the UUIDs and so speaks
of the callbacks in which `finish` finds one; of the others it is not true (section 5).

**Worker threads** (`NamedThreadProofs`). `IInv` adds to the types that map and threads
agree (`MapOK`: the map points to a thread of that name that is alive or was never
created, and every such thread is in the map), that a thread outside the map or asleep
has nothing queued (`QueueOK`), and that a closure runs exactly in the state for it
(`CurrentOK`). The three safety properties do not survive a step alone: that a second
thread of a name has nothing in common with the first one depends on the map. Results:
`Exclusive`, `NeverStranded`, `SignalsArrive`, and `SerialSafety`, that every step is one of
the abstract executor or a stutter.

**Classes** (`SdkProofs`). `CallsAnswered` speaks of two moments, the making of an
object and the call. `TplInv` keeps between them: what an object has is still in its
template (`Kept`, since a template's property is never replaced), an asynchronous
property comes with a native object (`Backed`), also if it is the prototype's
(`Inherits`), because the function of such a prototype forces one and goes on to do so
(`Forcing`). `ClassStep` says once that a step that only lets templates grow (`Grows`)
disturbs no object, `NewInOrder` what a new object must satisfy. Result:
`MethodsCanBeCalled`, for any number of templates, functions, objects and properties.

**Probes on one thread** (`PanetProofs`). `NativeImplements` takes the steps
of `DetectNative` one by one to steps of `Detect`, so what is proved of a check with
independent requests holds for queued ones (`NativeByRace`, `NativeAllFailed`).
`OneSilentIsTolerated` needs the queue itself: `Asked` says that a probe without an
answer is in the queue, once; `Served` that only the call to the silent host takes time, so
that those behind it are over as soon as it gives up. It assumes
that the native side gives a silent host up before `raceTimeout` does, and that before the
guard (3 s, 4 s, 4.7 s in the code), and that no probe is asked for twice.

**Counted pointers** (`RefCountProofs`). `IInv` says what each counter is made of, pointer
by pointer, in the middle of an operation too (`Counted`: a pointer being copied already
stands for a reference, one that raises the count for two, and a count left behind for itself); that a
thread that works on a pointer keeps another one it may rely on (`Backed`); and that, until a promotion is
tricked, exactly one pointer is on its way from the loss of the last owner to the deletion (`Lives`), in which
promotions that fail or are misled are in nobody's way (`Vain`). The counters are safe without that
exception, since they depend on `Counted` alone. `MisledStep` finds the three threads: one between release and
`m_ref`, one in a failing promotion, and one whose promotion is misled, each with one operation only
(`OneEach`). Results, for any numbers of pointers and threads: `TypeCorrect`, `OwnersFind`, `DeletesOnce`,
`TricksAreRare`, `KeepsPromise` (the whole of `ImplementsShared`); and on at most two threads `PairsAreSafe`, that no
promotion is tricked, so that the others hold without exception.

**Asynchronous calls** (`CallsProofs`). `FunctionsHeld` says that the
context's map and the maps of all executors agree (`Kept`), which holds because an id is never used
twice (`Ids`). `AnsweredInOrder` follows a call on its way: `Waiting`, `Working`, `Queued` and
`Done` say that the calls of one thread stand in its backlog, on it, in the queue of the
script thread and among the answered ones in the order in which they were made (`InLine`).
Results: `TypeCorrect`, `FunctionsStayHeld`, `AnswersInOrder`.

**Native objects** (`ObjectsProofs`). `Lives` says which map may know which address: an object
that holds another is itself attached, so that a release never reaches a second object,
and a free address is known to no map. The count of a function is compared with the
cardinality of the set of places it has in the slots (`Owned`); a slot that changes moves it by
what was taken out and put in. `Orphans` says that what is left in the slots of a collected
object came too late, without which the second half of `RefsBalanced` breaks at the release of
such an object; `Copied` that a topic calls what it has taken references to; and `Current`
follows the last signal in the queue, which is what makes `LastToldIsCurrent` true when
the queue is empty. Results: `TypeCorrect`, `CountsBalance`, `NothingIsLeft`,
`NoCircleStays`, `TopicsCallLive`, `ToldIsCurrent`. The tasks that go with an object are removed by
a recursive function (`Among`); that it keeps order and members is proved by the least
counterexample (`Least`, `Induction`, `AmongPicks`), which needs no operator as a parameter.

**Account store** (`ServiceProofs`). `StoreHonest` compares the cache with what was saved and the
file with what was written; in between both are on their way. `StoreWhole` says of every stage that it has
the slots it should have (`Has`): the file, each write that waits, the cache, and the cache that
the one call which reads the file will make of it (`After`). That needs `ReadFirst`, that nothing is
written before the file has been read, and that only one call reads, which is what `excuses` excepts.
`CallKeeps` is the heart: on any map that has what was asked for, each call of the store makes a map that
has what is asked for then; `ReadsWhatIsWritten` that `normalize` undoes `write`. Results:
`StoreStep`, `AccountsKept`, for any networks, users, files and failures.

**Log** (`ServiceProofs`). That no line is missing in the middle is a statement about the file only;
kept by a step it becomes one about the lines that wait as well. `Accounted`: every line behind one of
the file is in the file, waits, or could not be written (`missed`); `WaitInTurn`: so is every line behind one that waits;
`PendingInOrder` and `FileInOrder`: both are in the order of logging. A kill empties the queue and counts what it
loses among the `missed`. Results: `LogStep`, `RecordHasNoGap`, for a limit of any size.

**Module environment** (`SdkProofs`). `ExportsBalanced` counts the references to each value: the native
code's own, the maps' and the one to the object of the environment. It is kept by a step if nothing is exported
before the module is loaded (`ExportedOnce`), since `setModuleExportDone` overwrites the exports. The lemmas
say how often a finite map has a value once an entry is put in, replaced or taken out (`UsesPut`,
`UsesWithout`), or once the map is split into what is listed and what is not (`UsesParts`). Results: `EnvStep`,
`ReferencesBalance`.

**Bounded cache** (`SdkProofs`). The size of the cache is compared with the number of units of the mapped entries
(`Units`, a set of pairs, so that its cardinality is their sum), which changes by the size of an entry that comes or goes
(`UnitsMore`, `UnitsLess`). `Putting` says that who makes room for an entry has the mutex, and that
nobody has cached the entry meanwhile: `putCache` looks for it once, before it makes room. `MovedToFront` and `Pushed` say place by place what
happens to a list when an entry goes to its front, so that the list stays a prefix of what was used last. Results: `CacheStep`, `CacheStaysHonest`, for any number of threads.

**HTTP exchange** (`PanetProofs`). The inductive invariant is short: a request goes out only for what the
URL names, and what has come and what is still to come are the two parts of that server's reply (`IsSplit`,
in `ExInv`). The work is in what the parsers make of any beginning of any reply. `UrlIsParsed`: the text of a
URL is taken apart into its parts. For the head, `HeadTold` says that a beginning of it tells nothing wrong;
`HeadEndOf` that its end is found where it was sent, or not at all, which is where `Ambiguous` is needed.
For the body, `NextCut` is the invariant of the loop over the chunks: after each round it stands before a
chunk with the whole content before it read, or behind the end of what has come. `ParseIsHonest` puts these
together, `ToldIsHonest` carries the result through base 64 (`Base64KeepsBytes`, by the bits that are held
between two digits) and JSON (`JsonKeepsText`). Loops are taken by the least round at which a claim would
fail (`LeastOf`, `UpTo`), and `Rounds` gives the functions that the recursive definitions name. Results:
`ExchangeStep`, `BodyIsHonest`, for any URLs whose parts hold none of the punctuation between them, any
shapes of replies with chunks that are not empty, and any limits.

**Value codec** (`SdkProofs`). The inductive invariant `CodecInv` says that the text is made of tokens and,
as long as nothing has changed it, that it is the value's up to the spelling of its strings
(`IsTextOf`). What `TextKeepsValue` says then follows from two theorems about texts, not about steps.

`ReadAsMeant`: on any text of tokens `Parse` and `Meaning` are the same. Both are functions that name
themselves, so the first thing to prove is that there are such functions: a call of the parser needs only
calls further on in the text (`CallRank`), a span only shorter ones, and functions that agree below a rank
agree at it (`YieldsAlike`). Induction over the rank is by the least counterexample
(`LeastOf`, `UpTo`). Then, from the end of the text to its beginning, `ValueMatch` compares the call at a
token with the spans that begin there: the call fails and no span means anything, or it reads the one value of the spans that
end where it stops, up to comments. Lists need that what is in front of a
comma is one value that ends there, which is why the statement is about all ends at once. `StringIsRead` is
the invariant of `parse_string`: a first half of a pair that waits stands for the character
whose second half comes next.

`WrittenIsRead`: a text of a value is read as what the way there and back keeps of it (`Remains`): what JSON can tell,
and of strings and keys what stands before U+0000. A value whose keys were cut once is not changed by a
second cut, which is what the lemmas from `UpToNulAt` to `NothingCut` say. `Holds` says of a value that
was read that it has, from a place on, what remains of the written one, and `AllBack` shows it for
every place, the deepest first: arrays and objects from their last item or member to the first
(`ItemsAllBack`, `MembersAllBack`), with the commas and the comments, of which a written text has none (`Clean`). Keys
come back because they are all different in the text. Result: `TextIsKept`, for any values of any
depth, any limit of nesting and any number of changes.

Only model-checked: liveness (`BusyResolves`, `CallbackDelivered`, `Answered` of both modules,
`ImplementsPromise` and `ImplementsSerial` beyond their safety), which the
prover does not reach. Every invariant of the passing runs is a theorem.

## 5. Seen and not stated

Disagreements with the repository's own text that were met while modelling and have
no run of their own:

* README.md:53-54 says the three probes are started at once and only all of them failing
  means offline; on the pen one native thread serves them, and with two silent hosts the
  third, reachable one times out in the queue (`JQAsyncSchedule.cpp:126`).
* docs/external-api.md:46 says a second launch of the running page takes effect;
  `onNewOptions` names an undefined `safeJson` and throws first (`index.vue:373`). The model
  has it throw.
* README.md:113 says timers are released in `onHide` and `onUnload`; a continuation that
  arrives later starts the heartbeat again (`index.vue:847`).
* README.md:79-80 says there is no automatic entry after a tap on recheck; the 800 ms timer that
  is already set opens the management page all the same (`index.vue:451`).
* detect.js:35 says that the timeout, 3.5 s, is the worst time to the verdict "offline"; `raceTimeout`
  waits 500 ms more (`net.js:139`), so that with two silent hosts the verdict comes after 4.0 s. `SettledByRace` has
  the 4.0 s.
* ime.js:4-5 says that a callback may carry the UUID as its first argument and ime.js:172 that the UUIDs are
  compared; `asObject` (`ime.js:38-43`) makes `{__raw: ...}` of such a string, in which `finish` knows no
  UUID, so a late callback of a replaced session answers the next call. `TextIsOwn` speaks of the others.
* `ime.js:12` and `:199` promise a retry and the text; on the first refusal `openNow` answers its
  own call with null through `cleanup`, and the session of the retry has no caller (`ime.js:260`).
* `JQAsyncInfo::isSettled` (`JQFuncDef.cpp:240-246`) returns whether the callback is still there, which
  is the opposite of its name.

Behaviour met while modelling that no text of the repository speaks about, kept for
later properties: `onHide` sets `_leftAt` also while the management page is in
front, although the comment at `index.vue:190` expects it only from the closing of that page;
credentials edited while a login is in flight are the ones stored; an input session
whose timer is set opens after `onUnload`; after `openNow` has answered its call at the
first refusal, `_imeBusy` is false when the retried panel appears, and `onHide` cancels it; after `pickAdapter` or `applyManualServer` overtakes a check the
label of the recheck button stays "checking"; a login answered with code 200 does
not go on to device management although a verified one does; with no
adapter recognised the server just detected is not kept, and a later choice uses an
older one; an accepted login that is not remembered, on a page launched by another
program, reads the server a second time after the file has been read, when the page
may have another one, and is saved with the adapter of the login and that server (`SaveDone`); with the management page failing slowly the automatic entry may repeat
when the page is shown more than 8 s after it was left; the portal may stay
without a heartbeat after `onShow` returns early during a login.

In the SDK: two threads that promote while the last strong pointer goes can leave the counters too high, so
that they are never freed, and with three threads a promotion can get an object that is being deleted (`REF.h:78`, section 2);
the assignment of a wp to a wp reads the object without owning it (`REF.h:341-343`); strings and keys are
cut before U+0000 on their way to the script (`jqmisc.cpp:164`, `:175`, `:262`); two threads that set one property can
leave the older value told last; `signalEmit` does not hold the listeners it walks over, a
topic does (`JQBaseObjectExt.cpp:185`); an unknown callback argument of `subscribe` throws but is kept
(`JQPublishObject.cpp:57`, a `return` is missing); `setModuleExportFailed` keeps the references of
the entries (`JQTemplateEnv.cpp:232`); `KeepPtr::operator=` releases before it takes, which a
self-assignment would not survive (`JQKeepPtr.h:100`); an iterator is good for one
loop (`JQIterObject.cpp:113`); a `resize` of the cache below the size of an entry that another
thread is putting leaves that thread in an endless loop with the mutex (`LruCache.h:91`); the arguments of a
new named thread are passed in another order than they are declared in one place
(`JQNamedThread.cpp:113`); the destructor of an object may run on a worker and changes the maps of its
template without a lock (`JQBaseObject.cpp:40`).

## 6. Not modelled, and what could follow

* `Management`, composed with `Index`: the refresh timer, dialogs, and a list that is
  older than the one shown; the two events in their real order.
* `Panabit`: session refresh and retry of login, logout and the device calls.
* Pure algorithms of the UI: portal URL extraction, scoring of adapters.
* The log of the other platform (`logger-cvi.js`): a list in memory, cut to 500 lines, with no file and no
  await.

Not planned: the AES arithmetic (a fixed function, no state); the log page, `about.vue` and
the shell, which hold no state another part reads; iterators, type helpers and function
wrappers of the SDK, which no code of the repository uses; `quickjs.h` and the headers of
the looper, which declare closed or third-party code; build files.
