-------------------------------- MODULE Store --------------------------------
(***************************************************************************)
(* The account store (ui/src/services/store.js): one account per WiFi, in  *)
(* a cache and in one file that the native module (native/panet) reads and *)
(* overwrites in place, as the main page uses it.  The page asks for the   *)
(* name of the WiFi once, when it is mounted, and not at all when another  *)
(* program has launched it; the device may join another network meanwhile. *)
(*                                                                         *)
(* Native operations run one by one on the thread of the module and their  *)
(* answers come in the same order; what the script does for one of them is *)
(* done before the next.  The application may be killed at any time.       *)
(***************************************************************************)
EXTENDS Naturals, Sequences, SequencesExt

CONSTANTS
    Wifis,      \* names of networks; "" is a name that is not known
    Users,      \* who logs in
    Wireless,   \* what /proc/net/wireless may hold: sequences of lines
    FirstTexts, \* what the file may hold at first
    MaxCalls,   \* bound: calls of the store
    MaxStarts,  \* bound: starts of the page
    MaxJoins    \* bound: changes of the network

ASSUME StoreAssumption ==
    "" \notin Wifis \cup Users /\ {MaxCalls, MaxStarts, MaxJoins} \subseteq Nat

VARIABLES
    calls, starts, joins,   \* counters of the bounds
    wifi,       \* the network the device is in
    dataDir,    \* there is a directory for the file
    file,       \* the file
    opened,     \* a write has emptied the file and not filled it yet
    memory,     \* _memory: <<>> or <<db>>
    page,       \* the page: it is up, and its _ssid
    queue,      \* native operations
    replies,    \* their answers, on the way
    asked,      \* history: the account last saved in a WiFi under its name
    kept,       \* history: those of the last whole file
    excuses     \* history: what the store has been made to suffer

bounds == <<calls, starts, joins>>
disk == <<file, opened, kept>>
store == <<bounds, wifi, dataDir, disk, memory, page, queue, replies, asked, excuses>>

-----------------------------------------------------------------------------
\* Slots.  A password is <<>> or <<p>>; paAesEncode and paAesDecode.
EmptySlot == [user |-> "", password |-> <<>>, remember |-> FALSE]

EncodeSlot(s) ==
    [s EXCEPT !.password = IF @ = <<>> THEN <<>> ELSE <<"aes", @[1]>>]

\* The fault: the cipher is taken for the password.
DecodeSlotPlain(s) == s

DecodeSlot(s) ==
    [s EXCEPT !.password = IF @ # <<>> /\ @[1] = "aes" THEN Tail(@) ELSE <<>>]

\* A map with the entry of a name set.
With(map, k, v) == [m \in DOMAIN map \cup {k} |-> IF m = k THEN v ELSE map[m]]

Only(map, S) == [k \in DOMAIN map \cap S |-> map[k]]

Defaults == [accounts |-> <<>>, ssid |-> ""]

\* The text of a file: nothing, what is left of a write, a map (version 2), or one
\* account at the top (version 1, or no version).
Text(version, ssid, slot, accounts) ==
    [version |-> version, ssid |-> ssid, slot |-> slot, accounts |-> accounts]

Missing == Text("missing", "", EmptySlot, <<>>)
Torn == Text("torn", "", EmptySlot, <<>>)

Normalize(t) ==
    LET top == DecodeSlot(t.slot)
        some == \/ top.user # "" \/ top.password # <<>>
                \/ t.version = "1" /\ top.remember
    IN CASE t.version \in {"missing", "torn"} -> Defaults
         [] t.version = "2" ->
              [accounts |-> [k \in DOMAIN t.accounts |-> DecodeSlot(t.accounts[k])],
               ssid |-> t.ssid]
         [] t.version \in {"1", "none"} ->
              [accounts |-> IF some THEN With(<<>>, t.ssid, top) ELSE <<>>,
               ssid |-> t.ssid]

\* write: what it makes of the cache.
Serialized(db) ==
    Text("2", db.ssid, EmptySlot, [k \in DOMAIN db.accounts |-> EncodeSlot(db.accounts[k])])

\* loadAccount: the slot of that name, or without a name the one used last, or the
\* one of an old file that knew no names.
LoadAccount(db, ssid) ==
    LET Has(k) == k \in DOMAIN db.accounts
        key == IF ssid = "" THEN db.ssid ELSE ssid
    IN IF key # "" /\ Has(key) THEN db.accounts[key]
       ELSE IF ssid # "" /\ DOMAIN db.accounts = {""} THEN db.accounts[""]
       ELSE EmptySlot

SaveAccount(db, ssid, a) ==
    LET key == IF ssid = "" THEN db.ssid ELSE ssid
    IN [accounts |-> With(db.accounts, key, a), ssid |-> key]

WithoutPassword(a) == [a EXCEPT !.password = <<>>, !.remember = FALSE]

ForgetPassword(db, ssid) ==
    LET key == IF ssid = "" THEN db.ssid ELSE ssid
    IN IF key \notin DOMAIN db.accounts THEN db
       ELSE [accounts |-> With(db.accounts, key, WithoutPassword(db.accounts[key])),
             ssid |-> db.ssid]

ClearAccount(db, ssid) ==
    IF ssid = "" THEN db
    ELSE [accounts |-> Only(db.accounts, DOMAIN db.accounts \ {ssid}), ssid |-> db.ssid]

-----------------------------------------------------------------------------
\* wifiSsid.  The interface is the first one named before a colon, but for names
\* with a dash and the word "face".
WirelessIface(table) ==
    LET i == SelectInSeq(table, LAMBDA l : l.colon /\ ~l.dash /\ l.name # "face")
    IN IF i = 0 THEN "wlan0" ELSE table[i].name

\* The first line with this key that has a value.
GrepSsid(text, key) ==
    LET i == SelectInSeq(text, LAMBDA l : l.key = key /\ l.value # "")
    IN IF i = 0 THEN "" ELSE text[i].value

\* What a tool prints for an interface: nothing if it is not there, knows nothing of
\* the interface or cannot reach the driver.
Printed(ok, key, ifc, table) ==
    IF ok /\ \E i \in DOMAIN table : table[i].real /\ table[i].name = ifc
      THEN <<[key |-> "bssid", value |-> "mac"], [key |-> key, value |-> wifi]>>
      ELSE <<>>

WifiSsid(table, iw, wpa) ==
    LET ifc == WirelessIface(table)
        first == GrepSsid(Printed(iw, "SSID:", ifc, table), "SSID:")
    IN IF first # "" THEN first
       ELSE GrepSsid(Printed(wpa, "ssid=", ifc, table), "ssid=")

-----------------------------------------------------------------------------
StoreInit ==
    /\ calls = 0 /\ starts = 0 /\ joins = 0
    /\ wifi \in Wifis /\ dataDir \in BOOLEAN
    /\ file \in IF dataDir THEN FirstTexts ELSE {Missing}
    /\ opened = FALSE /\ memory = <<>>
    /\ page = [up |-> FALSE, ssid |-> ""]
    /\ queue = <<>> /\ replies = <<>>
    /\ asked = <<>> /\ kept = <<>> /\ excuses = {}

\* A call of the store: what it does once it has the cache.
Call(kind, ssid, a) == [kind |-> kind, ssid |-> ssid, account |-> a]

After(k, db) ==
    CASE k.kind = "load" -> db
      [] k.kind = "save" -> SaveAccount(db, k.ssid, k.account)
      [] k.kind = "server" -> SaveAccount(db, k.ssid, LoadAccount(db, k.ssid))
      [] k.kind = "forget" -> ForgetPassword(db, k.ssid)
      [] k.kind = "clear" -> ClearAccount(db, k.ssid)

\* The rest of a call behind `await read()`; write hands over the whole cache.
Continue(k, db, names) ==
    /\ memory' = <<After(k, db)>>
    /\ queue' = IF k.kind = "load" \/ ~dataDir THEN queue
                ELSE Append(queue, [op |-> "write", then |-> k, saved |-> names,
                                    text |-> Serialized(memory'[1])])

\* Another call waits for its first read of the file.
Reading == \E i \in DOMAIN queue : queue[i].op = "read"
Read == \E i \in DOMAIN replies : replies[i].op = "read"

\* read: from the cache if there is one.
Begin(k, names, excused) ==
    IF memory # <<>> THEN Continue(k, memory[1], names) /\ excuses' = excused
    ELSE IF ~dataDir THEN Continue(k, Defaults, names) /\ excuses' = excused
    ELSE /\ queue' = Append(queue, [op |-> "read", then |-> k, saved |-> <<>>, text |-> Missing])
         /\ excuses' = IF Reading \/ Read THEN excused \cup {"overlap"} ELSE excused
         /\ UNCHANGED memory

\* The page is mounted, by the user or by another program.
StartPage(external) ==
    /\ ~page.up /\ starts < MaxStarts
    /\ starts' = starts + 1
    /\ page' = [up |-> TRUE, ssid |-> ""]
    /\ queue' = IF external THEN queue
                ELSE Append(queue, [op |-> "ssid", then |-> Call("load", "", EmptySlot),
                                    saved |-> <<>>, text |-> Missing])
    /\ UNCHANGED <<calls, joins, wifi, dataDir, disk, memory, replies, asked, excuses>>

Join(w) ==
    /\ joins < MaxJoins /\ wifi # w
    /\ joins' = joins + 1 /\ wifi' = w
    /\ UNCHANGED <<calls, starts, dataDir, disk, memory, page, queue, replies, asked, excuses>>

\* What the user has asked for in this WiFi, if the page has its name.
KnowsWifi == page.ssid = wifi

Expected(k) ==
    IF ~KnowsWifi THEN asked
    ELSE CASE k.kind \in {"load", "server"} -> asked
           [] k.kind = "save" -> With(asked, wifi, k.account)
           [] k.kind = "forget" ->
                [w \in DOMAIN asked |-> IF w = wifi THEN WithoutPassword(asked[w]) ELSE asked[w]]
           [] k.kind = "clear" -> Only(asked, Wifis \ {wifi})

Use(k) ==
    /\ page.up /\ calls < MaxCalls
    /\ calls' = calls + 1
    /\ asked' = Expected(k)
    /\ Begin(k, asked', IF KnowsWifi \/ k.kind \in {"load", "server"} THEN excuses
                        ELSE excuses \cup {"unnamed"})
    /\ UNCHANGED <<starts, joins, wifi, dataDir, disk, page, replies>>

\* A login that is to be remembered, or not; the latter loads the slot before.
Login(u, remember) ==
    LET a == [user |-> u, password |-> <<u>>, remember |-> TRUE]
    IN Use(Call("save", page.ssid, IF remember THEN a ELSE WithoutPassword(a)))

Other(kind) == Use(Call(kind, page.ssid, EmptySlot))

-----------------------------------------------------------------------------
\* The native thread: readFile, wifiSsid, writeFile.
Respond(text, name) ==
    /\ replies' = Append(replies, [op |-> Head(queue).op, then |-> Head(queue).then,
                                   text |-> text, name |-> name])
    /\ queue' = Tail(queue)

StoreServes(op) == queue # <<>> /\ Head(queue).op = op

ReadFile ==
    /\ StoreServes("read")
    /\ Respond(file, "")
    /\ UNCHANGED <<bounds, wifi, dataDir, disk, memory, page, asked, excuses>>

AskSsid ==
    /\ StoreServes("ssid")
    /\ \E table \in Wireless, iw, wpa \in BOOLEAN : Respond(Missing, WifiSsid(table, iw, wpa))
    /\ UNCHANGED <<bounds, wifi, dataDir, disk, memory, page, asked, excuses>>

\* fopen empties the file, if it does not fail.
OpenFile ==
    /\ StoreServes("write") /\ ~opened
    /\ \/ /\ file' = Torn /\ opened' = TRUE /\ kept' = <<>>
          /\ UNCHANGED queue
       \/ queue' = Tail(queue) /\ UNCHANGED disk
    /\ UNCHANGED <<bounds, wifi, dataDir, memory, page, replies, asked, excuses>>

\* fwrite, of all or, on a full disk, of less.
WriteFile ==
    /\ opened
    /\ \/ file' = Head(queue).text /\ kept' = Head(queue).saved
       \/ UNCHANGED <<file, kept>>
    /\ opened' = FALSE
    /\ queue' = Tail(queue)
    /\ UNCHANGED <<bounds, wifi, dataDir, memory, page, replies, asked, excuses>>

\* The script takes an answer.  A first read replaces the cache with what it has
\* read, even if another has filled it meanwhile.
TakeReply ==
    /\ replies # <<>>
    /\ replies' = Tail(replies)
    /\ LET r == Head(replies)
       IN \/ /\ r.op = "ssid"
             /\ page' = [page EXCEPT !.ssid = r.name]
             /\ Begin(Call("load", r.name, EmptySlot), asked, excuses)
          \/ /\ r.op = "read"
             /\ Continue(r.then, Normalize(r.text), asked)
             /\ UNCHANGED <<page, excuses>>
    /\ UNCHANGED <<bounds, wifi, dataDir, disk, asked>>

\* The application is closed or killed.
Stop ==
    /\ page.up
    /\ page' = [up |-> FALSE, ssid |-> ""]
    /\ memory' = <<>> /\ queue' = <<>> /\ replies' = <<>> /\ opened' = FALSE
    /\ asked' = kept
    /\ UNCHANGED <<bounds, wifi, dataDir, file, kept, excuses>>

StoreNext ==
    \/ \E external \in BOOLEAN : StartPage(external)
    \/ \E w \in Wifis : Join(w)
    \/ \E u \in Users, remember \in BOOLEAN : Login(u, remember)
    \/ \E kind \in {"server", "forget", "clear"} : Other(kind)
    \/ ReadFile \/ AskSsid \/ OpenFile \/ WriteFile \/ TakeReply \/ Stop

StoreSpec == StoreInit /\ [][StoreNext]_store

-----------------------------------------------------------------------------
\* Nothing is lost in a map: what it answers for a WiFi is what was last saved there.
Holds(db, names) == \A w \in DOMAIN names : LoadAccount(db, w) = names[w]

\* An account saved in a WiFi under its name is what loadAccount answers there, from
\* the cache and from the file, whatever is saved, forgotten or cleared elsewhere,
\* through failed writes and restarts; a restart loses at most the saves whose write
\* has not ended, or all if it has begun to empty the file.  Excused are a save by a
\* page that has not the name of its WiFi and first reads that overlap.
StoreHonest ==
    excuses = {} =>
        /\ memory # <<>> => Holds(memory[1], asked)
        /\ Holds(Normalize(file), kept)

\* store.js:13: the accounts of different WiFis do not overwrite each other.
SlotsApart == memory # <<>> => Holds(memory[1], asked)
==============================================================================
