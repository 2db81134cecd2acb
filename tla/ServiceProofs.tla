---------------------------- MODULE ServiceProofs ----------------------------
(***************************************************************************)
(* Proofs about the services of the page, which share no state.            *)
(*                                                                         *)
(* The input method wrapper keeps one account of its session, for any      *)
(* number of calls of open(), and gives no call the text of another.       *)
(*                                                                         *)
(* The account store answers what was saved.  The cache, the file and      *)
(* every write that waits must each have the slots they should have, and   *)
(* so must the cache that the one call that reads the file will make of it *)
(* (StoreWhole); it takes that no write comes before that read (ReadFirst).*)
(*                                                                         *)
(* The log file is a record without gaps: behind each of its lines every   *)
(* line is in the file, waits, or could not be written (Accounted), and    *)
(* the operations wait in the order of their lines (PendingInOrder).       *)
(***************************************************************************)
EXTENDS Ime, Store, Log, SequenceTheorems, TLAPS

-----------------------------------------------------------------------------
(* The input method. *)

\* Settling a promise keeps the types of all.
LEMMA SettleTypes ==
  ASSUME NEW ans \in [Opens -> {"new", "waiting", "text", "null"}],
         NEW o, NEW v \in {"text", "null"}
  PROVE  Settle(ans, o, v) \in [Opens -> {"new", "waiting", "text", "null"}]
  BY DEF Settle

\* Before the first call there is no session.
LEMMA InitInv == Init => Inv
<1> SUFFICES ASSUME Init PROVE TypeOK /\ Consistent
  BY DEF Inv
<1>1. TypeOK
  BY DEF Init, TypeOK
<1>2. Consistent
  BY DEF Init, Consistent, NoSession
<1> QED
  BY <1>1, <1>2

\* cleanup keeps the types, and closes the only session there is.
LEMMA CleanedInv ==
  ASSUME Inv
  PROVE  /\ Cleaned.answer \in [Opens -> {"new", "waiting", "text", "null"}]
         /\ Cleaned.screen = {}
<1>1. Cleaned.answer \in [Opens -> {"new", "waiting", "text", "null"}]
  BY SettleTypes DEF Cleaned, Inv, TypeOK
<1>2. Cleaned.screen = {}
  BY DEF Cleaned, Inv, Consistent
<1> QED
  BY <1>1, <1>2

\* Without a session the four places agree.
LEMMA IdleConsistent ==
  ASSUME Idle, screen' = {}
  PROVE  /\ resolver' \in Opens \cup {None} /\ subscribed' \in BOOLEAN
         /\ session' \in Attempts \cup {NoSession} /\ screen' \subseteq Attempts
         /\ Consistent'
  BY DEF Idle, Consistent, NoSession

\* Every step keeps the invariant.
THEOREM InvStep == Inv /\ [Next]_vars => Inv'
<1> SUFFICES ASSUME Inv, [Next]_vars PROVE Inv'
  OBVIOUS
<1>1. ASSUME NEW o \in Opens, Open(o) PROVE Inv'
  <2>1. Attempt(o, 1) \in Attempts
    BY DEF Attempt, Attempts
  <2> QED
    BY <1>1, <2>1 DEF Open, Inv, TypeOK, Consistent
<1>2. ASSUME NEW t \in timers, Start(t) PROVE Inv'
  <2>1. t \in Attempts /\ t.open \in Opens /\ t.open # None
    BY OpensAssumption DEF Inv, TypeOK, Attempts
  <2>2. screen' = {t}
    BY <1>2, CleanedInv DEF Start
  <2>3. TypeOK'
    BY <1>2, <2>1, <2>2, CleanedInv DEF Start, Inv, TypeOK
  <2>4. Consistent'
    BY <1>2, <2>1, <2>2 DEF Start, Consistent
  <2> QED
    BY <2>3, <2>4 DEF Inv
<1>3. ASSUME NEW t \in timers, Refused(t) PROVE Inv'
  <2>1. answer' \in [Opens -> {"new", "waiting", "text", "null"}]
    BY <1>3, CleanedInv, SettleTypes DEF Refused
  <2>2. timers' \subseteq Attempts /\ finished' \subseteq Finished
    BY <1>3 DEF Refused, Inv, TypeOK
  <2>3. screen' = {} /\ Idle
    BY <1>3, CleanedInv DEF Refused
  <2> QED
    BY <2>1, <2>2, <2>3, IdleConsistent DEF Inv, TypeOK
<1>4. ASSUME NEW e \in finished, Finish(e) PROVE Inv'
  <2>1. finished' \subseteq Finished /\ timers' \subseteq Attempts
    BY <1>4 DEF Finish, Inv, TypeOK
  <2>2. CASE UNCHANGED <<answer, screen, resolver, subscribed, session>>
    BY <2>1, <2>2 DEF Inv, TypeOK, Consistent
  <2>3. CASE subscribed /\ resolver # None /\ Matches(e)
    <3>1. answer' \in [Opens -> {"new", "waiting", "text", "null"}]
      BY <1>4, <2>3, SettleTypes DEF Finish, Results, Inv, TypeOK
    <3>2. screen' = {} /\ Idle
      BY <1>4, <2>3 DEF Finish, Inv, Consistent
    <3> QED
      BY <2>1, <3>1, <3>2, IdleConsistent DEF Inv, TypeOK
  <2> QED
    BY <1>4, <2>2, <2>3 DEF Finish
<1>5. CASE Cancel
  <2>1. screen' = {} /\ Idle
    BY <1>5, CleanedInv DEF Cancel
  <2> QED
    BY <1>5, <2>1, CleanedInv, IdleConsistent DEF Cancel, Inv, TypeOK
<1>6. ASSUME NEW s \in screen, NEW confirmed \in BOOLEAN, NEW named \in BOOLEAN,
             UserEnds(s, confirmed, named)
      PROVE  Inv'
  BY <1>6 DEF UserEnds, Inv, TypeOK, Consistent
<1>7. CASE UNCHANGED vars
  BY <1>7 DEF vars, Inv, TypeOK, Consistent
<1> QED
  BY <1>1, <1>2, <1>3, <1>4, <1>5, <1>6, <1>7 DEF Next

\* The wrapper always satisfies its invariant.
THEOREM Invariance == Spec => []Inv
  BY InitInv, InvStep, PTL DEF Spec

\* The variables keep their types.
THEOREM TypeCorrect == Spec => []TypeOK
<1>1. Inv => TypeOK
  BY DEF Inv
<1> QED
  BY <1>1, Invariance, PTL

\* No session is left on the screen that the wrapper does not listen to.
THEOREM Tended == Spec => []SessionTended
<1>1. Inv => SessionTended
  BY DEF Inv, Consistent, SessionTended
<1> QED
  BY <1>1, Invariance, PTL

\* Callbacks are taken one at a time.
LEMMA Taken ==
    ASSUME Inv, [Next]_vars, NEW e \in finished \ finished'
    PROVE  Finish(e)
<1>1. e \in finished /\ e \notin finished'
  OBVIOUS
<1>2. ~ UNCHANGED vars /\ ~ (\E o \in Opens : Open(o)) /\ ~ Cancel
  BY <1>1 DEF vars, Open, Cancel
<1>3. ~ (\E t \in timers : Start(t) \/ Refused(t))
  BY <1>1 DEF Start, Refused
<1>4. ~ (\E s \in screen, confirmed, named \in BOOLEAN : UserEnds(s, confirmed, named))
  BY <1>1 DEF UserEnds
<1>5. PICK f \in finished : Finish(f)
  BY <1>2, <1>3, <1>4 DEF Next
<1>6. f = e
  BY <1>1, <1>5 DEF Finish
<1> QED
  BY <1>5, <1>6

\* A callback that names its session ends no other, and gives its text to no other
\* call, however late it comes.
THEOREM OwnText == Spec => TextIsOwn
<1> DEFINE Own(e) ==
             /\ e.named /\ e.of # session => UNCHANGED <<answer, screen, session>>
             /\ \A o \in Opens : e.named /\ answer'[o] = "text" /\ answer[o] # "text" =>
                   e.of.open = o /\ e.confirmed
<1>1. ASSUME Inv, [Next]_vars, NEW e \in finished \ finished' PROVE Own(e)
  <2>1. Finish(e)
    BY <1>1, Taken
  <2>2. CASE UNCHANGED <<answer, screen, resolver, subscribed, session>>
    BY <2>2
  <2>3. CASE Matches(e) /\ \E result \in Results(e) : answer' = Settle(answer, resolver, result)
    <3>1. SUFFICES ASSUME e.named PROVE Own(e)
      OBVIOUS
    <3>2. e.of = session /\ e.of.open = resolver
      BY <1>1, <2>3, <3>1 DEF Matches, Inv, Consistent
    <3>3. SUFFICES ASSUME NEW o \in Opens, answer'[o] = "text", answer[o] # "text"
                   PROVE  e.of.open = o /\ e.confirmed
      BY <3>2
    <3>4. PICK result \in Results(e) : answer' = Settle(answer, resolver, result)
      BY <2>3
    <3>5. o = resolver /\ result = "text"
      BY <3>3, <3>4 DEF Settle
    <3>6. e.confirmed
      BY <3>1, <3>4, <3>5 DEF Results
    <3> QED
      BY <3>2, <3>5, <3>6
  <2> QED
    BY <2>1, <2>2, <2>3 DEF Finish
<1>2. ASSUME Inv, [Next]_vars PROVE [\A e \in finished \ finished' : Own(e)]_vars
  BY <1>1, <1>2
<1>3. Spec => [][\A e \in finished \ finished' : Own(e)]_vars
  BY <1>2, Invariance, PTL DEF Spec
<1> QED
  BY <1>3 DEF TextIsOwn

-----------------------------------------------------------------------------
(* The account store. *)

Slots == [user : Users, password : {<<>>} \cup {<<u>> : u \in Users}, remember : BOOLEAN]

\* A history of what was saved in which WiFi.
IsNames(names) == DOMAIN names \subseteq Wifis /\ \A w \in DOMAIN names : names[w] \in Slots

\* A map has the slots of a history.
Has(db, names) ==
    DOMAIN names \subseteq DOMAIN db.accounts
      /\ \A w \in DOMAIN names : db.accounts[w] = names[w]

\* A sequence, of whatever elements.
Elements(q) == {q[i] : i \in DOMAIN q}
IsSequence(q) == q \in Seq(Elements(q))

Reads(q) == {i \in DOMAIN q : q[i].op = "read"}

StoreTypes ==
    /\ wifi \in Wifis
    /\ IsNames(asked) /\ IsNames(kept)
    /\ IsSequence(queue) /\ IsSequence(replies)
    /\ \A i \in DOMAIN queue : queue[i].op = "write" => IsNames(queue[i].saved)
    /\ opened => queue # <<>> /\ queue[1].op = "write"

\* The file is read before it is first written.
ReadFirst ==
    /\ memory = <<>> => ~opened /\ \A i \in DOMAIN queue : queue[i].op # "write"
    /\ ~dataDir => /\ file = Missing /\ Reads(queue) = {} /\ Reads(replies) = {}
                   /\ \A i \in DOMAIN queue : queue[i].op # "write"

\* With nothing to excuse: the cache, the file and what is to be written have what they
\* should have; so will the cache that is made of the file, by the one call that reads.
StoreWhole ==
    /\ Has(Normalize(file), kept)
    /\ \A i \in DOMAIN queue :
         queue[i].op = "write" => Has(Normalize(queue[i].text), queue[i].saved)
    /\ memory # <<>> => Has(memory[1], asked) /\ Reads(queue) = {} /\ Reads(replies) = {}
    /\ memory = <<>> =>
         /\ Reads(queue) = {} /\ Reads(replies) = {} => Has(Normalize(file), asked)
         /\ Reads(queue) = {} \/ Reads(replies) = {}
         /\ \A i, j \in Reads(queue) : i = j
         /\ \A i, j \in Reads(replies) : i = j
         /\ \A i \in Reads(queue) : Has(After(queue[i].then, Normalize(file)), asked)
         /\ \A i \in Reads(replies) :
              replies[i].text = file /\ Has(After(replies[i].then, Normalize(file)), asked)

StoreInv == StoreTypes /\ ReadFirst /\ (excuses = {} => StoreWhole)

-----------------------------------------------------------------------------
LEMMA SequenceOf == ASSUME NEW S, NEW q \in Seq(S) PROVE IsSequence(q)
<1>1. q \in [1..Len(q) -> S] /\ Len(q) \in Nat /\ DOMAIN q = 1..Len(q)
  OBVIOUS
<1>2. q \in [1..Len(q) -> Elements(q)]
  BY <1>1 DEF Elements
<1>3. Seq(Elements(q)) = UNION {[1..n -> Elements(q)] : n \in Nat}
  BY SeqDef
<1> QED
  BY <1>1, <1>2, <1>3 DEF IsSequence

LEMMA NoElements == IsSequence(<<>>) /\ Reads(<<>>) = {} /\ DOMAIN <<>> = {}
<1>1. <<>> \in Seq({}) /\ DOMAIN <<>> = {}
  OBVIOUS
<1> QED
  BY <1>1, SequenceOf DEF Reads

\* One sequence is another and an element more, or is another without its first.
Longer(q, e, r) ==
    /\ IsSequence(r) /\ r # <<>>
    /\ Len(q) \in Nat /\ DOMAIN q = 1..Len(q) /\ DOMAIN r = 1..(Len(q) + 1)
    /\ \A i \in DOMAIN q : i \in DOMAIN r /\ r[i] = q[i]
    /\ \A i \in DOMAIN r : i \in DOMAIN q \/ (i = Len(q) + 1 /\ i \notin DOMAIN q)
    /\ Len(q) + 1 \in DOMAIN r /\ r[Len(q) + 1] = e
    /\ Len(q) + 1 \notin DOMAIN q

Shorter(q, r) ==
    /\ IsSequence(r) /\ 1 \in DOMAIN q /\ Head(q) = q[1]
    /\ \A i \in DOMAIN r : i + 1 \in DOMAIN q /\ r[i] = q[i + 1] /\ i + 1 # 1
    /\ \A i \in DOMAIN q : i = 1 \/ (i - 1 \in DOMAIN r /\ r[i - 1] = q[i])
    /\ \A i, j \in DOMAIN r : i + 1 = j + 1 => i = j

LEMMA Appended ==
  ASSUME NEW q, IsSequence(q), NEW e
  PROVE  Longer(q, e, Append(q, e))
<1> DEFINE r == Append(q, e)
<1> DEFINE S == Elements(q) \cup {e}
<1>1. q \in Seq(Elements(q)) /\ Elements(q) \subseteq S
  BY DEF IsSequence
<1>2. Len(q) \in Nat /\ DOMAIN q = 1..Len(q) /\ \A i \in DOMAIN q : q[i] \in S
  BY <1>1
<1>3. q \in Seq(S) /\ e \in S
  <2>1. Seq(Elements(q)) \subseteq Seq(S)
    <3>1. /\ Seq(Elements(q)) = UNION {[1..n -> Elements(q)] : n \in Nat}
          /\ Seq(S) = UNION {[1..n -> S] : n \in Nat}
      BY SeqDef
    <3>2. \A n \in Nat : [1..n -> Elements(q)] \subseteq [1..n -> S]
      BY <1>1
    <3> QED
      BY <3>1, <3>2
  <2> QED
    BY <1>1, <2>1
<1> HIDE DEF S
<1>4. /\ r \in Seq(S) /\ Len(r) = Len(q) + 1 /\ r[Len(q) + 1] = e
      /\ \A i \in 1..Len(q) : r[i] = q[i]
  BY <1>3, AppendProperties
<1> HIDE DEF r
<1>5. DOMAIN r = 1..(Len(q) + 1) /\ r # <<>>
  BY <1>2, <1>4
<1>6. IsSequence(r)
  BY <1>4, SequenceOf
<1>7. Longer(q, e, r)
  BY <1>2, <1>4, <1>5, <1>6 DEF Longer
<1> QED
  BY <1>7 DEF r

LEMMA TailOf == ASSUME NEW q, IsSequence(q), q # <<>> PROVE Shorter(q, Tail(q))
<1> DEFINE r == Tail(q)
<1>1. q \in Seq(Elements(q))
  BY DEF IsSequence
<1>2. /\ r \in Seq(Elements(q)) /\ Len(r) = Len(q) - 1 /\ Len(q) \in Nat /\ Len(q) > 0
      /\ \A i \in 1..(Len(q) - 1) : r[i] = q[i + 1]
      /\ Head(q) = q[1] /\ DOMAIN q = 1..Len(q)
  BY <1>1
<1>3. DOMAIN r = 1..(Len(q) - 1)
  BY <1>2
<1>4. IsSequence(r)
  BY <1>2, SequenceOf
<1> HIDE DEF r
<1>5. Shorter(q, r)
  BY <1>2, <1>3, <1>4 DEF Shorter
<1> QED
  BY <1>5 DEF r

-----------------------------------------------------------------------------
\* The slots of a map: what a call makes of it.
LEMMA WithIs ==
  ASSUME NEW map, NEW k, NEW v
  PROVE  /\ DOMAIN With(map, k, v) = DOMAIN map \cup {k} /\ With(map, k, v)[k] = v
         /\ \A m \in DOMAIN map : m # k => With(map, k, v)[m] = map[m]
  BY DEF With

\* A slot may be set again, and any that nobody has asked for.
LEMMA SetAgain ==
  ASSUME NEW db, NEW names, Has(db, names), NEW k, NEW v, NEW s,
         k \in DOMAIN names => v = names[k]
  PROVE  Has([accounts |-> With(db.accounts, k, v), ssid |-> s], names)
<1> DEFINE new == With(db.accounts, k, v)
<1>1. DOMAIN new = DOMAIN db.accounts \cup {k} /\ new[k] = v
      /\ \A m \in DOMAIN db.accounts : m # k => new[m] = db.accounts[m]
  BY DEF With
<1> HIDE DEF new
<1>2. ASSUME NEW w \in DOMAIN names PROVE w \in DOMAIN new /\ new[w] = names[w]
  <2>1. w \in DOMAIN db.accounts /\ db.accounts[w] = names[w]
    BY DEF Has
  <2>2. w = k => new[w] = names[w]
    BY <1>1
  <2> QED
    BY <1>1, <2>1, <2>2
<1>3. Has([accounts |-> new, ssid |-> s], names)
  BY <1>2 DEF Has
<1> QED
  BY <1>3 DEF new

LEMMA SetNew ==
  ASSUME NEW db, NEW names, Has(db, names), NEW k, NEW v, NEW s
  PROVE  Has([accounts |-> With(db.accounts, k, v), ssid |-> s], With(names, k, v))
  BY WithIs DEF Has, With

\* loadAccount answers what a map has.
LEMMA HasHolds ==
  ASSUME NEW db, NEW names, Has(db, names), IsNames(names)
  PROVE  Holds(db, names)
  BY StoreAssumption DEF Has, IsNames, Holds, LoadAccount

\* What is written is what is read.
LEMMA DecodeEncode == ASSUME NEW s \in Slots PROVE DecodeSlot(EncodeSlot(s)) = s
<1>1. s.user \in Users /\ s.remember \in BOOLEAN /\ s.password \in {<<>>} \cup {<<u>> : u \in Users}
      /\ s = [user |-> s.user, password |-> s.password, remember |-> s.remember]
  BY DEF Slots
<1> DEFINE p == IF s.password = <<>> THEN <<>> ELSE <<"aes", s.password[1]>>
<1>2. EncodeSlot(s) = [user |-> s.user, password |-> p, remember |-> s.remember]
  BY <1>1 DEF EncodeSlot
<1>3. (IF p # <<>> /\ p[1] = "aes" THEN Tail(p) ELSE <<>>) = s.password
  <2>1. CASE s.password = <<>>
    BY <2>1
  <2>2. ASSUME NEW u \in Users, s.password = <<u>>
        PROVE  (IF p # <<>> /\ p[1] = "aes" THEN Tail(p) ELSE <<>>) = s.password
    <3>1. p = <<"aes", u>> /\ s.password = <<u>>
      <4>1. <<u>> # <<>> /\ <<u>>[1] = u
        OBVIOUS
      <4> QED
        BY <2>2, <4>1
    <3>2. <<"aes", u>> # <<>> /\ <<"aes", u>>[1] = "aes" /\ Tail(<<"aes", u>>) = <<u>>
      OBVIOUS
    <3> HIDE DEF p
    <3> QED
      BY <3>1, <3>2
  <2> QED
    BY <1>1, <2>1, <2>2
<1> HIDE DEF p
<1> QED
  BY <1>1, <1>2, <1>3 DEF DecodeSlot

LEMMA ReadsWhatIsWritten ==
  ASSUME NEW db, NEW names, Has(db, names), IsNames(names)
  PROVE  Has(Normalize(Serialized(db)), names)
<1> DEFINE t == Serialized(db)
<1>1. t.version = "2" /\ t.ssid = db.ssid
      /\ t.accounts = [k \in DOMAIN db.accounts |-> EncodeSlot(db.accounts[k])]
  BY DEF Serialized, Text
<1> HIDE DEF t
<1>2. Normalize(t).accounts = [k \in DOMAIN t.accounts |-> DecodeSlot(t.accounts[k])]
  BY <1>1 DEF Normalize
<1>3. DOMAIN Normalize(t).accounts = DOMAIN db.accounts
  BY <1>1, <1>2
<1>4. ASSUME NEW w \in DOMAIN names PROVE Normalize(t).accounts[w] = names[w]
  <2>1. w \in DOMAIN db.accounts /\ db.accounts[w] = names[w] /\ names[w] \in Slots
    BY DEF Has, IsNames
  <2>2. Normalize(t).accounts[w] = DecodeSlot(EncodeSlot(db.accounts[w]))
    BY <1>1, <1>2, <2>1
  <2> QED
    BY <2>1, <2>2, DecodeEncode
<1> QED
  BY <1>3, <1>4 DEF Has, t

\* The calls of the store.
LEMMA ServerKeeps ==
  ASSUME NEW db, NEW names, Has(db, names), IsNames(names), NEW s
  PROVE  Has(SaveAccount(db, s, LoadAccount(db, s)), names)
<1> DEFINE key == IF s = "" THEN db.ssid ELSE s
           v == LoadAccount(db, s)
<1>1. ASSUME key \in DOMAIN names PROVE v = names[key]
  <2>1. key # "" /\ key \in DOMAIN db.accounts /\ db.accounts[key] = names[key]
    BY <1>1, StoreAssumption DEF Has, IsNames
  <2>2. v = db.accounts[key]
    BY <2>1 DEF LoadAccount
  <2> QED
    BY <2>1, <2>2
<1> HIDE DEF v
<1>2. SaveAccount(db, s, v) = [accounts |-> With(db.accounts, key, v), ssid |-> key]
  BY DEF SaveAccount
<1> HIDE DEF key
<1>3. Has([accounts |-> With(db.accounts, key, v), ssid |-> key], names)
  BY <1>1, SetAgain
<1> QED
  BY <1>2, <1>3 DEF v

LEMMA SaveKeeps ==
  ASSUME NEW db, NEW names, Has(db, names), NEW w \in Wifis, NEW a
  PROVE  Has(SaveAccount(db, w, a), With(names, w, a))
<1>1. SaveAccount(db, w, a) = [accounts |-> With(db.accounts, w, a), ssid |-> w]
  BY StoreAssumption DEF SaveAccount
<1> QED
  BY <1>1, SetNew

LEMMA ForgetKeeps ==
  ASSUME NEW db, NEW names, Has(db, names), NEW w \in Wifis
  PROVE  Has(ForgetPassword(db, w),
             [x \in DOMAIN names |-> IF x = w THEN WithoutPassword(names[x]) ELSE names[x]])
<1> DEFINE names2 == [x \in DOMAIN names |-> IF x = w THEN WithoutPassword(names[x]) ELSE names[x]]
           new == With(db.accounts, w, WithoutPassword(db.accounts[w]))
<1>1. CASE w \notin DOMAIN db.accounts
  <2>1. ForgetPassword(db, w) = db /\ w \notin DOMAIN names
    BY <1>1, StoreAssumption DEF ForgetPassword, Has
  <2>2. DOMAIN names2 = DOMAIN names /\ \A x \in DOMAIN names : names2[x] = names[x]
    BY <2>1
  <2> HIDE DEF names2
  <2>3. Has(db, names2)
    BY <2>2 DEF Has
  <2> QED
    BY <2>1, <2>3 DEF names2
<1>2. CASE w \in DOMAIN db.accounts
  <2>1. ForgetPassword(db, w) = [accounts |-> new, ssid |-> db.ssid]
    BY <1>2, StoreAssumption DEF ForgetPassword
  <2>2. DOMAIN new = DOMAIN db.accounts \cup {w} /\ new[w] = WithoutPassword(db.accounts[w])
        /\ \A m \in DOMAIN db.accounts : m # w => new[m] = db.accounts[m]
    BY DEF With
  <2>3. ASSUME NEW x \in DOMAIN names PROVE x \in DOMAIN new /\ new[x] = names2[x]
    <3>1. x \in DOMAIN db.accounts /\ db.accounts[x] = names[x]
      BY DEF Has
    <3>2. names2[x] = IF x = w THEN WithoutPassword(names[x]) ELSE names[x]
      OBVIOUS
    <3> HIDE DEF names2, new
    <3>3. CASE x = w
      BY <2>2, <3>1, <3>2, <3>3
    <3>4. CASE x # w
      BY <2>2, <3>1, <3>2, <3>4
    <3> QED
      BY <3>3, <3>4
  <2>4. DOMAIN names2 = DOMAIN names
    OBVIOUS
  <2> HIDE DEF names2, new
  <2>5. Has([accounts |-> new, ssid |-> db.ssid], names2)
    BY <2>3, <2>4 DEF Has
  <2> QED
    BY <2>1, <2>5 DEF names2
<1> QED
  BY <1>1, <1>2

LEMMA ClearKeeps ==
  ASSUME NEW db, NEW names, Has(db, names), IsNames(names), NEW w \in Wifis
  PROVE  Has(ClearAccount(db, w), Only(names, Wifis \ {w}))
<1> DEFINE new == Only(db.accounts, DOMAIN db.accounts \ {w})
           names2 == Only(names, Wifis \ {w})
<1>1. ClearAccount(db, w) = [accounts |-> new, ssid |-> db.ssid]
  BY StoreAssumption DEF ClearAccount
<1>2. ASSUME NEW x \in DOMAIN names2 PROVE x \in DOMAIN new /\ new[x] = names2[x]
  <2>1. x \in DOMAIN names /\ x # w /\ names2[x] = names[x]
    BY DEF Only
  <2>2. x \in DOMAIN db.accounts /\ db.accounts[x] = names[x]
    BY <2>1 DEF Has
  <2>3. x \in DOMAIN new /\ new[x] = db.accounts[x]
    BY <2>1, <2>2 DEF Only
  <2> QED
    BY <2>1, <2>2, <2>3
<1> HIDE DEF new, names2
<1>3. Has([accounts |-> new, ssid |-> db.ssid], names2)
  BY <1>2 DEF Has
<1> QED
  BY <1>1, <1>3 DEF names2

Calls == {"load", "save", "server", "forget", "clear"}

\* What the user asks for is what a call makes of any map that had what was asked for.
LEMMA CallKeeps ==
  ASSUME StoreTypes, NEW kind \in Calls, NEW a, NEW k, k = Call(kind, page.ssid, a),
         KnowsWifi \/ kind \in {"load", "server"}, NEW db, Has(db, asked)
  PROVE  Has(After(k, db), Expected(k))
<1>1. k.kind = kind /\ k.ssid = page.ssid /\ k.account = a /\ IsNames(asked) /\ wifi \in Wifis
  BY DEF Call, StoreTypes
<1>2. CASE kind = "load"
  BY <1>1, <1>2 DEF After, Expected
<1>3. CASE kind = "server"
  <2>1. After(k, db) = SaveAccount(db, k.ssid, LoadAccount(db, k.ssid)) /\ Expected(k) = asked
    BY <1>1, <1>3 DEF After, Expected
  <2> QED
    BY <1>1, <2>1, ServerKeeps
<1>4. CASE kind = "save"
  <2>1. After(k, db) = SaveAccount(db, wifi, a) /\ Expected(k) = With(asked, wifi, a)
    BY <1>1, <1>4 DEF After, Expected, KnowsWifi
  <2> QED
    BY <1>1, <2>1, SaveKeeps
<1>5. CASE kind = "forget"
  <2>1. /\ After(k, db) = ForgetPassword(db, wifi)
        /\ Expected(k) =
             [w \in DOMAIN asked |-> IF w = wifi THEN WithoutPassword(asked[w]) ELSE asked[w]]
    BY <1>1, <1>5 DEF After, Expected, KnowsWifi
  <2> QED
    BY <1>1, <2>1, ForgetKeeps
<1>6. CASE kind = "clear"
  <2>1. After(k, db) = ClearAccount(db, wifi) /\ Expected(k) = Only(asked, Wifis \ {wifi})
    BY <1>1, <1>6 DEF After, Expected, KnowsWifi
  <2> QED
    BY <1>1, <2>1, ClearKeeps
<1> QED
  BY <1>2, <1>3, <1>4, <1>5, <1>6 DEF Calls

LEMMA WithoutPasswordSlot == ASSUME NEW s \in Slots PROVE WithoutPassword(s) \in Slots
  BY DEF WithoutPassword, Slots

LEMMA ExpectedNames ==
  ASSUME StoreTypes, NEW kind \in Calls, NEW a, kind = "save" => a \in Slots,
         NEW k, k = Call(kind, page.ssid, a)
  PROVE  IsNames(Expected(k))
<1>1. k.kind = kind /\ k.account = a /\ IsNames(asked) /\ wifi \in Wifis
  BY DEF Call, StoreTypes
<1>2. CASE ~KnowsWifi \/ kind \in {"load", "server"}
  BY <1>1, <1>2 DEF Expected
<1>3. CASE KnowsWifi /\ kind = "save"
  <2>1. Expected(k) = With(asked, wifi, a)
    BY <1>1, <1>3 DEF Expected
  <2> QED
    BY <1>1, <1>3, <2>1 DEF IsNames, With
<1>4. CASE KnowsWifi /\ kind = "forget"
  <2>1. Expected(k) =
          [w \in DOMAIN asked |-> IF w = wifi THEN WithoutPassword(asked[w]) ELSE asked[w]]
    BY <1>1, <1>4 DEF Expected
  <2> QED
    BY <1>1, <2>1, WithoutPasswordSlot DEF IsNames
<1>5. CASE KnowsWifi /\ kind = "clear"
  <2>1. Expected(k) = Only(asked, Wifis \ {wifi})
    BY <1>1, <1>5 DEF Expected
  <2> QED
    BY <1>1, <2>1 DEF IsNames, Only
<1> QED
  BY <1>2, <1>3, <1>4, <1>5 DEF Calls

\* What stays while the script works on the cache.
DiskStays == UNCHANGED <<wifi, dataDir, file, opened, kept>>

\* The queue with a read or a write more.
LEMMA QueueLonger ==
  ASSUME StoreTypes, NEW e, queue' = Append(queue, e)
  PROVE  /\ IsSequence(queue')
         /\ \A i \in DOMAIN queue' : (i \in DOMAIN queue /\ queue'[i] = queue[i]) \/ queue'[i] = e
         /\ opened => queue' # <<>> /\ queue'[1].op = "write"
         /\ e.op # "read" /\ Reads(queue) = {} => Reads(queue') = {}
         /\ e.op = "read" /\ Reads(queue) = {} =>
              /\ Reads(queue') # {} /\ \A i, j \in Reads(queue') : i = j
              /\ \A i \in Reads(queue') : queue'[i] = e
<1>1. Longer(queue, e, queue')
  BY Appended DEF StoreTypes
<1>2. opened => queue' # <<>> /\ queue'[1].op = "write"
  <2>1. ASSUME opened PROVE queue'[1].op = "write"
    <3>1. queue # <<>> /\ queue[1].op = "write" /\ IsSequence(queue)
      BY <2>1 DEF StoreTypes
    <3>2. 1 \in DOMAIN queue
      BY <3>1, TailOf DEF Shorter
    <3> QED
      BY <1>1, <3>1, <3>2 DEF Longer
  <2> QED
    BY <1>1, <2>1 DEF Longer
<1>3. e.op # "read" /\ Reads(queue) = {} => Reads(queue') = {}
  BY <1>1 DEF Longer, Reads
<1>4. ASSUME e.op = "read", Reads(queue) = {}
      PROVE  Reads(queue') = {Len(queue) + 1}
  BY <1>1, <1>4 DEF Longer, Reads
<1>5. e.op = "read" /\ Reads(queue) = {} =>
        /\ Reads(queue') # {} /\ \A i, j \in Reads(queue') : i = j
        /\ \A i \in Reads(queue') : queue'[i] = e
  BY <1>1, <1>4 DEF Longer
<1> QED
  BY <1>1, <1>2, <1>3, <1>5 DEF Longer

LEMMA Continued ==
  ASSUME StoreTypes, ReadFirst, NEW k, NEW db, Continue(k, db, asked'), DiskStays,
         IsNames(asked'), IsSequence(replies'), ~dataDir => Reads(replies') = {},
         excuses' = {} =>
           /\ Has(Normalize(file), kept)
           /\ \A i \in DOMAIN queue :
                queue[i].op = "write" => Has(Normalize(queue[i].text), queue[i].saved)
           /\ Has(After(k, db), asked') /\ Reads(queue) = {} /\ Reads(replies') = {}
  PROVE  StoreInv'
<1> DEFINE db2 == After(k, db)
           e == [op |-> "write", then |-> k, saved |-> asked', text |-> Serialized(db2)]
<1>1. /\ memory' = <<db2>> /\ memory' # <<>> /\ memory'[1] = db2
      /\ queue' = queue \/ (dataDir /\ queue' = Append(queue, e))
  <2>1. memory' = <<db2>>
    BY DEF Continue
  <2>2. memory'[1] = db2 /\ memory' # <<>>
    BY <2>1
  <2> QED
    BY <2>1, <2>2 DEF Continue
<1>2. e.op = "write" /\ e.saved = asked' /\ e.text = Serialized(db2)
  OBVIOUS
<1> HIDE DEF e, db2
<1>3. DiskStays /\ wifi' = wifi /\ dataDir' = dataDir /\ file' = file /\ opened' = opened /\ kept' = kept
  BY DEF DiskStays
<1>4. /\ IsSequence(queue')
      /\ \A i \in DOMAIN queue' :
           (i \in DOMAIN queue /\ queue'[i] = queue[i]) \/ (dataDir /\ queue'[i] = e)
      /\ opened => queue' # <<>> /\ queue'[1].op = "write"
      /\ Reads(queue) = {} => Reads(queue') = {}
  <2>1. CASE queue' = queue
    BY <2>1 DEF StoreTypes
  <2>2. CASE dataDir /\ queue' = Append(queue, e)
    BY <1>2, <2>2, QueueLonger
  <2> QED
    BY <1>1, <2>1, <2>2
<1>5. StoreTypes'
  BY <1>2, <1>3, <1>4 DEF StoreTypes
<1>6. ReadFirst'
  <2>1. ~dataDir => queue' = queue
    BY <1>1
  <2> QED
    BY <1>1, <1>3, <1>4, <2>1 DEF ReadFirst
<1>7. ASSUME excuses' = {} PROVE StoreWhole'
  <2>1. Has(Normalize(Serialized(db2)), asked')
    BY <1>7, ReadsWhatIsWritten DEF db2
  <2>2. Has(Normalize(file'), kept')
    BY <1>3, <1>7
  <2>3. \A i \in DOMAIN queue' :
          queue'[i].op = "write" => Has(Normalize(queue'[i].text), queue'[i].saved)
    BY <1>2, <1>4, <1>7, <2>1
  <2>4. Has(memory'[1], asked') /\ Reads(queue') = {} /\ Reads(replies') = {}
    BY <1>1, <1>4, <1>7 DEF db2
  <2> QED
    BY <1>1, <2>2, <2>3, <2>4 DEF StoreWhole
<1> QED
  BY <1>5, <1>6, <1>7 DEF StoreInv

\* A call of the store, when what it makes of a map that had what was asked for is what
\* is asked for.
LEMMA Begun ==
  ASSUME StoreInv, NEW k, NEW excused, excuses \subseteq excused, Begin(k, asked', excused),
         DiskStays, IsNames(asked'), IsSequence(replies'), Reads(replies) = {} => Reads(replies') = {},
         excuses' = {} => \A db : Has(db, asked) => Has(After(k, db), asked')
  PROVE  StoreInv'
<1>1. StoreTypes /\ ReadFirst /\ (excuses = {} => StoreWhole)
  BY DEF StoreInv
<1>2. excuses' = {} => excuses = {}
  BY DEF Begin
<1>3. ~dataDir => Reads(replies') = {}
  BY <1>1 DEF ReadFirst
<1>4. CASE memory # <<>>
  <2>1. Continue(k, memory[1], asked')
    BY <1>4 DEF Begin
  <2>2. excuses' = {} =>
           /\ Has(Normalize(file), kept)
           /\ \A i \in DOMAIN queue :
                queue[i].op = "write" => Has(Normalize(queue[i].text), queue[i].saved)
           /\ Has(After(k, memory[1]), asked') /\ Reads(queue) = {} /\ Reads(replies') = {}
    BY <1>1, <1>2, <1>4 DEF StoreWhole
  <2> QED
    BY <1>1, <1>3, <2>1, <2>2, Continued
<1>5. CASE memory = <<>> /\ ~dataDir
  <2>1. Continue(k, Defaults, asked')
    BY <1>5 DEF Begin
  <2>2. Reads(queue) = {} /\ Reads(replies) = {} /\ Normalize(file) = Defaults
    <3>1. Reads(queue) = {} /\ Reads(replies) = {} /\ file = Missing
      BY <1>1, <1>5 DEF ReadFirst
    <3>2. Missing.version = "missing"
      BY DEF Missing, Text
    <3>3. Normalize(Missing) = Defaults
      BY <3>2 DEF Normalize
    <3> QED
      BY <3>1, <3>3
  <2>3. excuses' = {} =>
           /\ Has(Normalize(file), kept)
           /\ \A i \in DOMAIN queue :
                queue[i].op = "write" => Has(Normalize(queue[i].text), queue[i].saved)
           /\ Has(After(k, Defaults), asked') /\ Reads(queue) = {} /\ Reads(replies') = {}
    BY <1>1, <1>2, <1>5, <2>2 DEF StoreWhole
  <2> QED
    BY <1>1, <1>3, <2>1, <2>3, Continued
<1>6. CASE memory = <<>> /\ dataDir
  <2> DEFINE e == [op |-> "read", then |-> k, saved |-> <<>>, text |-> Missing]
  <2>1. /\ queue' = Append(queue, e) /\ memory' = memory
        /\ excuses' = IF Reading \/ Read THEN excused \cup {"overlap"} ELSE excused
    BY <1>6 DEF Begin
  <2>2. e.op = "read" /\ e.then = k
    OBVIOUS
  <2> HIDE DEF e
  <2>3. wifi' = wifi /\ dataDir' = dataDir /\ file' = file /\ opened' = opened /\ kept' = kept
    BY DEF DiskStays
  <2>4. /\ IsSequence(queue')
        /\ \A i \in DOMAIN queue' : (i \in DOMAIN queue /\ queue'[i] = queue[i]) \/ queue'[i] = e
        /\ opened => queue' # <<>> /\ queue'[1].op = "write"
        /\ Reads(queue) = {} =>
              /\ Reads(queue') # {} /\ \A i, j \in Reads(queue') : i = j
              /\ \A i \in Reads(queue') : queue'[i] = e
    BY <1>1, <2>1, <2>2, QueueLonger
  <2>5. StoreTypes'
    BY <1>1, <2>2, <2>3, <2>4 DEF StoreTypes
  <2>6. ReadFirst'
    BY <1>1, <1>6, <2>1, <2>2, <2>3, <2>4 DEF ReadFirst
  <2>7. ASSUME excuses' = {} PROVE StoreWhole'
    <3>1. ~Reading /\ ~Read
      BY <2>1, <2>7
    <3>2. Reads(queue) = {} /\ Reads(replies) = {}
      BY <3>1 DEF Reading, Read, Reads
    <3>3. StoreWhole
      BY <1>1, <1>2, <2>7
    <3>4. Has(Normalize(file), asked)
      BY <1>6, <3>2, <3>3 DEF StoreWhole
    <3>5. Has(After(k, Normalize(file)), asked')
      BY <2>7, <3>4
    <3>6. \A i \in DOMAIN queue' :
            queue'[i].op = "write" => Has(Normalize(queue'[i].text), queue'[i].saved)
      BY <2>2, <2>4, <3>3 DEF StoreWhole
    <3>7. Reads(replies') = {}
      BY <3>2
    <3>8. \A i \in Reads(queue') : Has(After(queue'[i].then, Normalize(file')), asked')
      BY <2>2, <2>3, <2>4, <3>2, <3>5
    <3> QED
      BY <1>6, <2>1, <2>3, <2>4, <3>2, <3>3, <3>6, <3>7, <3>8 DEF StoreWhole
  <2> QED
    BY <2>5, <2>6, <2>7 DEF StoreInv
<1> QED
  BY <1>4, <1>5, <1>6

-----------------------------------------------------------------------------
LEMMA StoreInitInv == StoreInit => StoreInv
<1> SUFFICES ASSUME StoreInit PROVE StoreInv
  OBVIOUS
<1>1. /\ memory = <<>> /\ queue = <<>> /\ replies = <<>> /\ asked = <<>> /\ kept = <<>>
      /\ opened = FALSE /\ wifi \in Wifis /\ (~dataDir => file = Missing)
  BY DEF StoreInit
<1>2. /\ IsSequence(queue) /\ IsSequence(replies) /\ Reads(queue) = {} /\ Reads(replies) = {}
      /\ DOMAIN queue = {} /\ DOMAIN asked = {} /\ DOMAIN kept = {}
  BY <1>1, NoElements
<1>3. \A db : Has(db, asked) /\ Has(db, kept)
  BY <1>2 DEF Has
<1>4. IsNames(asked) /\ IsNames(kept)
  BY <1>2 DEF IsNames
<1>5. StoreTypes
  BY <1>1, <1>2, <1>4 DEF StoreTypes
<1>6. ReadFirst
  BY <1>1, <1>2 DEF ReadFirst
<1>7. StoreWhole
  BY <1>1, <1>2, <1>3 DEF StoreWhole
<1> QED
  BY <1>5, <1>6, <1>7 DEF StoreInv

\* The parts of the store that the invariant is about.
Parts == <<dataDir, file, opened, kept, memory, queue, replies, asked, excuses>>

LEMMA PartsStay == ASSUME StoreInv, UNCHANGED Parts, wifi' \in Wifis PROVE StoreInv'
<1>1. /\ dataDir' = dataDir /\ file' = file /\ opened' = opened /\ kept' = kept
      /\ memory' = memory /\ queue' = queue /\ replies' = replies /\ asked' = asked
      /\ excuses' = excuses
  BY DEF Parts
<1>2. StoreTypes'
  BY <1>1 DEF StoreInv, StoreTypes
<1>3. ReadFirst'
  BY <1>1 DEF StoreInv, ReadFirst
<1>4. excuses' = {} => StoreWhole'
  BY <1>1 DEF StoreInv, StoreWhole
<1> QED
  BY <1>2, <1>3, <1>4 DEF StoreInv

LEMMA StartInv == ASSUME StoreInv, NEW external \in BOOLEAN, StartPage(external) PROVE StoreInv'
<1> DEFINE e == [op |-> "ssid", then |-> Call("load", "", EmptySlot), saved |-> <<>>, text |-> Missing]
<1>1. /\ wifi' = wifi /\ dataDir' = dataDir /\ file' = file /\ opened' = opened /\ kept' = kept
      /\ memory' = memory /\ replies' = replies /\ asked' = asked /\ excuses' = excuses
      /\ queue' = queue \/ queue' = Append(queue, e)
  BY DEF StartPage, disk
<1>2. StoreTypes /\ ReadFirst /\ (excuses = {} => StoreWhole)
  BY DEF StoreInv
<1>3. CASE queue' = queue
  BY <1>1, <1>2, <1>3, PartsStay DEF Parts, StoreTypes
<1>4. CASE queue' = Append(queue, e)
  <2>1. e.op = "ssid"
    OBVIOUS
  <2> HIDE DEF e
  <2>2. /\ IsSequence(queue')
        /\ \A i \in DOMAIN queue' : (i \in DOMAIN queue /\ queue'[i] = queue[i]) \/ queue'[i] = e
        /\ opened => queue' # <<>> /\ queue'[1].op = "write"
        /\ Reads(queue) = {} => Reads(queue') = {}
    BY <1>2, <1>4, <2>1, QueueLonger
  <2>3. \A i \in DOMAIN queue' : queue'[i].op \in {"read", "write"} => i \in DOMAIN queue /\ queue'[i] = queue[i]
    BY <2>1, <2>2
  <2>4. \A i \in Reads(queue') : i \in Reads(queue) /\ queue'[i] = queue[i]
    BY <2>3 DEF Reads
  <2>5. StoreTypes'
    BY <1>1, <1>2, <2>2, <2>3 DEF StoreTypes
  <2>6. ReadFirst'
    BY <1>1, <1>2, <2>2, <2>3 DEF ReadFirst
  <2>7. ASSUME excuses' = {} PROVE StoreWhole'
    <3>1. StoreWhole
      BY <1>1, <1>2, <2>7
    <3>2. \A i \in DOMAIN queue' :
            queue'[i].op = "write" => Has(Normalize(queue'[i].text), queue'[i].saved)
      BY <2>3, <3>1 DEF StoreWhole
    <3>3. Reads(queue) # {} => Reads(replies) = {} \/ memory # <<>>
      BY <3>1 DEF StoreWhole
    <3>4. memory' = <<>> /\ Reads(queue') = {} /\ Reads(replies') = {} => Has(Normalize(file'), asked')
      <4>1. \A i \in Reads(queue) : Reads(queue') # {}
        <5>1. \A i \in DOMAIN queue : i \in DOMAIN queue' /\ queue'[i] = queue[i]
          <6>1. IsSequence(queue)
            BY <1>2 DEF StoreTypes
          <6>2. Longer(queue, e, queue')
            BY <1>4, <6>1, Appended
          <6> QED
            BY <6>2 DEF Longer
        <5> QED
          BY <5>1 DEF Reads
      <4> QED
        BY <1>1, <3>1, <4>1 DEF StoreWhole
    <3> QED
      BY <1>1, <2>2, <2>4, <3>1, <3>2, <3>4 DEF StoreWhole
  <2> QED
    BY <2>5, <2>6, <2>7 DEF StoreInv
<1> QED
  BY <1>1, <1>3, <1>4

LEMMA UseInv ==
  ASSUME StoreInv, NEW kind \in Calls, NEW a, kind = "save" => a \in Slots,
         NEW k, k = Call(kind, page.ssid, a), Use(k)
  PROVE  StoreInv'
<1> DEFINE excused == IF KnowsWifi \/ k.kind \in {"load", "server"} THEN excuses
                      ELSE excuses \cup {"unnamed"}
<1>1. k.kind = kind
  BY DEF Call
<1>2. /\ asked' = Expected(k) /\ Begin(k, asked', excused)
      /\ wifi' = wifi /\ dataDir' = dataDir /\ file' = file /\ opened' = opened /\ kept' = kept
      /\ replies' = replies
  BY DEF Use, disk
<1>3. StoreTypes
  BY DEF StoreInv
<1>4. IsNames(asked') /\ IsSequence(replies')
  <2>1. IsNames(Expected(k))
    BY <1>3, ExpectedNames
  <2> QED
    BY <1>2, <1>3, <2>1 DEF StoreTypes
<1>5. DiskStays
  BY <1>2 DEF DiskStays
<1>6. excuses \subseteq excused
  OBVIOUS
<1>7. ASSUME excuses' = {} PROVE KnowsWifi \/ kind \in {"load", "server"}
  <2>1. excused = {}
    <3> HIDE DEF excused
    <3> QED
      BY <1>2, <1>7 DEF Begin, Continue
  <2> QED
    BY <1>1, <2>1
<1>8. excuses' = {} => \A db : Has(db, asked) => Has(After(k, db), asked')
  BY <1>2, <1>3, <1>7, CallKeeps
<1> HIDE DEF excused
<1> QED
  BY <1>2, <1>4, <1>5, <1>6, <1>8, Begun

LEMMA LoginInv ==
  ASSUME StoreInv, NEW u \in Users, NEW remember \in BOOLEAN, Login(u, remember) PROVE StoreInv'
<1> DEFINE s == [user |-> u, password |-> <<u>>, remember |-> TRUE]
           a == IF remember THEN s ELSE WithoutPassword(s)
<1>1. s \in Slots
  BY DEF Slots
<1>2. a \in Slots
  BY <1>1, WithoutPasswordSlot
<1>3. Use(Call("save", page.ssid, a))
  BY DEF Login
<1> HIDE DEF a
<1>4. "save" \in Calls
  BY DEF Calls
<1> QED
  BY <1>2, <1>3, <1>4, UseInv

LEMMA OtherInv ==
  ASSUME StoreInv, NEW kind \in {"server", "forget", "clear"}, Other(kind) PROVE StoreInv'
<1>1. Use(Call(kind, page.ssid, EmptySlot)) /\ kind \in Calls /\ kind # "save"
  BY DEF Other, Calls
<1> QED
  BY <1>1, UseInv

\* The native thread takes an operation off the queue.
LEMMA ReadInv == ASSUME StoreInv, ReadFile PROVE StoreInv'
<1> DEFINE e == [op |-> Head(queue).op, then |-> Head(queue).then, text |-> file, name |-> ""]
<1>1. /\ wifi' = wifi /\ dataDir' = dataDir /\ file' = file /\ opened' = opened /\ kept' = kept
      /\ memory' = memory /\ asked' = asked /\ excuses' = excuses
      /\ queue # <<>> /\ Head(queue).op = "read" /\ queue' = Tail(queue)
      /\ replies' = Append(replies, e)
  BY DEF ReadFile, StoreServes, Respond, disk
<1>2. e.op = Head(queue).op /\ e.then = Head(queue).then /\ e.text = file
  OBVIOUS
<1> HIDE DEF e
<1>3. StoreTypes /\ ReadFirst /\ (excuses = {} => StoreWhole)
  BY DEF StoreInv
<1>4. IsSequence(queue) /\ IsSequence(replies)
  BY <1>3 DEF StoreTypes
<1>5. Shorter(queue, queue')
  BY <1>1, <1>4, TailOf
<1>6. Longer(replies, e, replies')
  BY <1>1, <1>4, Appended
<1>7. 1 \in Reads(queue)
  BY <1>1, <1>5 DEF Reads, Shorter
<1>8. ~opened
  BY <1>1, <1>3, <1>5 DEF StoreTypes, Shorter
<1>9. StoreTypes'
  BY <1>1, <1>3, <1>5, <1>6, <1>8 DEF StoreTypes, Shorter, Longer
<1>10. ReadFirst'
  BY <1>1, <1>3, <1>5, <1>7, <1>8 DEF ReadFirst, Shorter
<1>11. ASSUME excuses' = {} PROVE StoreWhole'
  <2>1. StoreWhole
    BY <1>1, <1>3, <1>11
  <2>2. memory = <<>> /\ Reads(replies) = {} /\ (\A i, j \in Reads(queue) : i = j)
        /\ Has(After(queue[1].then, Normalize(file)), asked)
    BY <1>7, <2>1 DEF StoreWhole
  <2>3. Reads(queue') = {}
    <3>1. \A i \in Reads(queue') : i + 1 \in Reads(queue) /\ i + 1 # 1
      BY <1>5 DEF Reads, Shorter
    <3> QED
      BY <1>7, <2>2, <3>1
  <2>4. \A i \in Reads(replies') : i = Len(replies) + 1
    <3>1. \A i \in Reads(replies') : i \in DOMAIN replies => i \in Reads(replies)
      BY <1>6 DEF Reads, Longer
    <3>2. \A i \in Reads(replies') : i \in DOMAIN replies'
      BY DEF Reads
    <3> QED
      BY <1>6, <2>2, <3>1, <3>2 DEF Longer
  <2>5. Len(replies) + 1 \in Reads(replies')
    BY <1>1, <1>2, <1>6 DEF Reads, Longer
  <2>6. \A i \in Reads(replies') :
          replies'[i].text = file' /\ Has(After(replies'[i].then, Normalize(file')), asked')
    BY <1>1, <1>2, <1>5, <1>6, <2>2, <2>4 DEF Shorter, Longer
  <2>7. \A i \in DOMAIN queue' :
          queue'[i].op = "write" => Has(Normalize(queue'[i].text), queue'[i].saved)
    BY <1>5, <2>1 DEF StoreWhole, Shorter
  <2>8. (\A i, j \in Reads(replies') : i = j) /\ Reads(replies') # {}
    BY <2>4, <2>5
  <2> QED
    BY <1>1, <2>1, <2>2, <2>3, <2>6, <2>7, <2>8 DEF StoreWhole
<1> QED
  BY <1>9, <1>10, <1>11 DEF StoreInv

LEMMA AskInv == ASSUME StoreInv, AskSsid PROVE StoreInv'
<1> PICK name : Respond(Missing, name)
  BY DEF AskSsid
<1> DEFINE e == [op |-> Head(queue).op, then |-> Head(queue).then, text |-> Missing, name |-> name]
<1>1. /\ wifi' = wifi /\ dataDir' = dataDir /\ file' = file /\ opened' = opened /\ kept' = kept
      /\ memory' = memory /\ asked' = asked /\ excuses' = excuses
      /\ queue # <<>> /\ Head(queue).op = "ssid" /\ queue' = Tail(queue)
      /\ replies' = Append(replies, e)
  BY DEF AskSsid, StoreServes, Respond, disk
<1>2. e.op = Head(queue).op
  OBVIOUS
<1> HIDE DEF e
<1>3. StoreTypes /\ ReadFirst /\ (excuses = {} => StoreWhole)
  BY DEF StoreInv
<1>4. IsSequence(queue) /\ IsSequence(replies)
  BY <1>3 DEF StoreTypes
<1>5. Shorter(queue, queue')
  BY <1>1, <1>4, TailOf
<1>6. Longer(replies, e, replies')
  BY <1>1, <1>4, Appended
<1>7. ~opened
  BY <1>1, <1>3, <1>5 DEF StoreTypes, Shorter
<1>8. StoreTypes'
  BY <1>1, <1>3, <1>5, <1>6, <1>7 DEF StoreTypes, Shorter, Longer
<1>9. /\ \A i \in Reads(queue) : i - 1 \in Reads(queue')
      /\ \A i \in Reads(queue') : i + 1 \in Reads(queue) /\ queue'[i] = queue[i + 1]
  BY <1>1, <1>5 DEF Shorter, Reads
<1>10. /\ Reads(replies') = Reads(replies)
       /\ \A i \in Reads(replies) : replies'[i] = replies[i]
  BY <1>1, <1>2, <1>6 DEF Longer, Reads
<1>11. ReadFirst'
  BY <1>1, <1>3, <1>5, <1>7, <1>9, <1>10 DEF ReadFirst, Shorter
<1>12. ASSUME excuses' = {} PROVE StoreWhole'
  <2>1. StoreWhole
    BY <1>1, <1>3, <1>12
  <2>2. \A i \in DOMAIN queue' :
          queue'[i].op = "write" => Has(Normalize(queue'[i].text), queue'[i].saved)
    BY <1>5, <2>1 DEF StoreWhole, Shorter
  <2>3. (Reads(queue) = {}) <=> (Reads(queue') = {})
    BY <1>9
  <2>4. (\A i, j \in Reads(queue) : i = j) => \A i, j \in Reads(queue') : i = j
    <3>1. \A i, j \in Reads(queue') : i + 1 = j + 1 => i = j
      BY <1>5 DEF Shorter, Reads
    <3> QED
      BY <1>9, <3>1
  <2> QED
    BY <1>1, <1>9, <1>10, <2>1, <2>2, <2>3, <2>4 DEF StoreWhole
<1> QED
  BY <1>8, <1>11, <1>12 DEF StoreInv

\* A write ends, or fails to begin.
LEMMA WriteEnds ==
  ASSUME StoreInv, queue # <<>>, Head(queue).op = "write", queue' = Tail(queue), ~opened',
         UNCHANGED <<wifi, dataDir, memory, replies, asked, excuses>>, IsNames(kept'),
         excuses = {} => Has(Normalize(file'), kept')
  PROVE  StoreInv'
<1>1. StoreTypes /\ ReadFirst /\ (excuses = {} => StoreWhole)
  BY DEF StoreInv
<1>2. Shorter(queue, queue')
  BY <1>1, TailOf DEF StoreTypes
<1>3. memory # <<>> /\ dataDir
  BY <1>1, <1>2 DEF ReadFirst, Shorter
<1>4. StoreTypes'
  BY <1>1, <1>2 DEF StoreTypes, Shorter
<1>5. ReadFirst'
  BY <1>1, <1>3 DEF ReadFirst
<1>6. ASSUME excuses' = {} PROVE StoreWhole'
  <2>1. StoreWhole
    BY <1>1, <1>6
  <2>2. \A i \in DOMAIN queue' :
          queue'[i].op = "write" => Has(Normalize(queue'[i].text), queue'[i].saved)
    BY <1>2, <2>1 DEF StoreWhole, Shorter
  <2>3. Reads(queue) = {} /\ Reads(replies) = {} /\ Has(memory[1], asked)
    BY <1>3, <2>1 DEF StoreWhole
  <2>4. Reads(queue') = {}
    BY <1>2, <2>3 DEF Shorter, Reads
  <2> QED
    BY <1>3, <1>6, <2>2, <2>3, <2>4 DEF StoreWhole
<1> QED
  BY <1>4, <1>5, <1>6 DEF StoreInv

LEMMA OpenInv == ASSUME StoreInv, OpenFile PROVE StoreInv'
<1>1. /\ wifi' = wifi /\ dataDir' = dataDir /\ memory' = memory /\ replies' = replies
      /\ asked' = asked /\ excuses' = excuses
      /\ queue # <<>> /\ Head(queue).op = "write" /\ ~opened
      /\ \/ file' = Torn /\ opened' = TRUE /\ kept' = <<>> /\ queue' = queue
         \/ queue' = Tail(queue) /\ file' = file /\ opened' = opened /\ kept' = kept
  BY DEF OpenFile, StoreServes, disk
<1>2. StoreTypes /\ ReadFirst /\ (excuses = {} => StoreWhole)
  BY DEF StoreInv
<1>3. CASE file' = Torn /\ opened' = TRUE /\ kept' = <<>> /\ queue' = queue
  <2>1. Shorter(queue, Tail(queue))
    BY <1>1, <1>2, TailOf DEF StoreTypes
  <2>2. memory # <<>> /\ dataDir /\ queue[1].op = "write"
    BY <1>1, <1>2, <2>1 DEF ReadFirst, Shorter
  <2>3. DOMAIN kept' = {}
    BY <1>3, NoElements
  <2>4. StoreTypes'
    BY <1>1, <1>2, <1>3, <2>2, <2>3 DEF StoreTypes, IsNames
  <2>5. ReadFirst'
    BY <1>1, <2>2 DEF ReadFirst
  <2>6. Has(Normalize(file'), kept')
    BY <2>3 DEF Has
  <2>7. excuses' = {} => StoreWhole'
    BY <1>1, <1>2, <1>3, <2>2, <2>6 DEF StoreWhole
  <2> QED
    BY <2>4, <2>5, <2>7 DEF StoreInv
<1>4. CASE queue' = Tail(queue) /\ file' = file /\ opened' = opened /\ kept' = kept
  <2>1. IsNames(kept') /\ (excuses = {} => Has(Normalize(file'), kept'))
    BY <1>2, <1>4 DEF StoreTypes, StoreWhole
  <2> QED
    BY <1>1, <1>4, <2>1, WriteEnds
<1> QED
  BY <1>1, <1>3, <1>4

LEMMA WriteInv == ASSUME StoreInv, WriteFile PROVE StoreInv'
<1>1. /\ wifi' = wifi /\ dataDir' = dataDir /\ memory' = memory /\ replies' = replies
      /\ asked' = asked /\ excuses' = excuses
      /\ opened /\ opened' = FALSE /\ queue' = Tail(queue)
      /\ \/ file' = Head(queue).text /\ kept' = Head(queue).saved
         \/ file' = file /\ kept' = kept
  BY DEF WriteFile
<1>2. StoreTypes /\ ReadFirst /\ (excuses = {} => StoreWhole)
  BY DEF StoreInv
<1>3. queue # <<>> /\ queue[1].op = "write"
  BY <1>1, <1>2 DEF StoreTypes
<1>4. Shorter(queue, queue')
  BY <1>1, <1>2, <1>3, TailOf DEF StoreTypes
<1>5. 1 \in DOMAIN queue /\ Head(queue) = queue[1]
  BY <1>4 DEF Shorter
<1>6. IsNames(kept') /\ (excuses = {} => Has(Normalize(file'), kept'))
  BY <1>1, <1>2, <1>3, <1>5 DEF StoreTypes, StoreWhole
<1> QED
  BY <1>1, <1>3, <1>5, <1>6, WriteEnds

LEMMA TakeInv == ASSUME StoreInv, TakeReply PROVE StoreInv'
<1>1. StoreTypes /\ ReadFirst /\ (excuses = {} => StoreWhole)
  BY DEF StoreInv
<1>2. /\ wifi' = wifi /\ dataDir' = dataDir /\ file' = file /\ opened' = opened /\ kept' = kept
      /\ asked' = asked /\ replies # <<>> /\ replies' = Tail(replies)
  BY DEF TakeReply, disk
<1>3. Shorter(replies, replies')
  BY <1>1, <1>2, TailOf DEF StoreTypes
<1>4. DiskStays /\ IsNames(asked') /\ IsSequence(replies')
  BY <1>1, <1>2, <1>3 DEF DiskStays, StoreTypes, Shorter
<1>5. Reads(replies) = {} => Reads(replies') = {}
  BY <1>3 DEF Shorter, Reads
<1>6. Head(replies) = replies[1] /\ 1 \in DOMAIN replies
  BY <1>3 DEF Shorter
<1>7. ASSUME NEW name, Begin(Call("load", name, EmptySlot), asked, excuses) PROVE StoreInv'
  <2> DEFINE k == Call("load", name, EmptySlot)
  <2>1. \A db : After(k, db) = db
    BY DEF After, Call
  <2>2. Begin(k, asked', excuses)
    BY <1>2, <1>7
  <2> HIDE DEF k
  <2>3. \A db : Has(db, asked) => Has(After(k, db), asked')
    BY <1>2, <2>1
  <2> QED
    BY <1>4, <1>5, <2>2, <2>3, Begun
<1>8. ASSUME replies[1].op = "read", Continue(replies[1].then, Normalize(replies[1].text), asked),
             excuses' = excuses
      PROVE  StoreInv'
  <2>1. 1 \in Reads(replies)
    BY <1>6, <1>8 DEF Reads
  <2>2. Continue(replies[1].then, Normalize(replies[1].text), asked')
    BY <1>2, <1>8
  <2>3. dataDir
    BY <1>1, <2>1 DEF ReadFirst
  <2>4. ASSUME excuses' = {}
        PROVE  /\ Has(Normalize(file), kept)
               /\ \A i \in DOMAIN queue :
                    queue[i].op = "write" => Has(Normalize(queue[i].text), queue[i].saved)
               /\ Has(After(replies[1].then, Normalize(replies[1].text)), asked')
               /\ Reads(queue) = {} /\ Reads(replies') = {}
    <3>1. StoreWhole
      BY <1>1, <1>8, <2>4
    <3>2. memory = <<>>
      BY <2>1, <3>1 DEF StoreWhole
    <3>3. /\ Reads(queue) = {} /\ (\A i, j \in Reads(replies) : i = j)
          /\ replies[1].text = file /\ Has(After(replies[1].then, Normalize(file)), asked)
      BY <2>1, <3>1, <3>2 DEF StoreWhole
    <3>4. \A i \in Reads(replies') : i + 1 \in Reads(replies) /\ i + 1 # 1
      BY <1>3 DEF Shorter, Reads
    <3>5. Reads(replies') = {}
      BY <2>1, <3>3, <3>4
    <3> QED
      BY <1>2, <3>1, <3>3, <3>5 DEF StoreWhole
  <2> QED
    BY <1>1, <1>4, <2>2, <2>3, <2>4, Continued
<1> QED
  BY <1>2, <1>6, <1>7, <1>8 DEF TakeReply

LEMMA StopInv == ASSUME StoreInv, Stop PROVE StoreInv'
<1>1. /\ wifi' = wifi /\ dataDir' = dataDir /\ file' = file /\ kept' = kept /\ opened' = FALSE
      /\ memory' = <<>> /\ queue' = <<>> /\ replies' = <<>> /\ asked' = kept /\ excuses' = excuses
  BY DEF Stop
<1>2. /\ IsSequence(queue') /\ IsSequence(replies') /\ DOMAIN queue' = {}
      /\ Reads(queue') = {} /\ Reads(replies') = {}
  BY <1>1, NoElements
<1>3. StoreTypes'
  BY <1>1, <1>2 DEF StoreInv, StoreTypes
<1>4. ReadFirst'
  BY <1>1, <1>2 DEF StoreInv, ReadFirst
<1>5. excuses' = {} => StoreWhole'
  BY <1>1, <1>2 DEF StoreInv, StoreWhole
<1> QED
  BY <1>3, <1>4, <1>5 DEF StoreInv

\* Every step of the store keeps the invariant: what is on the disk, on its way there and
\* in the cache has what was saved under the names of the WiFis.
THEOREM StoreStep == StoreInv /\ [StoreNext]_store => StoreInv'
<1> SUFFICES ASSUME StoreInv, [StoreNext]_store PROVE StoreInv'
  OBVIOUS
<1>1. ASSUME NEW external \in BOOLEAN, StartPage(external) PROVE StoreInv'
  BY <1>1, StartInv
<1>2. ASSUME NEW w \in Wifis, Join(w) PROVE StoreInv'
  BY <1>2, PartsStay DEF Join, Parts, disk
<1>3. ASSUME NEW u \in Users, NEW remember \in BOOLEAN, Login(u, remember) PROVE StoreInv'
  BY <1>3, LoginInv
<1>4. ASSUME NEW kind \in {"server", "forget", "clear"}, Other(kind) PROVE StoreInv'
  BY <1>4, OtherInv
<1>5. CASE ReadFile \/ AskSsid \/ OpenFile \/ WriteFile \/ TakeReply \/ Stop
  BY <1>5, ReadInv, AskInv, OpenInv, WriteInv, TakeInv, StopInv
<1>6. CASE UNCHANGED store
  BY <1>6, PartsStay DEF StoreInv, StoreTypes, Parts, store, disk
<1> QED
  BY <1>1, <1>2, <1>3, <1>4, <1>5, <1>6 DEF StoreNext

\* The store keeps what it is given: an account saved in a WiFi under its name is what
\* loadAccount answers there, from the cache and from the file, for any networks, users and
\* files, and after any number of calls, failed writes, kills and restarts.
THEOREM AccountsKept == StoreSpec => []StoreHonest
<1>1. StoreInit => StoreInv
  BY StoreInitInv
<1>2. StoreInv /\ [StoreNext]_store => StoreInv'
  BY StoreStep
<1>3. StoreInv => StoreHonest
  <2> SUFFICES ASSUME StoreInv, excuses = {}
               PROVE  (memory # <<>> => Holds(memory[1], asked)) /\ Holds(Normalize(file), kept)
    BY DEF StoreHonest
  <2>1. StoreWhole /\ IsNames(asked) /\ IsNames(kept)
    BY DEF StoreInv, StoreTypes
  <2> QED
    BY <2>1, HasHolds DEF StoreWhole
<1> QED
  BY <1>1, <1>2, <1>3, PTL DEF StoreSpec

-----------------------------------------------------------------------------
(* The log file. *)

Operations == [op : {"mkdirs", "append", "clear"}, line : Nat]

\* A line that has been logged and waits to be written.
Waits(n) == \E i \in DOMAIN pending : pending[i].op = "append" /\ pending[i].line = n

LogTypes ==
    /\ logged \in Nat /\ newest \in Nat /\ missed \subseteq Nat
    /\ lines \in Seq(Nat) /\ Len(lines) <= MaxLines + 1
    /\ pending \in Seq(Operations)

\* The lines that wait are in order, and behind every line of the file.
PendingInOrder ==
    /\ \A i \in DOMAIN pending :
         /\ pending[i].line <= logged
         /\ pending[i].op = "append" <=> pending[i].line # 0
         /\ pending[i].op = "append" => newest < pending[i].line
    /\ \A i, j \in DOMAIN pending :
         i < j /\ pending[i].op = "append" /\ pending[j].op = "append" =>
            pending[i].line < pending[j].line

\* So are those of the file, up to the newest.
FileInOrder ==
    /\ newest <= logged
    /\ \A i \in DOMAIN lines : lines[i] <= newest
    /\ \A i \in DOMAIN lines : lines[i] # 0 => InFile(newest)
    /\ \A i, j \in DOMAIN lines : i < j /\ lines[i] # 0 /\ lines[j] # 0 => lines[i] < lines[j]

\* Behind a line of the file, and behind the newest, every line is accounted for.
Accounted ==
    /\ \A i \in DOMAIN lines, n \in Nat :
         lines[i] # 0 /\ lines[i] < n /\ n <= logged => n \in missed \/ Waits(n) \/ InFile(n)
    /\ \A n \in Nat : newest # 0 /\ newest < n /\ n <= logged => n \in missed \/ Waits(n)
    /\ newest # 0 /\ ~InFile(newest) => LogServes("append") \/ newest + 1 \in missed

\* So it is behind a line that waits.
WaitInTurn ==
    \A i \in DOMAIN pending, n \in Nat :
        pending[i].op = "append" /\ pending[i].line < n /\ n <= logged =>
            n \in missed \/ Waits(n)

LogInv == LogTypes /\ PendingInOrder /\ WaitInTurn /\ FileInOrder /\ Accounted

LEMMA LogElements ==
  ASSUME LogInv
  PROVE  /\ \A i \in DOMAIN pending : pending[i] \in Operations /\ pending[i].line \in Nat
         /\ \A i \in DOMAIN lines : lines[i] \in Nat
         /\ DOMAIN pending = 1..Len(pending) /\ Len(pending) \in Nat
         /\ DOMAIN lines = 1..Len(lines) /\ Len(lines) \in Nat
         /\ logged \in Nat /\ newest \in Nat /\ missed \subseteq Nat
<1>1. /\ pending \in Seq(Operations) /\ lines \in Seq(Nat)
      /\ logged \in Nat /\ newest \in Nat /\ missed \subseteq Nat
  BY DEF LogInv, LogTypes
<1>2. /\ \A i \in DOMAIN pending : pending[i] \in Operations
      /\ \A i \in DOMAIN lines : lines[i] \in Nat
      /\ DOMAIN pending = 1..Len(pending) /\ Len(pending) \in Nat
      /\ DOMAIN lines = 1..Len(lines) /\ Len(lines) \in Nat
  BY <1>1
<1>3. \A p \in Operations : p.line \in Nat
  BY DEF Operations
<1> QED
  BY <1>1, <1>2, <1>3

LEMMA LogInvImplies == LogInv => LogIsRecent
<1> SUFFICES ASSUME LogInv PROVE LogIsRecent
  OBVIOUS
<1>1. ASSUME NEW i \in DOMAIN lines, NEW j \in DOMAIN lines, i < j, lines[i] # 0, lines[j] # 0,
             NEW n \in (lines[i] + 1)..(lines[j] - 1)
      PROVE  n \in missed \/ InFile(n)
  <2>1. /\ lines[i] \in Nat /\ lines[j] \in Nat /\ newest \in Nat /\ logged \in Nat
        /\ lines[j] <= newest /\ newest <= logged
    BY DEF LogInv, LogTypes, FileInOrder
  <2>2. n \in Nat /\ lines[i] < n /\ n <= logged /\ n <= newest
    BY <2>1
  <2>3. ~Waits(n)
    <3>1. ASSUME NEW m \in DOMAIN pending, pending[m].op = "append", pending[m].line = n
          PROVE  FALSE
      <4>1. newest < n
        BY <3>1 DEF LogInv, PendingInOrder
      <4> QED
        BY <2>1, <2>2, <4>1
    <3> QED
      BY <3>1 DEF Waits
  <2> QED
    BY <1>1, <2>2, <2>3 DEF LogInv, Accounted
<1>2. \A i, j \in DOMAIN lines : i < j /\ lines[i] # 0 /\ lines[j] # 0 =>
         /\ lines[i] < lines[j]
         /\ \A n \in (lines[i] + 1)..(lines[j] - 1) : n \in missed \/ InFile(n)
  BY <1>1 DEF LogInv, FileInOrder
<1>3. newest # 0 /\ ~InFile(newest) =>
        /\ \A i \in DOMAIN lines : lines[i] = 0
        /\ LogServes("append") \/ newest + 1 \in missed
  BY DEF LogInv, FileInOrder, Accounted
<1> QED
  BY <1>2, <1>3 DEF LogInv, LogTypes, LogIsRecent

LEMMA LogInitInv == LogInit => LogInv
<1> SUFFICES ASSUME LogInit PROVE LogInv
  OBVIOUS
<1>1. logged = 0 /\ newest = 0 /\ missed = {} /\ lines = <<>> /\ pending = <<>>
  BY DEF LogInit
<1>2. DOMAIN lines = {} /\ DOMAIN pending = {} /\ Len(lines) = 0
  BY <1>1
<1> QED
  BY <1>1, <1>2, LogAssumption
     DEF LogInv, LogTypes, PendingInOrder, WaitInTurn, FileInOrder, Accounted, Operations

\* The operation that is served.
LEMMA Served ==
  ASSUME LogInv, NEW op, LogServes(op), pending' = Tail(pending)
  PROVE  /\ Len(pending) \in Nat /\ 1 \in DOMAIN pending
         /\ Head(pending) = pending[1] /\ pending[1].op = op
         /\ pending' \in Seq(Operations)
         /\ DOMAIN pending = 1..Len(pending) /\ DOMAIN pending' = 1..(Len(pending) - 1)
         /\ \A i \in DOMAIN pending' : i + 1 \in DOMAIN pending /\ pending'[i] = pending[i + 1]
         /\ \A i \in DOMAIN pending : i = 1 \/ i - 1 \in DOMAIN pending'
         /\ \A n : Waits(n) => Waits(n)' \/ (op = "append" /\ n = pending[1].line)
<1>1. pending \in Seq(Operations) /\ pending # <<>> /\ Head(pending).op = op
  BY DEF LogInv, LogTypes, LogServes
<1>2. /\ Len(pending) \in Nat /\ Len(pending) > 0 /\ Head(pending) = pending[1]
      /\ DOMAIN pending = 1..Len(pending)
      /\ Tail(pending) \in Seq(Operations) /\ Len(Tail(pending)) = Len(pending) - 1
      /\ DOMAIN Tail(pending) = 1..(Len(pending) - 1)
      /\ \A i \in 1..(Len(pending) - 1) : Tail(pending)[i] = pending[i + 1]
  BY <1>1
<1>3. \A i \in DOMAIN pending' : i + 1 \in DOMAIN pending /\ pending'[i] = pending[i + 1]
  BY <1>2
<1>4. \A i \in DOMAIN pending : i = 1 \/ (i - 1 \in DOMAIN pending' /\ pending'[i - 1] = pending[i])
  BY <1>2
<1>5. \A n : Waits(n) => Waits(n)' \/ (op = "append" /\ n = pending[1].line)
  BY <1>1, <1>2, <1>4 DEF Waits
<1> QED
  BY <1>1, <1>2, <1>3, <1>4, <1>5

\* The order of what waits survives the end of an operation, and a file as new or as old.
LEMMA ServedInOrder ==
  ASSUME LogInv, NEW op, LogServes(op), pending' = Tail(pending), UNCHANGED logged,
         newest' \in Nat, \/ newest' <= newest
                          \/ op = "append" /\ newest' = pending[1].line
  PROVE  PendingInOrder' /\ (missed \subseteq missed' => WaitInTurn')
<1>1. /\ 1 \in DOMAIN pending /\ pending[1].op = op
      /\ DOMAIN pending = 1..Len(pending) /\ DOMAIN pending' = 1..(Len(pending) - 1)
      /\ Len(pending) \in Nat
      /\ \A i \in DOMAIN pending' : i + 1 \in DOMAIN pending /\ pending'[i] = pending[i + 1]
  BY Served
<1>2. /\ logged \in Nat /\ newest \in Nat
      /\ \A i \in DOMAIN pending : pending[i].line \in Nat
  BY LogElements
<1>3. ASSUME NEW i \in DOMAIN pending'
      PROVE  /\ pending'[i].line <= logged'
             /\ pending'[i].op = "append" <=> pending'[i].line # 0
             /\ pending'[i].op = "append" => newest' < pending'[i].line
  <2>1. i + 1 \in DOMAIN pending /\ pending'[i] = pending[i + 1] /\ 1 < i + 1
    BY <1>1
  <2>2. pending[i + 1].op = "append" /\ op = "append" => pending[1].line < pending[i + 1].line
    BY <1>1, <2>1 DEF LogInv, PendingInOrder
  <2> QED
    BY <1>2, <2>1, <2>2 DEF LogInv, PendingInOrder
<1>4. ASSUME NEW i \in DOMAIN pending', NEW j \in DOMAIN pending', i < j,
             pending'[i].op = "append", pending'[j].op = "append"
      PROVE  pending'[i].line < pending'[j].line
  <2>1. i + 1 < j + 1 /\ i + 1 \in DOMAIN pending /\ j + 1 \in DOMAIN pending
        /\ pending'[i] = pending[i + 1] /\ pending'[j] = pending[j + 1]
    BY <1>1, <1>4
  <2> QED
    BY <1>4, <2>1 DEF LogInv, PendingInOrder
<1>5. ASSUME missed \subseteq missed', NEW i \in DOMAIN pending', NEW n \in Nat,
             pending'[i].op = "append", pending'[i].line < n, n <= logged'
      PROVE  n \in missed' \/ Waits(n)'
  <2>1. i + 1 \in DOMAIN pending /\ pending'[i] = pending[i + 1] /\ 1 < i + 1
    BY <1>1
  <2>2. n \in missed \/ Waits(n)
    BY <1>5, <2>1 DEF LogInv, WaitInTurn
  <2>3. op = "append" => pending[1].line < pending[i + 1].line
    BY <1>1, <1>5, <2>1 DEF LogInv, PendingInOrder
  <2>4. Waits(n) => Waits(n)' \/ (op = "append" /\ n = pending[1].line)
    BY Served
  <2>5. op = "append" => n # pending[1].line
    BY <1>1, <1>2, <1>5, <2>1, <2>3
  <2> QED
    BY <1>5, <2>2, <2>4, <2>5
<1>6. missed \subseteq missed' => WaitInTurn'
  BY <1>5 DEF WaitInTurn
<1> QED
  BY <1>3, <1>4, <1>6 DEF PendingInOrder

\* A line is logged: it is the newest of those that wait.
LEMMA LogLineInv == ASSUME LogInv, LogLine PROVE LogInv'
<1> DEFINE before == IF dirReady THEN pending ELSE Append(pending, Mkdirs)
           added == [op |-> "append", line |-> logged']
<1>1. /\ logged' = logged + 1 /\ UNCHANGED <<lines, newest, missed>>
      /\ pending' = Append(before, added)
      /\ pending \in Seq(Operations) /\ logged \in Nat /\ newest \in Nat /\ newest <= logged
  BY DEF LogLine, history, LogInv, LogTypes, FileInOrder
<1>2. Mkdirs \in Operations /\ Mkdirs.line = 0 /\ Mkdirs.op # "append"
      /\ added \in Operations /\ added.line = logged + 1 /\ added.op = "append"
  BY <1>1 DEF Mkdirs, Operations
<1> HIDE DEF added
<1>3. /\ before \in Seq(Operations) /\ Len(before) \in Nat /\ Len(pending) \in Nat
      /\ DOMAIN pending = 1..Len(pending) /\ DOMAIN before = 1..Len(before)
      /\ Len(before) >= Len(pending)
      /\ \A i \in DOMAIN pending : i \in DOMAIN before /\ before[i] = pending[i]
      /\ \A i \in DOMAIN before : i \in DOMAIN pending \/ (before[i] = Mkdirs /\ i = Len(pending) + 1)
  <2>1. CASE dirReady
    BY <1>1, <2>1
  <2>2. CASE ~dirReady
    <3>1. /\ before = Append(pending, Mkdirs) /\ Append(pending, Mkdirs) \in Seq(Operations)
          /\ Len(before) = Len(pending) + 1 /\ before[Len(pending) + 1] = Mkdirs
          /\ \A i \in 1..Len(pending) : before[i] = pending[i]
      BY <1>1, <1>2, <2>2
    <3>2. Len(pending) \in Nat /\ DOMAIN pending = 1..Len(pending)
      BY <1>1
    <3>3. before \in Seq(Operations) /\ DOMAIN before = 1..Len(before)
      BY <3>1
    <3> HIDE DEF before
    <3> QED
      BY <3>1, <3>2, <3>3
  <2> QED
    BY <2>1, <2>2
<1> HIDE DEF before
<1>4. /\ pending' \in Seq(Operations) /\ DOMAIN pending' = 1..(Len(before) + 1)
      /\ pending'[Len(before) + 1] = added
      /\ \A i \in DOMAIN before : pending'[i] = before[i]
  BY <1>1, <1>2, <1>3
<1>5. /\ \A i \in DOMAIN pending : i \in DOMAIN pending' /\ pending'[i] = pending[i]
      /\ \A i \in DOMAIN pending' : \/ i \in DOMAIN pending /\ pending'[i] = pending[i]
                                    \/ pending'[i].op # "append" /\ pending'[i].line = 0
                                    \/ pending'[i] = added /\ i > Len(pending)
      /\ \A i \in DOMAIN pending' : pending'[i] = added => i > Len(pending)
      /\ \A i, j \in DOMAIN pending' :
           i < j /\ pending'[i].op = "append" /\ pending'[j].op = "append" => i \in DOMAIN pending
  <2>1. \A i \in DOMAIN pending : i \in DOMAIN pending' /\ pending'[i] = pending[i]
    BY <1>3, <1>4
  <2>2. \A i \in DOMAIN pending' : \/ i \in DOMAIN pending /\ pending'[i] = pending[i]
                                   \/ pending'[i] = Mkdirs /\ i = Len(pending) + 1
                                   \/ pending'[i] = added /\ i = Len(before) + 1
    BY <1>3, <1>4
  <2>3. \A i \in DOMAIN pending : pending[i].line <= logged
    BY DEF LogInv, PendingInOrder
  <2>4. \A i \in DOMAIN pending' : pending'[i] = added => i > Len(pending)
    BY <1>1, <1>2, <1>3, <2>2, <2>3
  <2>5. \A i \in DOMAIN pending' : \/ i \in DOMAIN pending /\ pending'[i] = pending[i]
                                   \/ pending'[i].op # "append" /\ pending'[i].line = 0
                                   \/ pending'[i] = added /\ i > Len(pending)
    BY <1>2, <2>2, <2>4
  <2>6. \A i, j \in DOMAIN pending' :
           i < j /\ pending'[i].op = "append" /\ pending'[j].op = "append" => i \in DOMAIN pending
    BY <1>2, <1>3, <1>4, <2>2
  <2> QED
    BY <2>1, <2>4, <2>5, <2>6
<1>6. LogTypes'
  BY <1>1, <1>4 DEF LogInv, LogTypes
<1>7. PendingInOrder'
  <2>1. ASSUME NEW i \in DOMAIN pending'
        PROVE  /\ pending'[i].line <= logged'
               /\ pending'[i].op = "append" <=> pending'[i].line # 0
               /\ pending'[i].op = "append" => newest' < pending'[i].line
    BY <1>1, <1>2, <1>5, LogElements DEF LogInv, PendingInOrder
  <2>2. ASSUME NEW i \in DOMAIN pending', NEW j \in DOMAIN pending', i < j,
               pending'[i].op = "append", pending'[j].op = "append"
        PROVE  pending'[i].line < pending'[j].line
    <3>1. i \in DOMAIN pending /\ pending'[i] = pending[i] /\ pending[i].line <= logged
          /\ pending[i].line \in Nat
      BY <1>5, <2>2, LogElements DEF LogInv, PendingInOrder
    <3>2. CASE j \in DOMAIN pending /\ pending'[j] = pending[j]
      BY <2>2, <3>1, <3>2 DEF LogInv, PendingInOrder
    <3>3. CASE pending'[j] = added
      BY <1>1, <1>2, <3>1, <3>3
    <3> QED
      BY <1>5, <2>2, <3>2, <3>3
  <2> QED
    BY <2>1, <2>2 DEF PendingInOrder
<1>8. FileInOrder'
  BY <1>1 DEF LogInv, FileInOrder, InFile
<1>9. Accounted'
  <2>1. /\ \A n : Waits(n) => Waits(n)'
        /\ Waits(logged)'
        /\ LogServes("append") => LogServes("append")'
    <3>1. \A n : Waits(n) => Waits(n)'
      BY <1>5 DEF Waits
    <3>2. Waits(logged)'
      <4>1. Len(before) + 1 \in DOMAIN pending' /\ added.line = logged'
        BY <1>1, <1>2, <1>3, <1>4
      <4> QED
        BY <1>2, <1>4, <4>1 DEF Waits
    <3>3. LogServes("append") => LogServes("append")'
      <4>1. ASSUME LogServes("append") PROVE LogServes("append")'
        <5>1. pending # <<>> /\ Head(pending) = pending[1] /\ 1 \in DOMAIN pending
          BY <1>1, <4>1 DEF LogServes
        <5>2. pending' # <<>> /\ Head(pending') = pending'[1]
          BY <1>3, <1>4
        <5> QED
          BY <1>5, <4>1, <5>1, <5>2 DEF LogServes
      <4> QED
        BY <4>1
    <3> QED
      BY <3>1, <3>2, <3>3
  <2>2. \A n \in Nat : n <= logged' => n <= logged \/ n = logged'
    BY <1>1
  <2>3. \A n : InFile(n) <=> InFile(n)'
    BY <1>1 DEF InFile
  <2>4. \A n \in Nat : n = logged' => Waits(n)'
    BY <2>1
  <2>5. ASSUME NEW i \in DOMAIN lines', NEW n \in Nat, lines'[i] # 0, lines'[i] < n, n <= logged'
        PROVE  n \in missed' \/ Waits(n)' \/ InFile(n)'
    BY <1>1, <2>1, <2>2, <2>3, <2>4, <2>5 DEF LogInv, Accounted
  <2>6. ASSUME NEW n \in Nat, newest' # 0, newest' < n, n <= logged'
        PROVE  n \in missed' \/ Waits(n)'
    BY <1>1, <2>1, <2>2, <2>4, <2>6 DEF LogInv, Accounted
  <2>7. newest' # 0 /\ ~InFile(newest)' => LogServes("append")' \/ newest' + 1 \in missed'
    BY <1>1, <2>1 DEF LogInv, Accounted, InFile
  <2> QED
    BY <2>5, <2>6, <2>7 DEF Accounted
<1>10. WaitInTurn'
  <2>1. /\ \A n : Waits(n) => Waits(n)'
        /\ Waits(logged)'
    <3>1. \A n : Waits(n) => Waits(n)'
      BY <1>5 DEF Waits
    <3>2. Waits(logged)'
      <4>1. Len(before) + 1 \in DOMAIN pending' /\ added.line = logged'
        BY <1>1, <1>2, <1>3, <1>4
      <4> QED
        BY <1>2, <1>4, <4>1 DEF Waits
    <3> QED
      BY <3>1, <3>2
  <2>2. ASSUME NEW i \in DOMAIN pending', NEW n \in Nat,
               pending'[i].op = "append", pending'[i].line < n, n <= logged'
        PROVE  n \in missed' \/ Waits(n)'
    <3>1. n = logged' \/ n <= logged
      BY <1>1, <2>2
    <3>2. n = logged' => Waits(n)'
      BY <2>1
    <3>3. n <= logged => i \in DOMAIN pending /\ pending'[i] = pending[i]
      BY <1>1, <1>2, <1>5, <2>2
    <3> QED
      BY <1>1, <2>1, <2>2, <3>1, <3>2, <3>3 DEF LogInv, WaitInTurn
  <2> QED
    BY <2>2 DEF WaitInTurn
<1> QED
  BY <1>6, <1>7, <1>8, <1>9, <1>10 DEF LogInv

\* A clear is asked for: no line more waits.
LEMMA ClearLogInv == ASSUME LogInv, ClearLog PROVE LogInv'
<1> DEFINE added == [op |-> "clear", line |-> 0]
<1>1. /\ pending' = Append(pending, added) /\ pending \in Seq(Operations)
      /\ UNCHANGED <<logged, lines, newest, missed>> /\ added \in Operations
  BY DEF ClearLog, history, LogInv, LogTypes, Operations
<1>2. /\ pending' \in Seq(Operations)
      /\ DOMAIN pending = 1..Len(pending) /\ DOMAIN pending' = 1..(Len(pending) + 1)
      /\ Len(pending) \in Nat /\ pending'[Len(pending) + 1] = added
      /\ \A i \in DOMAIN pending : pending'[i] = pending[i]
  BY <1>1
<1>3. added.op # "append" /\ added.line = 0
  OBVIOUS
<1> HIDE DEF added
<1>4. /\ \A i \in DOMAIN pending : i \in DOMAIN pending' /\ pending'[i] = pending[i]
      /\ \A i \in DOMAIN pending' : i \in DOMAIN pending
           \/ (pending'[i].op # "append" /\ pending'[i].line = 0)
  BY <1>2, <1>3
<1>5. PendingInOrder'
  <2>1. ASSUME NEW i \in DOMAIN pending'
        PROVE  /\ pending'[i].line <= logged'
               /\ pending'[i].op = "append" <=> pending'[i].line # 0
               /\ pending'[i].op = "append" => newest' < pending'[i].line
    BY <1>1, <1>4, LogElements DEF LogInv, PendingInOrder
  <2>2. ASSUME NEW i \in DOMAIN pending', NEW j \in DOMAIN pending', i < j,
               pending'[i].op = "append", pending'[j].op = "append"
        PROVE  pending'[i].line < pending'[j].line
    BY <1>4, <2>2 DEF LogInv, PendingInOrder
  <2> QED
    BY <2>1, <2>2 DEF PendingInOrder
<1>6. /\ \A n : Waits(n) => Waits(n)'
      /\ LogServes("append") => LogServes("append")'
  <2>1. \A n : Waits(n) => Waits(n)'
    BY <1>4 DEF Waits
  <2>2. ASSUME LogServes("append") PROVE LogServes("append")'
    <3>1. pending # <<>> /\ Head(pending) = pending[1] /\ 1 \in DOMAIN pending
      BY <1>1, <2>2 DEF LogServes
    <3>2. pending' # <<>> /\ Head(pending') = pending'[1]
      BY <1>2
    <3> QED
      BY <1>4, <2>2, <3>1, <3>2 DEF LogServes
  <2> QED
    BY <2>1, <2>2
<1>7. LogTypes' /\ FileInOrder'
  BY <1>1, <1>2 DEF LogInv, LogTypes, FileInOrder, InFile
<1>8. Accounted' /\ WaitInTurn'
  BY <1>1, <1>4, <1>6 DEF LogInv, Accounted, WaitInTurn, InFile
<1> QED
  BY <1>5, <1>7, <1>8 DEF LogInv

\* An operation that is not an append ends, and the file stays.
LEMMA OtherEnds ==
  ASSUME LogInv, NEW op, op # "append", LogServes(op), pending' = Tail(pending),
         UNCHANGED <<logged, lines, newest, missed>>
  PROVE  LogInv'
<1>1. /\ pending' \in Seq(Operations) /\ \A n : Waits(n) => Waits(n)'
  BY Served
<1>2. newest' \in Nat /\ newest' <= newest
  BY LogElements
<1>3. PendingInOrder' /\ WaitInTurn'
  BY <1>2, ServedInOrder
<1>4. LogTypes' /\ FileInOrder'
  BY <1>1 DEF LogInv, LogTypes, FileInOrder, InFile
<1>5. ~LogServes("append")
  BY DEF LogServes
<1>6. Accounted'
  BY <1>1, <1>5 DEF LogInv, Accounted, InFile
<1> QED
  BY <1>3, <1>4, <1>6 DEF LogInv

LEMMA MakeDirsInv == ASSUME LogInv, MakeDirs PROVE LogInv'
  BY OtherEnds DEF MakeDirs, history

\* A file that is emptied: whoever is behind the newest line stays accounted for.
LEMMA RotateInv == ASSUME LogInv, Rotate PROVE LogInv'
<1>1. /\ lines' = <<>> /\ UNCHANGED <<logged, pending, newest, missed>>
      /\ LogServes("append")
  BY DEF Rotate, history
<1>2. lines' \in Seq(Nat) /\ Len(lines') = 0 /\ DOMAIN lines' = {}
  BY <1>1
<1>3. LogServes("append")'
  BY <1>1 DEF LogServes
<1>4. \A n : Waits(n) <=> Waits(n)'
  BY <1>1 DEF Waits
<1> QED
  BY <1>1, <1>2, <1>3, <1>4, LogAssumption
     DEF LogInv, LogTypes, PendingInOrder, WaitInTurn, FileInOrder, Accounted

LEMMA ClearFileInv == ASSUME LogInv, ClearFile PROVE LogInv'
<1>1. LogServes("clear") /\ pending' = Tail(pending) /\ UNCHANGED <<logged, missed>>
  BY DEF ClearFile
<1>2. CASE UNCHANGED <<lines, newest>>
  BY <1>1, <1>2, OtherEnds
<1>3. CASE lines' = <<>> /\ newest' = 0
  <2>1. lines' \in Seq(Nat) /\ Len(lines') = 0 /\ DOMAIN lines' = {}
    BY <1>3
  <2>2. newest' \in Nat /\ newest' <= newest
    BY <1>3, LogElements
  <2>3. PendingInOrder' /\ WaitInTurn' /\ pending' \in Seq(Operations)
    BY <1>1, <2>2, Served, ServedInOrder
  <2>4. 0 <= logged
    BY LogElements
  <2> QED
    BY <1>1, <1>3, <2>1, <2>3, <2>4, LogAssumption
       DEF LogInv, LogTypes, FileInOrder, Accounted
<1> QED
  BY <1>2, <1>3 DEF ClearFile

\* A line is missed: those behind the newest that wait are behind it, too.
LEMMA MissedNext ==
  ASSUME LogInv, LogServes("append"), newest # 0
  PROVE  newest + 1 \in missed \cup {pending[1].line}
<1>1. pending \in Seq(Operations) /\ pending # <<>> /\ Head(pending).op = "append"
  BY DEF LogInv, LogTypes, LogServes
<1>2. 1 \in DOMAIN pending /\ pending[1].op = "append"
  BY <1>1
<1>3. newest < pending[1].line /\ pending[1].line <= logged /\ pending[1].line \in Nat
      /\ newest \in Nat /\ logged \in Nat
  BY <1>2, LogElements DEF LogInv, PendingInOrder
<1>4. newest + 1 \in missed \/ Waits(newest + 1)
  BY <1>3 DEF LogInv, Accounted
<1>5. ASSUME NEW i \in DOMAIN pending, pending[i].op = "append", pending[i].line = newest + 1
      PROVE  newest + 1 = pending[1].line
  <2>1. i = 1 \/ 1 < i
    BY LogElements
  <2>2. 1 < i => pending[1].line < pending[i].line
    BY <1>2, <1>5 DEF LogInv, PendingInOrder
  <2> QED
    BY <1>3, <1>5, <2>1, <2>2
<1> QED
  BY <1>4, <1>5 DEF Waits

LEMMA AppendFailsInv == ASSUME LogInv, AppendFails PROVE LogInv'
<1>1. /\ LogServes("append") /\ pending' = Tail(pending)
      /\ missed' = missed \cup {Head(pending).line} /\ UNCHANGED <<logged, lines, newest>>
  BY DEF AppendFails
<1>2. /\ pending' \in Seq(Operations) /\ Head(pending) = pending[1] /\ 1 \in DOMAIN pending
      /\ \A n : Waits(n) => Waits(n)' \/ n = pending[1].line
  BY <1>1, Served
<1>3. newest' \in Nat /\ newest' <= newest /\ pending[1].line \in Nat
  BY <1>1, <1>2, LogElements
<1>4. PendingInOrder' /\ WaitInTurn'
  BY <1>1, <1>3, ServedInOrder
<1>5. LogTypes' /\ FileInOrder'
  BY <1>1, <1>2, <1>3 DEF LogInv, LogTypes, FileInOrder, InFile
<1>6. \A n : n \in missed \/ Waits(n) => n \in missed' \/ Waits(n)'
  BY <1>1, <1>2
<1>7. newest' # 0 => newest' + 1 \in missed'
  BY <1>1, <1>2, MissedNext
<1>8. Accounted'
  BY <1>1, <1>6, <1>7 DEF LogInv, Accounted, InFile
<1> QED
  BY <1>4, <1>5, <1>8 DEF LogInv

\* The process ends: what waited is missed.
LEMMA KilledInv == ASSUME LogInv, Killed PROVE LogInv'
<1>1. /\ pending' = <<>> /\ UNCHANGED <<logged, lines, newest>>
      /\ missed' = missed \cup ({pending[i].line : i \in DOMAIN pending} \ {0})
  BY DEF Killed
<1>2. pending' \in Seq(Operations) /\ DOMAIN pending' = {}
  BY <1>1
<1>3. missed' \subseteq Nat
  BY <1>1, LogElements
<1>4. \A n : n \in missed \/ Waits(n) => n \in missed'
  BY <1>1 DEF Waits, LogInv, PendingInOrder
<1>5. LogServes("append") /\ newest # 0 => newest + 1 \in missed'
  <2>1. ASSUME LogServes("append") PROVE Waits(pending[1].line)
    <3>1. pending \in Seq(Operations) /\ pending # <<>> /\ Head(pending).op = "append"
      BY <2>1 DEF LogInv, LogTypes, LogServes
    <3>2. 1 \in DOMAIN pending /\ pending[1].op = "append"
      BY <3>1
    <3> QED
      BY <3>2 DEF Waits
  <2> QED
    BY <1>4, <2>1, MissedNext
<1> QED
  BY <1>1, <1>2, <1>3, <1>4, <1>5
     DEF LogInv, LogTypes, PendingInOrder, WaitInTurn, FileInOrder, Accounted, InFile

\* A line is written, whole or cut.
LEMMA AppendLineInv == ASSUME LogInv, AppendLine PROVE LogInv'
<1> DEFINE n == pending[1].line
<1>1. /\ LogServes("append") /\ pending' = Tail(pending) /\ UNCHANGED logged
      /\ Len(lines) <= MaxLines
  BY LogElements, LogAssumption DEF AppendLine, Oversized
<1>2. /\ pending' \in Seq(Operations) /\ Head(pending) = pending[1] /\ 1 \in DOMAIN pending
      /\ pending[1].op = "append"
      /\ \A m : Waits(m) => Waits(m)' \/ m = n
  BY <1>1, Served
<1>3. /\ n \in Nat /\ n # 0 /\ newest < n /\ n <= logged /\ newest \in Nat /\ logged \in Nat
      /\ \A i \in DOMAIN lines : lines[i] \in Nat
      /\ DOMAIN lines = 1..Len(lines) /\ Len(lines) \in Nat /\ lines \in Seq(Nat)
  BY <1>2, LogElements DEF LogInv, PendingInOrder, LogTypes
<1> HIDE DEF n
<1>4. CASE lines' = Append(lines, n) /\ newest' = n /\ UNCHANGED missed
  <2>1. /\ lines' \in Seq(Nat) /\ Len(lines') = Len(lines) + 1
        /\ DOMAIN lines' = 1..(Len(lines) + 1) /\ lines'[Len(lines) + 1] = n
        /\ \A i \in DOMAIN lines : i \in DOMAIN lines' /\ lines'[i] = lines[i]
        /\ \A i \in DOMAIN lines' : i \in DOMAIN lines \/ i = Len(lines) + 1
    BY <1>3, <1>4
  <2>2. InFile(newest)' /\ \A m : InFile(m) => InFile(m)'
    BY <1>3, <1>4, <2>1 DEF InFile
  <2>3. PendingInOrder' /\ WaitInTurn'
    BY <1>1, <1>3, <1>4, ServedInOrder DEF n
  <2>4. LogTypes'
    BY <1>1, <1>2, <1>3, <1>4, <2>1, LogAssumption DEF LogInv, LogTypes
  <2>5. \A i \in DOMAIN lines : lines[i] <= newest /\ lines[i] < n
    BY <1>3 DEF LogInv, FileInOrder
  <2>6. FileInOrder'
    <3>1. \A i, j \in DOMAIN lines' : i < j /\ lines'[i] # 0 /\ lines'[j] # 0 => lines'[i] < lines'[j]
      BY <1>3, <2>1, <2>5 DEF LogInv, FileInOrder
    <3>2. \A i \in DOMAIN lines' : lines'[i] <= newest'
      BY <1>3, <1>4, <2>1, <2>5
    <3> QED
      BY <1>1, <1>3, <1>4, <2>2, <3>1, <3>2 DEF FileInOrder
  <2>7. ASSUME NEW i \in DOMAIN lines', NEW m \in Nat, lines'[i] # 0, lines'[i] < m, m <= logged'
        PROVE  m \in missed' \/ Waits(m)' \/ InFile(m)'
    <3>1. CASE i \in DOMAIN lines
      BY <1>1, <1>2, <1>4, <2>1, <2>2, <2>7, <3>1 DEF LogInv, Accounted
    <3>2. CASE i = Len(lines) + 1
      <4>1. n < m /\ newest < m /\ m # n
        BY <1>3, <2>1, <2>7, <3>2
      <4>2. m \in missed \/ Waits(m)
        BY <1>1, <1>2, <2>7, <4>1 DEF LogInv, WaitInTurn, n
      <4> QED
        BY <1>1, <1>2, <1>4, <2>7, <4>1, <4>2
    <3> QED
      BY <2>1, <3>1, <3>2
  <2>8. ASSUME NEW m \in Nat, newest' < m, m <= logged'
        PROVE  m \in missed' \/ Waits(m)'
    <3>1. m \in missed \/ Waits(m)
      BY <1>1, <1>2, <1>4, <2>8 DEF LogInv, WaitInTurn, n
    <3>2. m # n
      BY <1>3, <1>4, <2>8
    <3> QED
      BY <1>2, <1>4, <3>1, <3>2
  <2>9. Accounted'
    BY <2>2, <2>7, <2>8 DEF Accounted
  <2> QED
    BY <2>3, <2>4, <2>6, <2>9 DEF LogInv
<1>5. CASE lines' = Append(lines, 0) /\ missed' = missed \cup {n} /\ UNCHANGED newest
  <2>1. /\ lines' \in Seq(Nat) /\ Len(lines') = Len(lines) + 1
        /\ DOMAIN lines' = 1..(Len(lines) + 1) /\ lines'[Len(lines) + 1] = 0
        /\ \A i \in DOMAIN lines : i \in DOMAIN lines' /\ lines'[i] = lines[i]
        /\ \A i \in DOMAIN lines' : i \in DOMAIN lines \/ i = Len(lines) + 1
    BY <1>3, <1>5
  <2>2. \A m : InFile(m) => InFile(m)'
    BY <2>1 DEF InFile
  <2>3. PendingInOrder' /\ WaitInTurn'
    BY <1>1, <1>3, <1>5, ServedInOrder
  <2>4. LogTypes'
    BY <1>1, <1>2, <1>3, <1>5, <2>1, LogAssumption DEF LogInv, LogTypes
  <2>5. FileInOrder'
    <3>1. \A i, j \in DOMAIN lines' : i < j /\ lines'[i] # 0 /\ lines'[j] # 0 => lines'[i] < lines'[j]
      BY <1>3, <2>1 DEF LogInv, FileInOrder
    <3>2. \A i \in DOMAIN lines' : lines'[i] <= newest'
      BY <1>3, <1>5, <2>1 DEF LogInv, FileInOrder
    <3>3. \A i \in DOMAIN lines' : lines'[i] # 0 => InFile(newest)'
      BY <1>5, <2>1, <2>2 DEF LogInv, FileInOrder
    <3> QED
      BY <1>1, <1>5, <3>1, <3>2, <3>3 DEF LogInv, FileInOrder
  <2>6. \A m : m \in missed \/ Waits(m) => m \in missed' \/ Waits(m)'
    BY <1>2, <1>5
  <2>7. newest' # 0 => newest' + 1 \in missed'
    BY <1>1, <1>5, MissedNext DEF n
  <2>8. ASSUME NEW i \in DOMAIN lines', NEW m \in Nat, lines'[i] # 0, lines'[i] < m, m <= logged'
        PROVE  m \in missed' \/ Waits(m)' \/ InFile(m)'
    BY <1>1, <2>1, <2>2, <2>6, <2>8 DEF LogInv, Accounted
  <2>9. Accounted'
    BY <1>1, <1>5, <2>6, <2>7, <2>8 DEF LogInv, Accounted
  <2> QED
    BY <2>3, <2>4, <2>5, <2>9 DEF LogInv
<1> QED
  BY <1>2, <1>4, <1>5 DEF AppendLine, Written, n

\* Whatever is logged, cleared, cut or lost, the file stays a record without gaps.
THEOREM LogStep == LogInv /\ [LogNext]_log => LogInv'
<1> SUFFICES ASSUME LogInv, [LogNext]_log PROVE LogInv'
  OBVIOUS
<1>1. CASE UNCHANGED log
  <2>1. UNCHANGED <<logged, lines, pending, newest, missed>>
    BY <1>1 DEF log, history
  <2> QED
    BY <2>1 DEF LogInv, LogTypes, PendingInOrder, WaitInTurn, FileInOrder, Accounted,
                InFile, Waits, LogServes
<1> QED
  BY <1>1, LogLineInv, ClearLogInv, MakeDirsInv, RotateInv, AppendLineInv, AppendFailsInv,
     ClearFileInv, KilledInv DEF LogNext

\* For a limit and a number of lines of any size, and any way in which writes fail and
\* the application is killed: the file is bounded, in order and without a gap but of
\* lines that could not be written, and it ends with the newest line that could.
THEOREM RecordHasNoGap == LogSpec => []LogIsRecent
  BY LogInitInv, LogStep, LogInvImplies, PTL DEF LogSpec
==============================================================================
