--------------------------------- MODULE Ime ---------------------------------
(***************************************************************************)
(* The wrapper of the system input method (ui/src/services/ime.js): calls  *)
(* of open() that wait for the reopen gap, the one session it listens to,  *)
(* the retry, and the callback textEditFinished, which arrives over two    *)
(* channels, with the UUID of its session where finish looks for it or     *)
(* not.  Timers fire at any time: the native side may accept or refuse a   *)
(* session whenever it is asked, so no clock is needed.                    *)
(***************************************************************************)
EXTENDS Naturals

CONSTANTS
    Opens,      \* calls of open()
    None        \* no call

ASSUME OpensAssumption == None \notin Opens

\* An attempt of openNow to start a session, with the retries left.  It names
\* the session that it starts (its UUID).
Attempts == [open : Opens, left : {0, 1}]
Attempt(o, n) == [open |-> o, left |-> n]
NoSession == [open |-> None, left |-> 0]

\* A textEditFinished on its way over one of the two channels.  It is named if
\* the UUID is under its key in an object; a UUID that is an argument of its own
\* becomes {__raw: ..} in asObject, and finish knows none.
Finished == [of : Attempts, confirmed : BOOLEAN, named : BOOLEAN, channel : {"signal", "event"}]

VARIABLES
    answer,     \* the promise of each open(): "new", "waiting", "text" or "null"
    timers,     \* attempts whose setTimeout is set
    resolver,   \* the call whose resolve function is kept
    subscribed, \* textEditFinished is subscribed to
    session,    \* currentUuid
    screen,     \* sessions the native side shows
    finished    \* callbacks on their way

vars == <<answer, timers, resolver, subscribed, session, screen, finished>>

Init ==
    /\ answer = [o \in Opens |-> "new"]
    /\ timers = {}
    /\ resolver = None /\ subscribed = FALSE /\ session = NoSession
    /\ screen = {} /\ finished = {}

\* A promise is settled once; later calls of its resolve have no effect.
Settle(ans, o, value) ==
    [p \in Opens |-> IF p = o /\ ans[p] = "waiting" THEN value ELSE ans[p]]

\* cleanup: what it does to the promises and to the screen; and one that
\* only forgets.
CleanedForgetful == [answer |-> answer, screen |-> screen]
CleanedSilent    == [answer |-> answer, screen |-> screen \ {session}]
Cleaned == [answer |-> Settle(answer, resolver, "null"), screen |-> screen \ {session}]

Idle ==
    /\ resolver' = None
    /\ subscribed' = FALSE
    /\ session' = NoSession

-----------------------------------------------------------------------------
\* open(): nothing but a timer.
Open(o) ==
    /\ answer[o] = "new"
    /\ answer' = [answer EXCEPT ![o] = "waiting"]
    /\ timers' = timers \cup {Attempt(o, 1)}
    /\ UNCHANGED <<resolver, subscribed, session, screen, finished>>

\* openNow, and the native side accepts.
Start(t) ==
    /\ t \in timers
    /\ timers' = timers \ {t}
    /\ answer' = Cleaned.answer
    /\ screen' = Cleaned.screen \cup {t}
    /\ resolver' = t.open
    /\ subscribed' = TRUE
    /\ session' = t
    /\ UNCHANGED finished

\* openNow, and the native side returns no UUID: cleanup, with the call
\* itself as the resolver, and one more attempt.
Refused(t) ==
    /\ t \in timers
    /\ timers' = (timers \ {t}) \cup {a \in Attempts : a.open = t.open /\ a.left + 1 = t.left}
    /\ answer' = Settle(Cleaned.answer, t.open, "null")
    /\ screen' = Cleaned.screen
    /\ Idle
    /\ UNCHANGED finished

\* Whether finish takes a callback: one with a UUID only if it is that of its
\* session; and without the comparison.
MatchesAny(e) == TRUE
Matches(e) == e.named => e.of = session

\* What it answers.  The UUID of another session that is an argument of its own
\* passes for the text, unless the callback says that nothing was confirmed.
Results(e) ==
    IF e.confirmed THEN {"text"}
    ELSE IF e.named \/ e.of = session THEN {"null"} ELSE {"text", "null"}

\* The callback.
Finish(e) ==
    /\ e \in finished
    /\ finished' = finished \ {e}
    /\ IF subscribed /\ resolver # None /\ Matches(e)
         THEN /\ \E result \in Results(e) : answer' = Settle(answer, resolver, result)
              /\ screen' = screen \ {session}
              /\ Idle
         ELSE UNCHANGED <<answer, screen, resolver, subscribed, session>>
    /\ UNCHANGED timers

\* cancel and destroy, from onHide and onUnload of the page.
Cancel ==
    /\ answer' = Cleaned.answer
    /\ screen' = Cleaned.screen
    /\ Idle
    /\ UNCHANGED <<timers, finished>>

\* The user confirms or leaves a session, which stays open until it is
\* closed (shouldCloseOnConfirm: false).
UserEnds(s, confirmed, named) ==
    /\ s \in screen
    /\ finished' = finished \cup
         {e \in Finished : e.of = s /\ e.confirmed = confirmed /\ e.named = named}
    /\ UNCHANGED <<answer, timers, resolver, subscribed, session, screen>>

-----------------------------------------------------------------------------
Next ==
    \/ \E o \in Opens : Open(o)
    \/ \E t \in timers : Start(t) \/ Refused(t)
    \/ \E e \in finished : Finish(e)
    \/ Cancel
    \/ \E s \in screen, confirmed, named \in BOOLEAN : UserEnds(s, confirmed, named)

\* Timers fire.  Nothing is asked of the user, nor of the callbacks.
Fairness == \A t \in Attempts : WF_vars(Start(t) \/ Refused(t))

Spec == Init /\ [][Next]_vars /\ Fairness

-----------------------------------------------------------------------------
TypeOK ==
    /\ answer \in [Opens -> {"new", "waiting", "text", "null"}]
    /\ timers \subseteq Attempts
    /\ resolver \in Opens \cup {None}
    /\ subscribed \in BOOLEAN
    /\ session \in Attempts \cup {NoSession}
    /\ screen \subseteq Attempts
    /\ finished \subseteq Finished

\* A session on the screen is the one the wrapper listens to, for the call
\* that asked for it: none is left behind by another open, a retry or a
\* cancel (ime.js:231, 259, 274; the pairing of ime.js:11).
SessionTended ==
    \A s \in screen : s = session /\ subscribed /\ resolver = s.open

\* A text that a call gets was entered in a session of that call, although
\* callbacks of closed sessions still arrive (ime.js:173), or it came without a
\* UUID that finish could compare; and a callback that names another session
\* ends nothing.
TextIsOwn ==
    [][\A e \in finished \ finished' :
         /\ e.named /\ e.of # session => UNCHANGED <<answer, screen, session>>
         /\ \A o \in Opens : e.named /\ answer'[o] = "text" /\ answer[o] # "text" =>
               e.of.open = o /\ e.confirmed]_vars

\* A call of open() is answered, or its session is there for the user.
Answered ==
    \A o \in Opens : answer[o] = "waiting" ~> answer[o] # "waiting" \/ resolver = o

\* The inductive invariant: whether there is a session is the same in the
\* four places that keep it, and a call is waiting for its session or its
\* timer.
Consistent ==
    /\ subscribed <=> resolver # None
    /\ session.open = resolver
    /\ screen = IF resolver = None THEN {} ELSE {session}

Inv == TypeOK /\ Consistent
=============================================================================
