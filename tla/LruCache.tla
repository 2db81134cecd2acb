------------------------------ MODULE LruCache ------------------------------
(***************************************************************************)
(* LruCache (native/sdk .. utils/LruCache.h): a cache of bounded size that *)
(* drops what has not been used for longest.  A template the SDK hands to  *)
(* native modules; its methods take a mutex, so several threads may call   *)
(* them, but the limit is read and written outside of it, too.  Values are *)
(* left out: an entry is its key.                                          *)
(***************************************************************************)
EXTENDS Integers, Sequences, SequencesExt, FiniteSets

CONSTANTS
    Keys,
    CacheThreads,   \* threads that use the cache
    SizeOf,         \* sizeOfEntry, by key
    Limits,         \* what the cache is resized to
    Percents,       \* what it is trimmed to
    MaxResizes      \* bound: calls of resize

Nobody == "nobody"

ASSUME CacheAssumption ==
    /\ Nobody \notin CacheThreads
    /\ SizeOf \in [Keys -> Int]
    /\ Limits \subseteq Int /\ Percents \subseteq Int
    /\ MaxResizes \in Nat

VARIABLES
    maxSize,    \* _maxSize
    cacheSize,  \* _cacheSize
    lru,        \* _lruList, the last used key first
    mapped,     \* the keys in _cacheMap
    lock,       \* who has _mutex, or nobody
    call,       \* per thread: what it is in the middle of
    resizes,    \* calls of resize
    used,       \* every key that has been cached, the last used first
    untold      \* per key: entries whose removal onEntryRemoved has not told

cache == <<maxSize, cacheSize, lru, mapped, lock, call, resizes, used, untold>>

Idle == [op |-> "idle", key |-> Nobody, size |-> 0]
InCall(op, k, n) == [op |-> op, key |-> k, size |-> n]

NotNegative(n) == IF n < 0 THEN 0 ELSE n

CacheInit ==
    /\ \E n \in Limits : maxSize = NotNegative(n)
    /\ cacheSize = 0 /\ lru = <<>> /\ mapped = {}
    /\ lock = Nobody /\ call = [t \in CacheThreads |-> Idle]
    /\ resizes = 0
    /\ used = <<>> /\ untold = [k \in Keys |-> 0]

Goes(t, c) == call' = [call EXCEPT ![t] = c]

Begins(t) == call[t] = Idle
Locks(t) == lock = Nobody /\ lock' = t
Unlocks(t) == lock = t /\ lock' = Nobody /\ Goes(t, Idle)

InFront(k, seq) == <<k>> \o RemoveFirst(seq, k)

\* The fault: the newest entry is taken for the eldest.
EldestInFront == Head(lru)

Eldest == Last(lru)

\* removeEldest, in a loop: on an empty list it does nothing.
RemoveEldest ==
    /\ IF lru = <<>> THEN UNCHANGED <<cacheSize, lru, mapped, untold>>
       ELSE /\ mapped' = mapped \ {Eldest}
            /\ cacheSize' = cacheSize - SizeOf[Eldest]
            /\ untold' = [untold EXCEPT ![Eldest] = @ - 1]
            /\ lru' = Front(lru)
    /\ UNCHANGED <<maxSize, lock, call, resizes, used>>

-----------------------------------------------------------------------------
\* putCache refuses what cannot fit and what is there, makes room, and then puts
\* the entry in front.
PutCache(t, k) ==
    /\ Begins(t) /\ Locks(t)
    /\ SizeOf[k] > 0 /\ SizeOf[k] <= maxSize /\ k \notin mapped
    /\ Goes(t, InCall("put", k, SizeOf[k]))
    /\ UNCHANGED <<maxSize, cacheSize, lru, mapped, resizes, used, untold>>

MakeRoom(t) ==
    /\ call[t].op = "put" /\ cacheSize + call[t].size > maxSize
    /\ RemoveEldest

PutDone(t) ==
    /\ call[t].op = "put" /\ cacheSize + call[t].size <= maxSize
    /\ Unlocks(t)
    /\ LET k == call[t].key IN
         /\ lru' = <<k>> \o lru
         /\ mapped' = mapped \cup {k}
         /\ used' = InFront(k, used)
         /\ untold' = [untold EXCEPT ![k] = @ + 1]
    /\ cacheSize' = cacheSize + call[t].size
    /\ UNCHANGED <<maxSize, resizes>>

\* getCache: what is found is moved to the front.
GetCache(t, k) ==
    /\ Begins(t) /\ lock = Nobody
    /\ k \in mapped
    /\ lru' = InFront(k, lru)
    /\ used' = InFront(k, used)
    /\ UNCHANGED <<maxSize, cacheSize, mapped, lock, call, resizes, untold>>

\* resize sets the limit, and takes the mutex to drop what is beyond it.
Resize(t, n) ==
    /\ Begins(t) /\ resizes < MaxResizes
    /\ NotNegative(n) # maxSize
    /\ maxSize' = NotNegative(n)
    /\ resizes' = resizes + 1
    /\ Goes(t, InCall("resize", Nobody, 0))
    /\ UNCHANGED <<cacheSize, lru, mapped, lock, used, untold>>

\* trim computes a size from the limit, which it reads again to compare.
Trim(t, percent) ==
    /\ Begins(t)
    /\ Goes(t, InCall("trim", Nobody, (maxSize * percent) \div 100))
    /\ UNCHANGED <<maxSize, cacheSize, lru, mapped, lock, resizes, used, untold>>

TrimReturns(t) ==
    /\ call[t].op = "trim" /\ call[t].size > 0 /\ call[t].size >= maxSize
    /\ Goes(t, Idle)
    /\ UNCHANGED <<maxSize, cacheSize, lru, mapped, lock, resizes, used, untold>>

TrimGoesOn(t) ==
    /\ call[t].op = "trim" /\ call[t].size > 0 /\ call[t].size < maxSize
    /\ Goes(t, [call[t] EXCEPT !.op = "trimming"])
    /\ UNCHANGED <<maxSize, cacheSize, lru, mapped, lock, resizes, used, untold>>

\* The size down to which resize and trim drop entries; resize looks at the limit
\* each time.
ShrinkTo(t) == IF call[t].op = "resize" THEN maxSize ELSE call[t].size

Enter(t) ==
    /\ call[t].op \in {"resize", "trimming"}
    /\ Locks(t)
    /\ UNCHANGED <<maxSize, cacheSize, lru, mapped, call, resizes, used, untold>>

Shrink(t) ==
    /\ lock = t /\ call[t].op \in {"resize", "trimming"}
    /\ cacheSize > ShrinkTo(t)
    /\ RemoveEldest

Shrunk(t) ==
    /\ call[t].op \in {"resize", "trimming"}
    /\ cacheSize <= ShrinkTo(t)
    /\ Unlocks(t)
    /\ UNCHANGED <<maxSize, cacheSize, lru, mapped, resizes, used, untold>>

\* erase, called, by the destructor, and by trim to nothing.
Erase(t) ==
    /\ Begins(t) \/ (call[t].op = "trim" /\ call[t].size <= 0)
    /\ lock = Nobody
    /\ mapped' = {} /\ lru' = <<>> /\ cacheSize' = 0
    /\ untold' = [k \in Keys |-> IF Contains(lru, k) THEN untold[k] - 1 ELSE untold[k]]
    /\ Goes(t, Idle)
    /\ UNCHANGED <<maxSize, lock, resizes, used>>

CacheNext == \E t \in CacheThreads :
    \/ \E k \in Keys : PutCache(t, k) \/ GetCache(t, k)
    \/ MakeRoom(t) \/ PutDone(t)
    \/ \E n \in Limits : Resize(t, n)
    \/ \E p \in Percents : Trim(t, p)
    \/ TrimReturns(t) \/ TrimGoesOn(t)
    \/ Enter(t) \/ Shrink(t) \/ Shrunk(t) \/ Erase(t)

CacheSpec == CacheInit /\ [][CacheNext]_cache

-----------------------------------------------------------------------------
\* An entry of size n stands for n units.
Units(keys) == UNION {{k} \X (1..SizeOf[k]) : k \in keys}

Resizing == \E t \in CacheThreads : call[t].op = "resize"

\* What is cached is what was used last: whatever threads put, get, resize, trim
\* and erase at once, no key stays that has been used before one that has gone.  The
\* map, the list and the size tell the same, every entry that goes is told once, and
\* the limit holds when no resize is on its way.
CacheHonest ==
    /\ Len(lru) <= Len(used) /\ \A i \in DOMAIN lru : lru[i] = used[i]
    /\ mapped = {lru[i] : i \in DOMAIN lru}
    /\ cacheSize = Cardinality(Units(mapped))
    /\ \A k \in Keys : untold[k] = (IF k \in mapped THEN 1 ELSE 0)
    /\ ~Resizing => cacheSize <= maxSize
=============================================================================
