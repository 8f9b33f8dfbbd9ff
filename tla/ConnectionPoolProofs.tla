------------------------ MODULE ConnectionPoolProofs ------------------------
(***************************************************************************)
(* The shape of the pool is inductive: types, one owner of pool_mutex_,    *)
(* and what the control of each thread says about its data.                *)
(***************************************************************************)
EXTENDS ConnectionPool, FiniteSetTheorems, SequenceTheorems, TLAPS

\* std::min of two counts.
LEMMA MinOfTwo ==
    ASSUME NEW m \in Nat, NEW n \in Nat
    PROVE  Min({m, n}) = IF m <= n THEN m ELSE n
  BY DEF Min

\* list::erase at an iterator: one element fewer, those behind it move up.
LEMMA RemoveAtFacts ==
    ASSUME NEW S, NEW s \in Seq(S), NEW i \in 1..Len(s)
    PROVE  /\ RemoveAt(s, i) \in Seq(S)
           /\ Len(RemoveAt(s, i)) = Len(s) - 1
           /\ \A j \in 1..Len(s) - 1 :
                RemoveAt(s, i)[j] = IF j < i THEN s[j] ELSE s[j + 1]
  <1> DEFINE before == SubSeq(s, 1, i - 1)
             after == SubSeq(s, i + 1, Len(s))
  <1>1. /\ before \in Seq(S) /\ Len(before) = i - 1
        /\ \A j \in 1..i - 1 : before[j] = s[j]
    BY SubSeqProperties
  <1>2. /\ after \in Seq(S) /\ Len(after) = Len(s) - i
        /\ \A j \in 1..Len(s) - i : after[j] = s[i + j]
    <2>1. \A j \in i + 1..Len(s) : s[j] \in S
      OBVIOUS
    <2>2. /\ after \in Seq(S)
          /\ Len(after) = IF i + 1 <= Len(s) THEN Len(s) - (i + 1) + 1 ELSE 0
          /\ \A j \in 1..Len(s) - (i + 1) + 1 : after[j] = s[(i + 1) + j - 1]
      BY <2>1, SubSeqProperties
    <2>3. QED
      BY <2>2
  <1>3. /\ before \o after \in Seq(S)
        /\ Len(before \o after) = Len(before) + Len(after)
        /\ \A j \in 1..Len(before) + Len(after) : (before \o after)[j] =
              IF j <= Len(before) THEN before[j] ELSE after[j - Len(before)]
    BY <1>1, <1>2, ConcatProperties
  <1>4. RemoveAt(s, i) = before \o after
    BY DEF RemoveAt
  <1> HIDE DEF before, after
  <1>5. ASSUME NEW j \in 1..Len(s) - 1
        PROVE  (before \o after)[j] = IF j < i THEN s[j] ELSE s[j + 1]
    <2>1. CASE j < i
      BY <2>1, <1>1, <1>2, <1>3
    <2>2. CASE ~(j < i)
      <3>1. j - (i - 1) \in 1..Len(s) - i /\ i + (j - (i - 1)) = j + 1
        BY <2>2
      <3>2. after[j - (i - 1)] = s[j + 1]
        BY <3>1, <1>2
      <3>3. QED
        BY <2>2, <3>2, <1>1, <1>2, <1>3
    <2>3. QED
      BY <2>1, <2>2
  <1>6. QED
    BY <1>1, <1>2, <1>3, <1>4, <1>5

\* A refill() never tries to open more sessions than there are vacant places.
LEMMA AttemptsBound ==
    ASSUME NEW v \in Nat \ {0}, NEW d \in Nat
    PROVE  /\ Attempts(Strategy, v, d) \in Nat
           /\ Attempts(Strategy, v, d) <= v
  BY PoolAssumption DEF Attempts, ConservativeAttempts, Parallel, Strategies

\* The inductive invariant.
Shape == TypeOK /\ Mutex /\ Phases

\* A pool that was just constructed has the shape.
LEMMA ShapeInit == Init => Shape
  <1> SUFFICES ASSUME Init PROVE Shape
    OBVIOUS
  <1>1. TypeOK
    <2>1. pool \in Seq(Entry)
      BY EmptySeq DEF Init
    <2>2. pc \in [Threads -> Labels] /\ hand \in [Threads -> Sessions \cup {NoSession}]
      BY DEF Init, Labels
    <2>3. /\ op \in [Clients -> {"none", "get", "try", "is_connected"}]
          /\ ec \in [Clients -> {"ok", "timed_out", "not_found"}]
      BY DEF Init
    <2>4. vacant \in 0..PoolSize /\ delay \in 0..MaxBackoff /\ wait \in 0..MaxBackoff
      BY PoolAssumption, DelayAssumption DEF Init
    <2>5. is_added \in BOOLEAN
      BY Zenon DEF Init
    <2>6. QED
      BY <2>1, <2>2, <2>3, <2>4, <2>5 DEF Init, TypeOK
  <1>2. Mutex
    BY DEF Init, Mutex, Critical
  <1>3. Phases
    BY DEF Init, Phases, AdderPhase, ClientPhase, WatcherPhase, Threads, InCall
  <1>4. QED
    BY <1>1, <1>2, <1>3 DEF Shape

\* Every step keeps the types.
LEMMA TypeStep ==
    ASSUME Shape, [Next]_vars
    PROVE  TypeOK'
  <1>1. ASSUME NEW c \in Clients, CallGet(c)
        PROVE  TypeOK'
    BY <1>1, Shape, PoolAssumption, DelayAssumption
       DEF Shape, TypeOK, Threads, Entry, Labels, Goto, watcherVars, CallGet, Call
  <1>2. ASSUME NEW c \in Clients, CallIsConnected(c)
        PROVE  TypeOK'
    BY <1>2, Shape, PoolAssumption, DelayAssumption
       DEF Shape, TypeOK, Threads, Entry, Labels, Goto, watcherVars,
           CallIsConnected, Call
  <1>3. ASSUME NEW c \in Clients, CallReturn(c)
        PROVE  TypeOK'
    BY <1>3, Shape, PoolAssumption, DelayAssumption
       DEF Shape, TypeOK, Threads, Entry, Labels, Goto, watcherVars, CallReturn
  <1>4. ASSUME NEW c \in Clients, Lock(c)
        PROVE  TypeOK'
    BY <1>4, Shape, PoolAssumption, DelayAssumption
       DEF Shape, TypeOK, Threads, Entry, Labels, Goto, watcherVars, Lock
  <1>5. ASSUME NEW c \in Clients, LockTimeout(c)
        PROVE  TypeOK'
    BY <1>5, Shape, PoolAssumption, DelayAssumption
       DEF Shape, TypeOK, Threads, Entry, Labels, Goto, watcherVars, LockTimeout,
           Fail
  <1>6. ASSUME NEW c \in Clients, Found(c)
        PROVE  TypeOK'
    <2>0. Head(pool) \in Entry /\ Tail(pool) \in Seq(Entry)
      BY <1>6, HeadTailProperties DEF Shape, TypeOK, Found
    <2>1. /\ Head(pool).session \in Sessions /\ Tail(pool) \in Seq(Entry)
      BY <2>0 DEF Entry
    <2>2. pool' \in Seq(Entry)
      BY <1>6, <2>1 DEF Shape, TypeOK, Found
    <2>3. QED
      BY <1>6, <2>1, <2>2 DEF Shape, TypeOK, Threads, Labels, Goto, watcherVars, Found
  <1>7. ASSUME NEW c \in Clients, NotFound(c)
        PROVE  TypeOK'
    BY <1>7, Shape, PoolAssumption, DelayAssumption
       DEF Shape, TypeOK, Threads, Entry, Labels, Goto, watcherVars, NotFound,
           Fail
  <1>8. ASSUME NEW c \in Clients, Sleep(c)
        PROVE  TypeOK'
    BY <1>8, Shape, PoolAssumption, DelayAssumption
       DEF Shape, TypeOK, Threads, Entry, Labels, Goto, watcherVars, Sleep
  <1>9. ASSUME NEW c \in Clients, Wake(c)
        PROVE  TypeOK'
    BY <1>9, Shape, PoolAssumption, DelayAssumption
       DEF Shape, TypeOK, Threads, Entry, Labels, Goto, watcherVars, Wake
  <1>10. ASSUME NEW c \in Clients, Relock(c)
        PROVE  TypeOK'
    BY <1>10, Shape, PoolAssumption, DelayAssumption
       DEF Shape, TypeOK, Threads, Entry, Labels, Goto, watcherVars, Relock
  <1>11. ASSUME NEW c \in Clients, Discard(c)
        PROVE  TypeOK'
    BY <1>11, Shape, PoolAssumption, DelayAssumption
       DEF Shape, TypeOK, Threads, Entry, Labels, Goto, watcherVars, Discard
  <1>12. ASSUME NEW c \in Clients, Break(c)
        PROVE  TypeOK'
    BY <1>12, Shape, PoolAssumption, DelayAssumption
       DEF Shape, TypeOK, Threads, Entry, Labels, Goto, watcherVars, Break
  <1>13. ASSUME NEW t \in Threads, ReturnTimeout(t)
        PROVE  TypeOK'
    BY <1>13, Shape, PoolAssumption, DelayAssumption
       DEF Shape, TypeOK, Threads, Entry, Labels, Goto, watcherVars,
           ReturnTimeout, Returned
  <1>14. ASSUME NEW t \in Threads, ReturnLock(t)
        PROVE  TypeOK'
    BY <1>14, Shape, PoolAssumption, DelayAssumption
       DEF Shape, TypeOK, Threads, Entry, Labels, Goto, watcherVars, ReturnLock
  <1>15. ASSUME NEW t \in Threads, AppendSession(t)
        PROVE  TypeOK'
    <2>1. hand[t] \in Sessions
      BY <1>15
         DEF Shape, TypeOK, Phases, AdderPhase, ClientPhase, Threads, AppendSession
    <2>2. [age |-> 0, session |-> hand[t]] \in Entry
      BY <2>1, PoolAssumption DEF Entry
    <2>3. pool' \in Seq(Entry)
      BY <1>15, <2>2, AppendProperties DEF Shape, TypeOK, AppendSession
    <2>4. QED
      BY <1>15, <2>3
         DEF Shape, TypeOK, Threads, Labels, Goto, watcherVars, AppendSession
  <1>16. ASSUME NEW t \in Threads, NotifyOne(t)
        PROVE  TypeOK'
    BY <1>16, Shape, PoolAssumption, DelayAssumption
       DEF Shape, TypeOK, Threads, Entry, Labels, Goto, watcherVars, NotifyOne,
           Returned
  <1>17. ASSUME NEW a \in Adders, Connect(a)
        PROVE  TypeOK'
    BY <1>17 DEF Shape, TypeOK, Threads, Labels, Goto, watcherVars, Connect, Fresh
  <1>18. ASSUME NEW a \in Adders, ConnectFail(a)
        PROVE  TypeOK'
    BY <1>18, Shape, PoolAssumption, DelayAssumption
       DEF Shape, TypeOK, Threads, Entry, Labels, Goto, watcherVars, ConnectFail
  <1>19. ASSUME WatchTop
        PROVE  TypeOK'
    BY <1>19, Shape, PoolAssumption, DelayAssumption
       DEF Shape, TypeOK, Threads, Entry, Labels, Goto, watcherVars, WatchTop
  <1>20. ASSUME WatchLock
        PROVE  TypeOK'
    BY <1>20, Shape, PoolAssumption, DelayAssumption
       DEF Shape, TypeOK, Threads, Entry, Labels, Goto, watcherVars, WatchLock
  <1>21. ASSUME WatchLockTimeout
        PROVE  TypeOK'
    BY <1>21, Shape, PoolAssumption, DelayAssumption
       DEF Shape, TypeOK, Threads, Entry, Labels, Goto, watcherVars,
           WatchLockTimeout
  <1>22. ASSUME WatchScan
        PROVE  TypeOK'
    <2>1. CASE pool[cursor].age >= IdleTimeout
      <3>1. pool' \in Seq(Entry)
        BY <1>22, <2>1, RemoveAtFacts DEF Shape, TypeOK, WatchScan
      <3>2. QED
        BY <1>22, <2>1, <3>1 DEF Shape, TypeOK, WatchScan
    <2>2. CASE ~(pool[cursor].age >= IdleTimeout)
      BY <1>22, <2>2 DEF Shape, TypeOK, WatchScan
    <2>3. QED
      BY <2>1, <2>2
  <1>23. ASSUME WatchUnlock
        PROVE  TypeOK'
    BY <1>23, Shape, PoolAssumption, DelayAssumption
       DEF Shape, TypeOK, Threads, Entry, Labels, Goto, watcherVars, WatchUnlock, Unlock
  <1>24. ASSUME WatchRefill
        PROVE  TypeOK'
    <2>1. pc' \in [Threads -> Labels]
      BY <1>24 DEF Shape, TypeOK, Labels, WatchRefill
    <2>2. /\ vacant' = 0 /\ is_added' = FALSE /\ watcher' = "join"
          /\ UNCHANGED <<op, ec, hand, closed, pool, life, cursor, delay, wait>>
      BY <1>24 DEF WatchRefill
    <2>3. vacant' \in 0..PoolSize
      BY <2>2, PoolAssumption
    <2>4. is_added' \in BOOLEAN
      BY <2>2, Zenon
    <2>5. QED
      BY <2>1, <2>2, <2>3, <2>4 DEF Shape, TypeOK
  <1>25. ASSUME WatchBackoff
        PROVE  TypeOK'
    BY <1>25, Shape, PoolAssumption, DelayAssumption
       DEF Shape, TypeOK, Threads, Entry, Labels, Goto, watcherVars, WatchBackoff
  <1>26. ASSUME WatchJoin
        PROVE  TypeOK'
    <2>1. \A d \in Nat : NextDelays(d) \subseteq 0..MaxBackoff
      <3> SUFFICES ASSUME NEW d \in Nat, NEW e \in 0..Raised(d)
                   PROVE  Min({MaxBackoff, e}) \in 0..MaxBackoff
        BY DEF NextDelays
      <3>1. Raised(d) \in Nat
        BY DelayAssumption DEF Raised
      <3>2. e \in Nat
        BY <3>1
      <3>3. QED
        BY <3>2, MinOfTwo, DelayAssumption
    <2>2. delay' \in 0..MaxBackoff /\ wait' \in 0..MaxBackoff
      BY <1>26, <2>1, DelayAssumption DEF Shape, TypeOK, WatchJoin
    <2>3. QED
      BY <1>26, <2>2 DEF Shape, TypeOK, WatchJoin
  <1>27. ASSUME WatchSleep
        PROVE  TypeOK'
    BY <1>27, Shape, PoolAssumption, DelayAssumption
       DEF Shape, TypeOK, Threads, Entry, Labels, Goto, watcherVars, WatchSleep
  <1>28. ASSUME Destroy
        PROVE  TypeOK'
    BY <1>28, Shape, PoolAssumption, DelayAssumption
       DEF Shape, TypeOK, Threads, Entry, Labels, Goto, watcherVars, Destroy
  <1>29. ASSUME Destroyed
        PROVE  TypeOK'
    BY <1>29, Shape, PoolAssumption, DelayAssumption
       DEF Shape, TypeOK, Threads, Entry, Labels, Goto, watcherVars, Destroyed
  <1>30. ASSUME Gone
        PROVE  TypeOK'
    BY <1>30, Shape, PoolAssumption, DelayAssumption
       DEF Shape, TypeOK, Threads, Entry, Labels, Goto, watcherVars, Gone, vars
  <1>31. ASSUME Tick
        PROVE  TypeOK'
    <2>1. \A i \in 1..Len(pool) : pool'[i] \in Entry
      <3> SUFFICES ASSUME NEW i \in 1..Len(pool)
                   PROVE  pool'[i] \in Entry
        OBVIOUS
      <3>1. pool[i] \in Entry
        BY ElementOfSeq DEF Shape, TypeOK
      <3>2. Min({MaxAge, pool[i].age + 1}) \in 0..MaxAge
        BY <3>1, MinOfTwo, PoolAssumption DEF Entry
      <3>3. pool'[i] = [pool[i] EXCEPT !.age = Min({MaxAge, pool[i].age + 1})]
        BY <1>31, LenProperties DEF Shape, TypeOK, Tick
      <3>4. QED
        BY <3>1, <3>2, <3>3 DEF Entry
    <2>2. pool' \in Seq(Entry)
      <3>1. Len(pool) \in Nat /\ DOMAIN pool = 1..Len(pool)
        BY LenProperties DEF Shape, TypeOK
      <3>2. pool' \in [1..Len(pool) -> Entry]
        BY <1>31, <2>1, <3>1 DEF Tick
      <3>3. QED
        BY <3>1, <3>2, SeqDef
    <2>3. QED
      BY <1>31, <2>2, DelayAssumption DEF Shape, TypeOK, Tick
  <1>32. CASE UNCHANGED vars
    BY <1>32, Shape DEF Shape, TypeOK, vars
  <1>33. QED
    BY <1>1, <1>2, <1>3, <1>4, <1>5, <1>6, <1>7, <1>8, <1>9, <1>10, <1>11, <1>12,
       <1>13, <1>14, <1>15, <1>16, <1>17, <1>18, <1>19, <1>20, <1>21, <1>22,
       <1>23, <1>24, <1>25, <1>26, <1>27, <1>28, <1>29, <1>30, <1>31, <1>32
       DEF Next, Client, Returning, Watch

\* No step gives pool_mutex_ a second owner.
LEMMA MutexStep ==
    ASSUME Shape, [Next]_vars
    PROVE  Mutex'
  <1>1. ASSUME NEW c \in Clients, CallGet(c)
        PROVE  Mutex'
    BY <1>1, PoolAssumption
       DEF Shape, TypeOK, Mutex, Critical, Locked, Threads, Goto, watcherVars,
           CallGet, Call
  <1>2. ASSUME NEW c \in Clients, CallIsConnected(c)
        PROVE  Mutex'
    BY <1>2, PoolAssumption
       DEF Shape, TypeOK, Mutex, Critical, Locked, Threads, Goto, watcherVars,
           CallIsConnected, Call
  <1>3. ASSUME NEW c \in Clients, CallReturn(c)
        PROVE  Mutex'
    BY <1>3, PoolAssumption
       DEF Shape, TypeOK, Mutex, Critical, Locked, Threads, Goto, watcherVars,
           CallReturn
  <1>4. ASSUME NEW c \in Clients, Lock(c)
        PROVE  Mutex'
    BY <1>4, PoolAssumption
       DEF Shape, TypeOK, Mutex, Critical, Locked, Threads, Goto, watcherVars,
           Lock
  <1>5. ASSUME NEW c \in Clients, LockTimeout(c)
        PROVE  Mutex'
    BY <1>5, PoolAssumption
       DEF Shape, TypeOK, Mutex, Critical, Locked, Threads, Goto, watcherVars,
           LockTimeout, Fail
  <1>6. ASSUME NEW c \in Clients, Found(c)
        PROVE  Mutex'
    BY <1>6, PoolAssumption
       DEF Shape, TypeOK, Mutex, Critical, Locked, Threads, Goto, watcherVars,
           Found
  <1>7. ASSUME NEW c \in Clients, NotFound(c)
        PROVE  Mutex'
    BY <1>7, PoolAssumption
       DEF Shape, TypeOK, Mutex, Critical, Locked, Threads, Goto, watcherVars,
           NotFound, Fail
  <1>8. ASSUME NEW c \in Clients, Sleep(c)
        PROVE  Mutex'
    BY <1>8, PoolAssumption
       DEF Shape, TypeOK, Mutex, Critical, Locked, Threads, Goto, watcherVars,
           Sleep
  <1>9. ASSUME NEW c \in Clients, Wake(c)
        PROVE  Mutex'
    BY <1>9, PoolAssumption
       DEF Shape, TypeOK, Mutex, Critical, Locked, Threads, Goto, watcherVars,
           Wake
  <1>10. ASSUME NEW c \in Clients, Relock(c)
        PROVE  Mutex'
    BY <1>10, PoolAssumption
       DEF Shape, TypeOK, Mutex, Critical, Locked, Threads, Goto, watcherVars,
           Relock
  <1>11. ASSUME NEW c \in Clients, Discard(c)
        PROVE  Mutex'
    BY <1>11, PoolAssumption
       DEF Shape, TypeOK, Mutex, Critical, Locked, Threads, Goto, watcherVars,
           Discard
  <1>12. ASSUME NEW c \in Clients, Break(c)
        PROVE  Mutex'
    BY <1>12, PoolAssumption
       DEF Shape, TypeOK, Mutex, Critical, Locked, Threads, Goto, watcherVars,
           Break
  <1>13. ASSUME NEW t \in Threads, ReturnTimeout(t)
        PROVE  Mutex'
    BY <1>13, PoolAssumption
       DEF Shape, TypeOK, Mutex, Critical, Locked, Threads, Goto, watcherVars,
           ReturnTimeout, Returned
  <1>14. ASSUME NEW t \in Threads, ReturnLock(t)
        PROVE  Mutex'
    BY <1>14, PoolAssumption
       DEF Shape, TypeOK, Mutex, Critical, Locked, Threads, Goto, watcherVars,
           ReturnLock
  <1>15. ASSUME NEW t \in Threads, AppendSession(t)
        PROVE  Mutex'
    BY <1>15, PoolAssumption
       DEF Shape, TypeOK, Mutex, Critical, Locked, Threads, Goto, watcherVars,
           AppendSession
  <1>16. ASSUME NEW t \in Threads, NotifyOne(t)
        PROVE  Mutex'
    BY <1>16, PoolAssumption
       DEF Shape, TypeOK, Mutex, Critical, Locked, Threads, Goto, watcherVars,
           NotifyOne, Returned
  <1>17. ASSUME NEW a \in Adders, Connect(a)
        PROVE  Mutex'
    BY <1>17, PoolAssumption
       DEF Shape, TypeOK, Mutex, Critical, Locked, Threads, Goto, watcherVars,
           Connect
  <1>18. ASSUME NEW a \in Adders, ConnectFail(a)
        PROVE  Mutex'
    BY <1>18, PoolAssumption
       DEF Shape, TypeOK, Mutex, Critical, Locked, Threads, Goto, watcherVars,
           ConnectFail
  <1>19. ASSUME WatchTop
        PROVE  Mutex'
    BY <1>19, PoolAssumption
       DEF Shape, TypeOK, Mutex, Critical, Locked, Threads, Goto, watcherVars,
           WatchTop
  <1>20. ASSUME WatchLock
        PROVE  Mutex'
    BY <1>20, PoolAssumption
       DEF Shape, TypeOK, Mutex, Critical, Locked, Threads, Goto, watcherVars,
           WatchLock
  <1>21. ASSUME WatchLockTimeout
        PROVE  Mutex'
    BY <1>21, PoolAssumption
       DEF Shape, TypeOK, Mutex, Critical, Locked, Threads, Goto, watcherVars,
           WatchLockTimeout
  <1>22. ASSUME WatchScan
        PROVE  Mutex'
    BY <1>22, PoolAssumption
       DEF Shape, TypeOK, Mutex, Critical, Locked, Threads, Goto, watcherVars,
           WatchScan
  <1>23. ASSUME WatchUnlock
        PROVE  Mutex'
    BY <1>23, PoolAssumption
       DEF Shape, TypeOK, Mutex, Critical, Locked, Threads, Goto, watcherVars,
           WatchUnlock, Unlock
  <1>24. ASSUME WatchRefill
        PROVE  Mutex'
    BY <1>24, PoolAssumption
       DEF Shape, TypeOK, Mutex, Critical, Locked, Threads, Goto, watcherVars,
           WatchRefill
  <1>25. ASSUME WatchBackoff
        PROVE  Mutex'
    BY <1>25, PoolAssumption
       DEF Shape, TypeOK, Mutex, Critical, Locked, Threads, Goto, watcherVars,
           WatchBackoff
  <1>26. ASSUME WatchJoin
        PROVE  Mutex'
    BY <1>26, PoolAssumption
       DEF Shape, TypeOK, Mutex, Critical, Locked, Threads, Goto, watcherVars,
           WatchJoin
  <1>27. ASSUME WatchSleep
        PROVE  Mutex'
    BY <1>27, PoolAssumption
       DEF Shape, TypeOK, Mutex, Critical, Locked, Threads, Goto, watcherVars,
           WatchSleep
  <1>28. ASSUME Destroy
        PROVE  Mutex'
    BY <1>28, PoolAssumption
       DEF Shape, TypeOK, Mutex, Critical, Locked, Threads, Goto, watcherVars,
           Destroy
  <1>29. ASSUME Destroyed
        PROVE  Mutex'
    BY <1>29, PoolAssumption
       DEF Shape, TypeOK, Mutex, Critical, Locked, Threads, Goto, watcherVars,
           Destroyed
  <1>30. ASSUME Gone
        PROVE  Mutex'
    BY <1>30, PoolAssumption
       DEF Shape, TypeOK, Mutex, Critical, Locked, Threads, Goto, watcherVars,
           Gone, vars
  <1>31. ASSUME Tick
        PROVE  Mutex'
    BY <1>31, PoolAssumption
       DEF Shape, TypeOK, Mutex, Critical, Locked, Threads, Goto, watcherVars,
           Tick
  <1>32. CASE UNCHANGED vars
    BY <1>32, PoolAssumption
       DEF Shape, TypeOK, Mutex, Critical, Locked, Threads, Goto, watcherVars,
           vars
  <1>33. QED
    BY <1>1, <1>2, <1>3, <1>4, <1>5, <1>6, <1>7, <1>8, <1>9, <1>10, <1>11, <1>12,
       <1>13, <1>14, <1>15, <1>16, <1>17, <1>18, <1>19, <1>20, <1>21, <1>22,
       <1>23, <1>24, <1>25, <1>26, <1>27, <1>28, <1>29, <1>30, <1>31, <1>32
       DEF Next, Client, Returning, Watch

\* An adder holds a session exactly between new_session() and the end of its
\* return_session(), and only while refill() waits for it.
LEMMA AdderStep ==
    ASSUME Shape, [Next]_vars
    PROVE  \A a \in Adders : AdderPhase(a)'
  <1>1. ASSUME NEW c \in Clients, CallGet(c)
        PROVE  \A a \in Adders : AdderPhase(a)'
    BY <1>1, PoolAssumption
       DEF Shape, TypeOK, Phases, AdderPhase, WatcherPhase, Threads, Goto,
           watcherVars, CallGet, Call
  <1>2. ASSUME NEW c \in Clients, CallIsConnected(c)
        PROVE  \A a \in Adders : AdderPhase(a)'
    BY <1>2, PoolAssumption
       DEF Shape, TypeOK, Phases, AdderPhase, WatcherPhase, Threads, Goto,
           watcherVars, CallIsConnected, Call
  <1>3. ASSUME NEW c \in Clients, CallReturn(c)
        PROVE  \A a \in Adders : AdderPhase(a)'
    BY <1>3, PoolAssumption
       DEF Shape, TypeOK, Phases, AdderPhase, WatcherPhase, Threads, Goto,
           watcherVars, CallReturn
  <1>4. ASSUME NEW c \in Clients, Lock(c)
        PROVE  \A a \in Adders : AdderPhase(a)'
    BY <1>4, PoolAssumption
       DEF Shape, TypeOK, Phases, AdderPhase, WatcherPhase, Threads, Goto,
           watcherVars, Lock
  <1>5. ASSUME NEW c \in Clients, LockTimeout(c)
        PROVE  \A a \in Adders : AdderPhase(a)'
    BY <1>5, PoolAssumption
       DEF Shape, TypeOK, Phases, AdderPhase, WatcherPhase, Threads, Goto,
           watcherVars, LockTimeout, Fail
  <1>6. ASSUME NEW c \in Clients, Found(c)
        PROVE  \A a \in Adders : AdderPhase(a)'
    BY <1>6, PoolAssumption
       DEF Shape, TypeOK, Phases, AdderPhase, WatcherPhase, Threads, Goto,
           watcherVars, Found
  <1>7. ASSUME NEW c \in Clients, NotFound(c)
        PROVE  \A a \in Adders : AdderPhase(a)'
    BY <1>7, PoolAssumption
       DEF Shape, TypeOK, Phases, AdderPhase, WatcherPhase, Threads, Goto,
           watcherVars, NotFound, Fail
  <1>8. ASSUME NEW c \in Clients, Sleep(c)
        PROVE  \A a \in Adders : AdderPhase(a)'
    BY <1>8, PoolAssumption
       DEF Shape, TypeOK, Phases, AdderPhase, WatcherPhase, Threads, Goto,
           watcherVars, Sleep
  <1>9. ASSUME NEW c \in Clients, Wake(c)
        PROVE  \A a \in Adders : AdderPhase(a)'
    BY <1>9, PoolAssumption
       DEF Shape, TypeOK, Phases, AdderPhase, WatcherPhase, Threads, Goto,
           watcherVars, Wake
  <1>10. ASSUME NEW c \in Clients, Relock(c)
        PROVE  \A a \in Adders : AdderPhase(a)'
    BY <1>10, PoolAssumption
       DEF Shape, TypeOK, Phases, AdderPhase, WatcherPhase, Threads, Goto,
           watcherVars, Relock
  <1>11. ASSUME NEW c \in Clients, Discard(c)
        PROVE  \A a \in Adders : AdderPhase(a)'
    BY <1>11, PoolAssumption
       DEF Shape, TypeOK, Phases, AdderPhase, WatcherPhase, Threads, Goto,
           watcherVars, Discard
  <1>12. ASSUME NEW c \in Clients, Break(c)
        PROVE  \A a \in Adders : AdderPhase(a)'
    BY <1>12, PoolAssumption
       DEF Shape, TypeOK, Phases, AdderPhase, WatcherPhase, Threads, Goto,
           watcherVars, Break
  <1>13. ASSUME NEW t \in Threads, ReturnTimeout(t)
        PROVE  \A a \in Adders : AdderPhase(a)'
    BY <1>13, PoolAssumption
       DEF Shape, TypeOK, Phases, AdderPhase, WatcherPhase, Threads, Goto,
           watcherVars, ReturnTimeout, Returned
  <1>14. ASSUME NEW t \in Threads, ReturnLock(t)
        PROVE  \A a \in Adders : AdderPhase(a)'
    BY <1>14, PoolAssumption
       DEF Shape, TypeOK, Phases, AdderPhase, WatcherPhase, Threads, Goto,
           watcherVars, ReturnLock
  <1>15. ASSUME NEW t \in Threads, AppendSession(t)
        PROVE  \A a \in Adders : AdderPhase(a)'
    BY <1>15, PoolAssumption
       DEF Shape, TypeOK, Phases, AdderPhase, WatcherPhase, Threads, Goto,
           watcherVars, AppendSession
  <1>16. ASSUME NEW t \in Threads, NotifyOne(t)
        PROVE  \A a \in Adders : AdderPhase(a)'
    BY <1>16, PoolAssumption
       DEF Shape, TypeOK, Phases, AdderPhase, WatcherPhase, Threads, Goto,
           watcherVars, NotifyOne, Returned
  <1>17. ASSUME NEW b \in Adders, Connect(b)
        PROVE  \A a \in Adders : AdderPhase(a)'
    BY <1>17, PoolAssumption
       DEF Shape, TypeOK, Phases, AdderPhase, WatcherPhase, Threads, Goto,
           watcherVars, Connect, Fresh
  <1>18. ASSUME NEW b \in Adders, ConnectFail(b)
        PROVE  \A a \in Adders : AdderPhase(a)'
    BY <1>18, PoolAssumption
       DEF Shape, TypeOK, Phases, AdderPhase, WatcherPhase, Threads, Goto,
           watcherVars, ConnectFail
  <1>19. ASSUME WatchTop
        PROVE  \A a \in Adders : AdderPhase(a)'
    BY <1>19, PoolAssumption
       DEF Shape, TypeOK, Phases, AdderPhase, WatcherPhase, Threads, Goto,
           watcherVars, WatchTop
  <1>20. ASSUME WatchLock
        PROVE  \A a \in Adders : AdderPhase(a)'
    BY <1>20, PoolAssumption
       DEF Shape, TypeOK, Phases, AdderPhase, WatcherPhase, Threads, Goto,
           watcherVars, WatchLock
  <1>21. ASSUME WatchLockTimeout
        PROVE  \A a \in Adders : AdderPhase(a)'
    BY <1>21, PoolAssumption
       DEF Shape, TypeOK, Phases, AdderPhase, WatcherPhase, Threads, Goto,
           watcherVars, WatchLockTimeout
  <1>22. ASSUME WatchScan
        PROVE  \A a \in Adders : AdderPhase(a)'
    BY <1>22, PoolAssumption
       DEF Shape, TypeOK, Phases, AdderPhase, WatcherPhase, Threads, Goto,
           watcherVars, WatchScan
  <1>23. ASSUME WatchUnlock
        PROVE  \A a \in Adders : AdderPhase(a)'
    BY <1>23, PoolAssumption
       DEF Shape, TypeOK, Phases, AdderPhase, WatcherPhase, Threads, Goto,
           watcherVars, WatchUnlock, Unlock
  <1>24. ASSUME WatchRefill
        PROVE  \A a \in Adders : AdderPhase(a)'
    BY <1>24, PoolAssumption
       DEF Shape, TypeOK, Phases, AdderPhase, WatcherPhase, Threads, Goto,
           watcherVars, WatchRefill
  <1>25. ASSUME WatchBackoff
        PROVE  \A a \in Adders : AdderPhase(a)'
    BY <1>25, PoolAssumption
       DEF Shape, TypeOK, Phases, AdderPhase, WatcherPhase, Threads, Goto,
           watcherVars, WatchBackoff
  <1>26. ASSUME WatchJoin
        PROVE  \A a \in Adders : AdderPhase(a)'
    BY <1>26, PoolAssumption
       DEF Shape, TypeOK, Phases, AdderPhase, WatcherPhase, Threads, Goto,
           watcherVars, WatchJoin
  <1>27. ASSUME WatchSleep
        PROVE  \A a \in Adders : AdderPhase(a)'
    BY <1>27, PoolAssumption
       DEF Shape, TypeOK, Phases, AdderPhase, WatcherPhase, Threads, Goto,
           watcherVars, WatchSleep
  <1>28. ASSUME Destroy
        PROVE  \A a \in Adders : AdderPhase(a)'
    BY <1>28, PoolAssumption
       DEF Shape, TypeOK, Phases, AdderPhase, WatcherPhase, Threads, Goto,
           watcherVars, Destroy
  <1>29. ASSUME Destroyed
        PROVE  \A a \in Adders : AdderPhase(a)'
    BY <1>29, PoolAssumption
       DEF Shape, TypeOK, Phases, AdderPhase, WatcherPhase, Threads, Goto,
           watcherVars, Destroyed
  <1>30. ASSUME Gone
        PROVE  \A a \in Adders : AdderPhase(a)'
    BY <1>30, PoolAssumption
       DEF Shape, TypeOK, Phases, AdderPhase, WatcherPhase, Threads, Goto,
           watcherVars, Gone, vars
  <1>31. ASSUME Tick
        PROVE  \A a \in Adders : AdderPhase(a)'
    BY <1>31, PoolAssumption
       DEF Shape, TypeOK, Phases, AdderPhase, WatcherPhase, Threads, Goto,
           watcherVars, Tick
  <1>32. CASE UNCHANGED vars
    BY <1>32, PoolAssumption
       DEF Shape, TypeOK, Phases, AdderPhase, WatcherPhase, Threads, Goto,
           watcherVars, vars
  <1>33. QED
    BY <1>1, <1>2, <1>3, <1>4, <1>5, <1>6, <1>7, <1>8, <1>9, <1>10, <1>11, <1>12,
       <1>13, <1>14, <1>15, <1>16, <1>17, <1>18, <1>19, <1>20, <1>21, <1>22,
       <1>23, <1>24, <1>25, <1>26, <1>27, <1>28, <1>29, <1>30, <1>31, <1>32
       DEF Next, Client, Returning, Watch

\* A client is in one call at a time and in none once the pool is destroyed.
LEMMA ClientStep ==
    ASSUME Shape, [Next]_vars
    PROVE  \A c \in Clients : ClientPhase(c)'
  <1>1. ASSUME NEW d \in Clients, CallGet(d)
        PROVE  \A c \in Clients : ClientPhase(c)'
    <2>1. /\ pc \in [Threads -> Labels] /\ Clients \subseteq Threads
          /\ op \in [Clients -> {"none", "get", "try", "is_connected"}]
          /\ \A c \in Clients : ClientPhase(c)
      BY DEF Shape, TypeOK, Threads, Phases
    <2>2. PICK o \in {"get", "try"} : Call(d, o) /\ hand[d] = NoSession
      BY <1>1 DEF CallGet
    <2>3. QED
      BY <2>1, <2>2 DEF ClientPhase, InCall, Call, Goto
  <1>2. ASSUME NEW d \in Clients, CallIsConnected(d)
        PROVE  \A c \in Clients : ClientPhase(c)'
    BY <1>2, PoolAssumption
       DEF Shape, TypeOK, Phases, ClientPhase, Threads, InCall, Goto, watcherVars,
           CallIsConnected, Call
  <1>3. ASSUME NEW d \in Clients, CallReturn(d)
        PROVE  \A c \in Clients : ClientPhase(c)'
    BY <1>3, PoolAssumption
       DEF Shape, TypeOK, Phases, ClientPhase, Threads, InCall, Goto, watcherVars,
           CallReturn
  <1>4. ASSUME NEW d \in Clients, Lock(d)
        PROVE  \A c \in Clients : ClientPhase(c)'
    BY <1>4, PoolAssumption
       DEF Shape, TypeOK, Phases, ClientPhase, Threads, InCall, Goto, watcherVars,
           Lock
  <1>5. ASSUME NEW d \in Clients, LockTimeout(d)
        PROVE  \A c \in Clients : ClientPhase(c)'
    BY <1>5, PoolAssumption
       DEF Shape, TypeOK, Phases, ClientPhase, Threads, InCall, Goto, watcherVars,
           LockTimeout, Fail
  <1>6. ASSUME NEW d \in Clients, Found(d)
        PROVE  \A c \in Clients : ClientPhase(c)'
    BY <1>6, PoolAssumption
       DEF Shape, TypeOK, Phases, ClientPhase, Threads, InCall, Goto, watcherVars,
           Found
  <1>7. ASSUME NEW d \in Clients, NotFound(d)
        PROVE  \A c \in Clients : ClientPhase(c)'
    BY <1>7, PoolAssumption
       DEF Shape, TypeOK, Phases, ClientPhase, Threads, InCall, Goto, watcherVars,
           NotFound, Fail
  <1>8. ASSUME NEW d \in Clients, Sleep(d)
        PROVE  \A c \in Clients : ClientPhase(c)'
    BY <1>8, PoolAssumption
       DEF Shape, TypeOK, Phases, ClientPhase, Threads, InCall, Goto, watcherVars,
           Sleep
  <1>9. ASSUME NEW d \in Clients, Wake(d)
        PROVE  \A c \in Clients : ClientPhase(c)'
    BY <1>9, PoolAssumption
       DEF Shape, TypeOK, Phases, ClientPhase, Threads, InCall, Goto, watcherVars,
           Wake
  <1>10. ASSUME NEW d \in Clients, Relock(d)
        PROVE  \A c \in Clients : ClientPhase(c)'
    BY <1>10, PoolAssumption
       DEF Shape, TypeOK, Phases, ClientPhase, Threads, InCall, Goto, watcherVars,
           Relock
  <1>11. ASSUME NEW d \in Clients, Discard(d)
        PROVE  \A c \in Clients : ClientPhase(c)'
    BY <1>11, PoolAssumption
       DEF Shape, TypeOK, Phases, ClientPhase, Threads, InCall, Goto, watcherVars,
           Discard
  <1>12. ASSUME NEW d \in Clients, Break(d)
        PROVE  \A c \in Clients : ClientPhase(c)'
    BY <1>12, PoolAssumption
       DEF Shape, TypeOK, Phases, ClientPhase, Threads, InCall, Goto, watcherVars,
           Break
  <1>13. ASSUME NEW t \in Threads, ReturnTimeout(t)
        PROVE  \A c \in Clients : ClientPhase(c)'
    BY <1>13, PoolAssumption
       DEF Shape, TypeOK, Phases, ClientPhase, Threads, InCall, Goto, watcherVars,
           ReturnTimeout, Returned
  <1>14. ASSUME NEW t \in Threads, ReturnLock(t)
        PROVE  \A c \in Clients : ClientPhase(c)'
    BY <1>14, PoolAssumption
       DEF Shape, TypeOK, Phases, ClientPhase, Threads, InCall, Goto, watcherVars,
           ReturnLock
  <1>15. ASSUME NEW t \in Threads, AppendSession(t)
        PROVE  \A c \in Clients : ClientPhase(c)'
    BY <1>15, PoolAssumption
       DEF Shape, TypeOK, Phases, ClientPhase, Threads, InCall, Goto, watcherVars,
           AppendSession
  <1>16. ASSUME NEW t \in Threads, NotifyOne(t)
        PROVE  \A c \in Clients : ClientPhase(c)'
    BY <1>16, PoolAssumption
       DEF Shape, TypeOK, Phases, ClientPhase, Threads, InCall, Goto, watcherVars,
           NotifyOne, Returned
  <1>17. ASSUME NEW a \in Adders, Connect(a)
        PROVE  \A c \in Clients : ClientPhase(c)'
    BY <1>17, PoolAssumption
       DEF Shape, TypeOK, Phases, ClientPhase, Threads, InCall, Goto, watcherVars,
           Connect
  <1>18. ASSUME NEW a \in Adders, ConnectFail(a)
        PROVE  \A c \in Clients : ClientPhase(c)'
    BY <1>18, PoolAssumption
       DEF Shape, TypeOK, Phases, ClientPhase, Threads, InCall, Goto, watcherVars,
           ConnectFail
  <1>19. ASSUME WatchTop
        PROVE  \A c \in Clients : ClientPhase(c)'
    BY <1>19, PoolAssumption
       DEF Shape, TypeOK, Phases, ClientPhase, Threads, InCall, Goto, watcherVars,
           WatchTop
  <1>20. ASSUME WatchLock
        PROVE  \A c \in Clients : ClientPhase(c)'
    BY <1>20, PoolAssumption
       DEF Shape, TypeOK, Phases, ClientPhase, Threads, InCall, Goto, watcherVars,
           WatchLock
  <1>21. ASSUME WatchLockTimeout
        PROVE  \A c \in Clients : ClientPhase(c)'
    BY <1>21, PoolAssumption
       DEF Shape, TypeOK, Phases, ClientPhase, Threads, InCall, Goto, watcherVars,
           WatchLockTimeout
  <1>22. ASSUME WatchScan
        PROVE  \A c \in Clients : ClientPhase(c)'
    BY <1>22, PoolAssumption
       DEF Shape, TypeOK, Phases, ClientPhase, Threads, InCall, Goto, watcherVars,
           WatchScan
  <1>23. ASSUME WatchUnlock
        PROVE  \A c \in Clients : ClientPhase(c)'
    BY <1>23, PoolAssumption
       DEF Shape, TypeOK, Phases, ClientPhase, Threads, InCall, Goto, watcherVars,
           WatchUnlock, Unlock
  <1>24. ASSUME WatchRefill
        PROVE  \A c \in Clients : ClientPhase(c)'
    BY <1>24, PoolAssumption
       DEF Shape, TypeOK, Phases, ClientPhase, Threads, InCall, Goto, watcherVars,
           WatchRefill
  <1>25. ASSUME WatchBackoff
        PROVE  \A c \in Clients : ClientPhase(c)'
    BY <1>25, PoolAssumption
       DEF Shape, TypeOK, Phases, ClientPhase, Threads, InCall, Goto, watcherVars,
           WatchBackoff
  <1>26. ASSUME WatchJoin
        PROVE  \A c \in Clients : ClientPhase(c)'
    BY <1>26, PoolAssumption
       DEF Shape, TypeOK, Phases, ClientPhase, Threads, InCall, Goto, watcherVars,
           WatchJoin
  <1>27. ASSUME WatchSleep
        PROVE  \A c \in Clients : ClientPhase(c)'
    BY <1>27, PoolAssumption
       DEF Shape, TypeOK, Phases, ClientPhase, Threads, InCall, Goto, watcherVars,
           WatchSleep
  <1>28. ASSUME Destroy
        PROVE  \A c \in Clients : ClientPhase(c)'
    BY <1>28, PoolAssumption
       DEF Shape, TypeOK, Phases, ClientPhase, Threads, InCall, Goto, watcherVars,
           Destroy
  <1>29. ASSUME Destroyed
        PROVE  \A c \in Clients : ClientPhase(c)'
    BY <1>29, PoolAssumption
       DEF Shape, TypeOK, Phases, ClientPhase, Threads, InCall, Goto, watcherVars,
           Destroyed
  <1>30. ASSUME Gone
        PROVE  \A c \in Clients : ClientPhase(c)'
    BY <1>30, PoolAssumption
       DEF Shape, TypeOK, Phases, ClientPhase, Threads, InCall, Goto, watcherVars,
           Gone, vars
  <1>31. ASSUME Tick
        PROVE  \A c \in Clients : ClientPhase(c)'
    BY <1>31, PoolAssumption
       DEF Shape, TypeOK, Phases, ClientPhase, Threads, InCall, Goto, watcherVars,
           Tick
  <1>32. CASE UNCHANGED vars
    BY <1>32, PoolAssumption
       DEF Shape, TypeOK, Phases, ClientPhase, Threads, InCall, Goto, watcherVars,
           vars
  <1>33. QED
    BY <1>1, <1>2, <1>3, <1>4, <1>5, <1>6, <1>7, <1>8, <1>9, <1>10, <1>11, <1>12,
       <1>13, <1>14, <1>15, <1>16, <1>17, <1>18, <1>19, <1>20, <1>21, <1>22,
       <1>23, <1>24, <1>25, <1>26, <1>27, <1>28, <1>29, <1>30, <1>31, <1>32
       DEF Next, Client, Returning, Watch

\* vacant_places is positive only on the way to refill(), the scan never runs
\* past the end of the list and the watcher only stops for the destructor.
LEMMA WatcherStep ==
    ASSUME Shape, [Next]_vars
    PROVE  WatcherPhase'
  <1>1. ASSUME NEW c \in Clients, CallGet(c)
        PROVE  WatcherPhase'
    BY <1>1, PoolAssumption
       DEF Shape, TypeOK, Mutex, Critical, Phases, AdderPhase, WatcherPhase,
           Threads, Goto, watcherVars, CallGet, Call
  <1>2. ASSUME NEW c \in Clients, CallIsConnected(c)
        PROVE  WatcherPhase'
    BY <1>2, PoolAssumption
       DEF Shape, TypeOK, Mutex, Critical, Phases, AdderPhase, WatcherPhase,
           Threads, Goto, watcherVars, CallIsConnected, Call
  <1>3. ASSUME NEW c \in Clients, CallReturn(c)
        PROVE  WatcherPhase'
    BY <1>3, PoolAssumption
       DEF Shape, TypeOK, Mutex, Critical, Phases, AdderPhase, WatcherPhase,
           Threads, Goto, watcherVars, CallReturn
  <1>4. ASSUME NEW c \in Clients, Lock(c)
        PROVE  WatcherPhase'
    BY <1>4, PoolAssumption
       DEF Shape, TypeOK, Mutex, Critical, Phases, AdderPhase, WatcherPhase,
           Threads, Goto, watcherVars, Lock
  <1>5. ASSUME NEW c \in Clients, LockTimeout(c)
        PROVE  WatcherPhase'
    BY <1>5, PoolAssumption
       DEF Shape, TypeOK, Mutex, Critical, Phases, AdderPhase, WatcherPhase,
           Threads, Goto, watcherVars, LockTimeout, Fail
  <1>6. ASSUME NEW c \in Clients, Found(c)
        PROVE  WatcherPhase'
    BY <1>6, PoolAssumption
       DEF Shape, TypeOK, Mutex, Critical, Phases, AdderPhase, WatcherPhase,
           Threads, Goto, watcherVars, Found
  <1>7. ASSUME NEW c \in Clients, NotFound(c)
        PROVE  WatcherPhase'
    BY <1>7, PoolAssumption
       DEF Shape, TypeOK, Mutex, Critical, Phases, AdderPhase, WatcherPhase,
           Threads, Goto, watcherVars, NotFound, Fail
  <1>8. ASSUME NEW c \in Clients, Sleep(c)
        PROVE  WatcherPhase'
    BY <1>8, PoolAssumption
       DEF Shape, TypeOK, Mutex, Critical, Phases, AdderPhase, WatcherPhase,
           Threads, Goto, watcherVars, Sleep
  <1>9. ASSUME NEW c \in Clients, Wake(c)
        PROVE  WatcherPhase'
    BY <1>9, PoolAssumption
       DEF Shape, TypeOK, Mutex, Critical, Phases, AdderPhase, WatcherPhase,
           Threads, Goto, watcherVars, Wake
  <1>10. ASSUME NEW c \in Clients, Relock(c)
        PROVE  WatcherPhase'
    BY <1>10, PoolAssumption
       DEF Shape, TypeOK, Mutex, Critical, Phases, AdderPhase, WatcherPhase,
           Threads, Goto, watcherVars, Relock
  <1>11. ASSUME NEW c \in Clients, Discard(c)
        PROVE  WatcherPhase'
    BY <1>11, PoolAssumption
       DEF Shape, TypeOK, Mutex, Critical, Phases, AdderPhase, WatcherPhase,
           Threads, Goto, watcherVars, Discard
  <1>12. ASSUME NEW c \in Clients, Break(c)
        PROVE  WatcherPhase'
    BY <1>12, PoolAssumption
       DEF Shape, TypeOK, Mutex, Critical, Phases, AdderPhase, WatcherPhase,
           Threads, Goto, watcherVars, Break
  <1>13. ASSUME NEW t \in Threads, ReturnTimeout(t)
        PROVE  WatcherPhase'
    BY <1>13, PoolAssumption
       DEF Shape, TypeOK, Mutex, Critical, Phases, AdderPhase, WatcherPhase,
           Threads, Goto, watcherVars, ReturnTimeout, Returned
  <1>14. ASSUME NEW t \in Threads, ReturnLock(t)
        PROVE  WatcherPhase'
    BY <1>14, PoolAssumption
       DEF Shape, TypeOK, Mutex, Critical, Phases, AdderPhase, WatcherPhase,
           Threads, Goto, watcherVars, ReturnLock
  <1>15. ASSUME NEW t \in Threads, AppendSession(t)
        PROVE  WatcherPhase'
    BY <1>15, PoolAssumption
       DEF Shape, TypeOK, Mutex, Critical, Phases, AdderPhase, WatcherPhase,
           Threads, Goto, watcherVars, AppendSession
  <1>16. ASSUME NEW t \in Threads, NotifyOne(t)
        PROVE  WatcherPhase'
    BY <1>16, PoolAssumption
       DEF Shape, TypeOK, Mutex, Critical, Phases, AdderPhase, WatcherPhase,
           Threads, Goto, watcherVars, NotifyOne, Returned
  <1>17. ASSUME NEW a \in Adders, Connect(a)
        PROVE  WatcherPhase'
    BY <1>17, PoolAssumption
       DEF Shape, TypeOK, Mutex, Critical, Phases, AdderPhase, WatcherPhase,
           Threads, Goto, watcherVars, Connect
  <1>18. ASSUME NEW a \in Adders, ConnectFail(a)
        PROVE  WatcherPhase'
    BY <1>18, PoolAssumption
       DEF Shape, TypeOK, Mutex, Critical, Phases, AdderPhase, WatcherPhase,
           Threads, Goto, watcherVars, ConnectFail
  <1>19. ASSUME WatchTop
        PROVE  WatcherPhase'
    BY <1>19, PoolAssumption
       DEF Shape, TypeOK, Mutex, Critical, Phases, AdderPhase, WatcherPhase,
           Threads, Goto, watcherVars, WatchTop
  <1>20. ASSUME WatchLock
        PROVE  WatcherPhase'
    BY <1>20, PoolAssumption
       DEF Shape, TypeOK, Mutex, Critical, Phases, AdderPhase, WatcherPhase,
           Threads, Goto, watcherVars, WatchLock
  <1>21. ASSUME WatchLockTimeout
        PROVE  WatcherPhase'
    BY <1>21, PoolAssumption
       DEF Shape, TypeOK, Mutex, Critical, Phases, AdderPhase, WatcherPhase,
           Threads, Goto, watcherVars, WatchLockTimeout
  <1>22. ASSUME WatchScan
        PROVE  WatcherPhase'
    <2>1. Len(pool) \in Nat /\ cursor \in 1..Len(pool)
      BY <1>22, LenProperties DEF Shape, TypeOK, WatchScan
    <2>2. \/ Len(pool') = Len(pool) - 1 /\ cursor' = cursor
          \/ pool' = pool /\ cursor' = cursor + 1
      BY <1>22, <2>1, RemoveAtFacts DEF Shape, TypeOK, WatchScan
    <2>3. cursor' <= Len(pool') + 1
      BY <2>1, <2>2
    <2>4. watcher = "scan" /\ watcher' = watcher /\ vacant' = vacant /\ life' = life
      BY <1>22 DEF WatchScan
    <2>5. QED
      BY <2>3, <2>4 DEF Shape, Phases, WatcherPhase
  <1>23. ASSUME WatchUnlock
        PROVE  WatcherPhase'
    BY <1>23, PoolAssumption
       DEF Shape, TypeOK, Mutex, Critical, Phases, AdderPhase, WatcherPhase,
           Threads, Goto, watcherVars, WatchUnlock, Unlock
  <1>24. ASSUME WatchRefill
        PROVE  WatcherPhase'
    BY <1>24 DEF Shape, Phases, WatcherPhase, WatchRefill
  <1>25. ASSUME WatchBackoff
        PROVE  WatcherPhase'
    BY <1>25, PoolAssumption
       DEF Shape, TypeOK, Mutex, Critical, Phases, AdderPhase, WatcherPhase,
           Threads, Goto, watcherVars, WatchBackoff
  <1>26. ASSUME WatchJoin
        PROVE  WatcherPhase'
    BY <1>26, PoolAssumption
       DEF Shape, TypeOK, Mutex, Critical, Phases, AdderPhase, WatcherPhase,
           Threads, Goto, watcherVars, WatchJoin
  <1>27. ASSUME WatchSleep
        PROVE  WatcherPhase'
    BY <1>27, PoolAssumption
       DEF Shape, TypeOK, Mutex, Critical, Phases, AdderPhase, WatcherPhase,
           Threads, Goto, watcherVars, WatchSleep
  <1>28. ASSUME Destroy
        PROVE  WatcherPhase'
    BY <1>28, PoolAssumption
       DEF Shape, TypeOK, Mutex, Critical, Phases, AdderPhase, WatcherPhase,
           Threads, Goto, watcherVars, Destroy
  <1>29. ASSUME Destroyed
        PROVE  WatcherPhase'
    BY <1>29, PoolAssumption
       DEF Shape, TypeOK, Mutex, Critical, Phases, AdderPhase, WatcherPhase,
           Threads, Goto, watcherVars, Destroyed
  <1>30. ASSUME Gone
        PROVE  WatcherPhase'
    BY <1>30, PoolAssumption
       DEF Shape, TypeOK, Mutex, Critical, Phases, AdderPhase, WatcherPhase,
           Threads, Goto, watcherVars, Gone, vars
  <1>31. ASSUME Tick
        PROVE  WatcherPhase'
    BY <1>31, PoolAssumption
       DEF Shape, TypeOK, Mutex, Critical, Phases, AdderPhase, WatcherPhase,
           Threads, Goto, watcherVars, Tick
  <1>32. CASE UNCHANGED vars
    BY <1>32, PoolAssumption
       DEF Shape, TypeOK, Mutex, Critical, Phases, AdderPhase, WatcherPhase,
           Threads, Goto, watcherVars, vars
  <1>33. QED
    BY <1>1, <1>2, <1>3, <1>4, <1>5, <1>6, <1>7, <1>8, <1>9, <1>10, <1>11, <1>12,
       <1>13, <1>14, <1>15, <1>16, <1>17, <1>18, <1>19, <1>20, <1>21, <1>22,
       <1>23, <1>24, <1>25, <1>26, <1>27, <1>28, <1>29, <1>30, <1>31, <1>32
       DEF Next, Client, Returning, Watch

\* Each thread keeps its phase and the mutex its single owner, for ever.
THEOREM ShapeInvariant == Spec => []Shape
  <1>1. Shape /\ [Next]_vars => Shape'
    <2> SUFFICES ASSUME Shape, [Next]_vars PROVE Shape'
      OBVIOUS
    <2>1. TypeOK' /\ Mutex'
      BY TypeStep, MutexStep
    <2>2. Phases'
      BY AdderStep, ClientStep, WatcherStep DEF Phases
    <2>3. QED
      BY <2>1, <2>2 DEF Shape
  <1>2. QED
    BY ShapeInit, <1>1, PTL DEF Spec

\* The variables of the pool keep their types: the vacant places never exceed
\* the pool's size, and the back-off never exceeds its cap.
THEOREM TypeCorrect == Spec => []TypeOK
  BY ShapeInvariant, PTL DEF Shape

\* When ~base_connection_pool has returned, neither the watcher nor an adder nor
\* a client runs code of the pool.
THEOREM QuietAfterDestructor == Spec => []QuietWhenGone
  <1>1. Shape => QuietWhenGone
    BY DEF Shape, Phases, AdderPhase, ClientPhase, WatcherPhase, QuietWhenGone, Threads
  <1>2. QED
    BY ShapeInvariant, <1>1, PTL

=============================================================================
