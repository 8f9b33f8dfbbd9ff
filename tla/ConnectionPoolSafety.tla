------------------------ MODULE ConnectionPoolSafety ------------------------
(***************************************************************************)
(* ConnectionBound and NoLostWakeup hold for every number of clients, every*)
(* size and both strategies.  Both rest on Shape (ConnectionPoolProofs).   *)
(***************************************************************************)
EXTENDS ConnectionPoolProofs

\* Sets of threads are finite.
LEMMA FiniteThreads ==
    /\ IsFiniteSet(Threads)
    /\ \A S : S \subseteq Threads => IsFiniteSet(S) /\ Cardinality(S) \in Nat
  <1>1. IsFiniteSet(Threads)
    BY PoolAssumption, FS_Union DEF Threads
  <1>2. QED
    BY <1>1, FS_Subset, FS_CardinalityType

\* The types the steps below rely on.
LEMMA StepTypes ==
    ASSUME Shape
    PROVE  /\ pc \in [Threads -> Labels]
           /\ hand \in [Threads -> Sessions \cup {NoSession}]
           /\ Len(pool) \in Nat /\ vacant \in Nat
           /\ Clients \subseteq Threads /\ Adders \subseteq Threads
  BY LenProperties, PoolAssumption DEF Shape, TypeOK, Threads

\* return_session() appends an existing session.
LEMMA Appended ==
    ASSUME Shape, NEW t \in Threads, AppendSession(t)
    PROVE  /\ hand[t] # NoSession
           /\ Len(pool) \in Nat /\ Len(pool') = Len(pool) + 1
  <1>1. hand[t] # NoSession
    BY DEF Shape, Phases, AdderPhase, ClientPhase, Threads, AppendSession
  <1>2. [age |-> 0, session |-> hand[t]] \in Entry
    BY <1>1, StepTypes, PoolAssumption DEF Entry
  <1>3. pool \in Seq(Entry)
    BY DEF Shape, TypeOK
  <1>4. pool' = Append(pool, [age |-> 0, session |-> hand[t]])
    BY DEF AppendSession
  <1>5. QED
    BY <1>1, <1>2, <1>3, <1>4, AppendProperties, LenProperties

\* An iteration of the scan does not lengthen the list.
LEMMA Scanned ==
    ASSUME Shape, WatchScan
    PROVE  Len(pool') <= Len(pool)
  <1>1. pool \in Seq(Entry) /\ cursor \in 1..Len(pool)
    BY DEF Shape, TypeOK, WatchScan
  <1>2. pool' = pool \/ pool' = RemoveAt(pool, cursor)
    BY DEF WatchScan
  <1>3. QED
    BY <1>1, <1>2, RemoveAtFacts, StepTypes

\* The numbers in Room.
LEMMA RoomTypes ==
    ASSUME Shape
    PROVE  vacant \in Nat /\ PoolSize \in Nat /\ Cardinality(Clients) \in Nat
  BY PoolAssumption, FS_CardinalityType DEF Shape, TypeOK

\* A step that opens no session and appends none keeps the room there was.
LEMMA RoomKept ==
    ASSUME Shape, Shape', Room,
           Busy' \subseteq Busy, Len(pool') <= Len(pool), vacant' <= vacant
    PROVE  Room'
  <1>1. Cardinality(Busy') <= Cardinality(Busy) /\ Cardinality(Busy) \in Nat /\ Cardinality(Busy') \in Nat
    <2>1. Busy \subseteq Threads /\ IsFiniteSet(Busy)
      BY FiniteThreads DEF Busy
    <2>2. QED
      BY <2>1, FS_Subset, FS_CardinalityType
  <1>2. Len(pool) \in Nat /\ Len(pool') \in Nat
    BY LenProperties DEF Shape, TypeOK
  <1>3. Cardinality(Clients) \in Nat /\ PoolSize \in Nat
    BY PoolAssumption, FS_CardinalityType
  <1>4. vacant \in Nat /\ vacant' \in Nat
    BY PoolAssumption DEF Shape, TypeOK
  <1>5. QED
    BY <1>1, <1>2, <1>3, <1>4 DEF Room

\* No step of any thread makes the room run out: see Room.
LEMMA RoomStep ==
    ASSUME Shape, Shape', Room, [Next]_vars
    PROVE  Room'
  <1>0. /\ pc \in [Threads -> Labels]
        /\ hand \in [Threads -> Sessions \cup {NoSession}]
        /\ Len(pool) \in Nat /\ vacant \in Nat
        /\ Clients \subseteq Threads /\ Adders \subseteq Threads
    BY StepTypes
  <1>1. ASSUME NEW c \in Clients, CallGet(c)
        PROVE  Busy' \subseteq Busy /\ Len(pool') <= Len(pool) /\ vacant' <= vacant
    BY <1>0, <1>1 DEF Busy, Goto, watcherVars, CallGet, Call
  <1>2. ASSUME NEW c \in Clients, CallIsConnected(c)
        PROVE  Busy' \subseteq Busy /\ Len(pool') <= Len(pool) /\ vacant' <= vacant
    BY <1>0, <1>2 DEF Busy, Goto, watcherVars, CallIsConnected, Call
  <1>3. ASSUME NEW c \in Clients, CallReturn(c)
        PROVE  Busy' \subseteq Busy /\ Len(pool') <= Len(pool) /\ vacant' <= vacant
    BY <1>0, <1>3 DEF Busy, Goto, watcherVars, CallReturn
  <1>4. ASSUME NEW c \in Clients, Lock(c)
        PROVE  Busy' \subseteq Busy /\ Len(pool') <= Len(pool) /\ vacant' <= vacant
    BY <1>0, <1>4 DEF Busy, Goto, watcherVars, Lock
  <1>5. ASSUME NEW c \in Clients, LockTimeout(c)
        PROVE  Busy' \subseteq Busy /\ Len(pool') <= Len(pool) /\ vacant' <= vacant
    BY <1>0, <1>5 DEF Busy, Goto, watcherVars, LockTimeout, Fail
  <1>6. ASSUME NEW c \in Clients, Found(c)
        PROVE  Room'
    <2>1. CASE op[c] = "is_connected"
      <3>1. Busy' \subseteq Busy /\ pool' = pool /\ vacant' = vacant
        BY <1>6, <2>1 DEF Shape, TypeOK, Busy, Threads, Goto, watcherVars, Found
      <3>2. Len(pool) <= Len(pool) /\ vacant <= vacant
        BY LenProperties DEF Shape, TypeOK
      <3>3. QED
        BY <3>1, <3>2, RoomKept
    <2>2. CASE op[c] # "is_connected"
      <3>1. Busy' \subseteq Busy \cup {c} /\ vacant' = vacant
        BY <1>6, <2>2 DEF Shape, TypeOK, Busy, Threads, Goto, watcherVars, Found
      <3>2. Len(pool') = Len(pool) - 1 /\ Len(pool) \in Nat
        BY <1>6, <2>2, HeadTailProperties, LenProperties DEF Shape, TypeOK, Found
      <3>3. /\ Cardinality(Busy') <= Cardinality(Busy) + 1
            /\ Cardinality(Busy) \in Nat /\ Cardinality(Busy') \in Nat
        <4>1. IsFiniteSet(Busy) /\ IsFiniteSet(Busy \cup {c})
          BY FiniteThreads, FS_AddElement DEF Busy
        <4>2. QED
          BY <3>1, <4>1, FS_AddElement, FS_Subset, FS_CardinalityType
      <3>4. QED
        BY <3>1, <3>2, <3>3, RoomTypes DEF Room
    <2>3. QED
      BY <2>1, <2>2
  <1>7. ASSUME NEW c \in Clients, NotFound(c)
        PROVE  Busy' \subseteq Busy /\ Len(pool') <= Len(pool) /\ vacant' <= vacant
    BY <1>0, <1>7 DEF Busy, Goto, watcherVars, NotFound, Fail
  <1>8. ASSUME NEW c \in Clients, Sleep(c)
        PROVE  Busy' \subseteq Busy /\ Len(pool') <= Len(pool) /\ vacant' <= vacant
    BY <1>0, <1>8 DEF Busy, Goto, watcherVars, Sleep
  <1>9. ASSUME NEW c \in Clients, Wake(c)
        PROVE  Busy' \subseteq Busy /\ Len(pool') <= Len(pool) /\ vacant' <= vacant
    BY <1>0, <1>9 DEF Busy, Goto, watcherVars, Wake
  <1>10. ASSUME NEW c \in Clients, Relock(c)
        PROVE  Busy' \subseteq Busy /\ Len(pool') <= Len(pool) /\ vacant' <= vacant
    BY <1>0, <1>10 DEF Busy, Goto, watcherVars, Relock
  <1>11. ASSUME NEW c \in Clients, Discard(c)
        PROVE  Busy' \subseteq Busy /\ Len(pool') <= Len(pool) /\ vacant' <= vacant
    BY <1>0, <1>11 DEF Busy, Goto, watcherVars, Discard
  <1>12. ASSUME NEW c \in Clients, Break(c)
        PROVE  Busy' \subseteq Busy /\ Len(pool') <= Len(pool) /\ vacant' <= vacant
    BY <1>0, <1>12 DEF Busy, Goto, watcherVars, Break
  <1>13. ASSUME NEW t \in Threads, ReturnTimeout(t)
        PROVE  Busy' \subseteq Busy /\ Len(pool') <= Len(pool) /\ vacant' <= vacant
    BY <1>0, <1>13 DEF Busy, Goto, ReturnTimeout
  <1>14. ASSUME NEW t \in Threads, ReturnLock(t)
        PROVE  Busy' \subseteq Busy /\ Len(pool') <= Len(pool) /\ vacant' <= vacant
    BY <1>0, <1>14 DEF Busy, Goto, watcherVars, ReturnLock
  <1>15. ASSUME NEW t \in Threads, AppendSession(t)
        PROVE  Room'
    <2>1. Busy' = Busy \ {t} /\ t \in Busy /\ vacant' = vacant
      BY <1>0, <1>15, Appended DEF Busy, Goto, watcherVars, AppendSession
    <2>2. Len(pool') = Len(pool) + 1 /\ Len(pool) \in Nat
      BY <1>15, Appended
    <2>3. Cardinality(Busy') = Cardinality(Busy) - 1 /\ Cardinality(Busy) \in Nat
      BY <2>1, FiniteThreads, FS_RemoveElement, FS_CardinalityType DEF Busy
    <2>4. QED
      BY <2>1, <2>2, <2>3, RoomTypes DEF Room
  <1>16. ASSUME NEW t \in Threads, NotifyOne(t)
        PROVE  Busy' \subseteq Busy /\ Len(pool') <= Len(pool) /\ vacant' <= vacant
    BY <1>0, <1>16 DEF Busy, Goto, NotifyOne
  <1>17. ASSUME NEW a \in Adders, Connect(a)
        PROVE  Busy' \subseteq Busy /\ Len(pool') <= Len(pool) /\ vacant' <= vacant
    BY <1>0, <1>17 DEF Busy, Goto, watcherVars, Connect
  <1>18. ASSUME NEW a \in Adders, ConnectFail(a)
        PROVE  Busy' \subseteq Busy /\ Len(pool') <= Len(pool) /\ vacant' <= vacant
    BY <1>0, <1>18 DEF Busy, Goto, watcherVars, ConnectFail
  <1>19. ASSUME WatchTop
        PROVE  Busy' \subseteq Busy /\ Len(pool') <= Len(pool) /\ vacant' <= vacant
    BY <1>0, <1>19 DEF Busy, WatchTop
  <1>20. ASSUME WatchLock
        PROVE  Busy' \subseteq Busy /\ Len(pool') <= Len(pool) /\ vacant' <= vacant
    BY <1>0, <1>20 DEF Busy, WatchLock
  <1>21. ASSUME WatchLockTimeout
        PROVE  Busy' \subseteq Busy /\ Len(pool') <= Len(pool) /\ vacant' <= vacant
    BY <1>0, <1>21 DEF Busy, WatchLockTimeout
  <1>22. ASSUME WatchScan
        PROVE  Busy' \subseteq Busy /\ Len(pool') <= Len(pool) /\ vacant' <= vacant
    BY <1>0, <1>22, Scanned DEF Busy, WatchScan
  <1>23. ASSUME WatchUnlock
        PROVE  Room'
    <2>1. Busy' = Busy /\ Busy \subseteq Clients
      BY <1>23 DEF Shape, TypeOK, Phases, AdderPhase, Threads, Busy, WatchUnlock, Unlock
    <2>2. Cardinality(Busy) <= Cardinality(Clients) /\ Cardinality(Busy) \in Nat /\ Cardinality(Clients) \in Nat
      BY <2>1, PoolAssumption, FS_Subset, FS_CardinalityType
    <2>3. Len(pool) \in Nat /\ cursor = Len(pool) + 1
      BY <1>23, LenProperties
         DEF Shape, TypeOK, Phases, WatcherPhase, WatchUnlock, Unlock
    <2>4. pool' = pool /\ vacant' = IF PoolSize > Len(pool) THEN PoolSize - Len(pool) ELSE 0
      BY <1>23, <2>3 DEF WatchUnlock, Unlock
    <2>5. CASE PoolSize > Len(pool)
      BY <2>1, <2>2, <2>3, <2>4, <2>5, RoomTypes DEF Room
    <2>6. CASE ~(PoolSize > Len(pool))
      BY <2>1, <2>2, <2>3, <2>4, <2>6, RoomTypes DEF Room
    <2>7. QED
      BY <2>5, <2>6
  <1>24. ASSUME WatchRefill
        PROVE  Room'
    <2>1. PICK batch \in SUBSET Adders :
            /\ Cardinality(batch) = Attempts(Strategy, vacant, delay)
            /\ pc' = [t \in Threads |-> IF t \in batch THEN "connect" ELSE pc[t]]
      BY <1>24 DEF WatchRefill
    <2>2. Cardinality(batch) <= vacant
      BY <1>24, <2>1, AttemptsBound, PoolAssumption
         DEF Shape, TypeOK, Phases, WatcherPhase, WatchRefill
    <2>3. Busy' \subseteq Busy \cup batch
      BY <1>24, <2>1 DEF Shape, TypeOK, Threads, Busy, WatchRefill
    <2>4. /\ Cardinality(Busy') <= Cardinality(Busy) + Cardinality(batch)
          /\ Cardinality(Busy) \in Nat /\ Cardinality(Busy') \in Nat /\ Cardinality(batch) \in Nat
      <3>1. IsFiniteSet(Busy) /\ IsFiniteSet(batch)
        BY FiniteThreads, PoolAssumption, FS_Subset DEF Busy
      <3>2. /\ IsFiniteSet(Busy \cup batch) /\ IsFiniteSet(Busy \cap batch)
            /\ Cardinality(Busy \cup batch)
                 = Cardinality(Busy) + Cardinality(batch) - Cardinality(Busy \cap batch)
        BY <3>1, FS_Union, FS_Intersection
      <3>3. QED
        BY <2>3, <3>1, <3>2, FS_Subset, FS_CardinalityType
    <2>5. vacant' = 0 /\ pool' = pool /\ Len(pool) \in Nat
      BY <1>24, LenProperties DEF Shape, TypeOK, WatchRefill
    <2>6. QED
      BY <2>2, <2>4, <2>5, RoomTypes DEF Room
  <1>25. ASSUME WatchBackoff
        PROVE  Busy' \subseteq Busy /\ Len(pool') <= Len(pool) /\ vacant' <= vacant
    BY <1>0, <1>25 DEF Busy, WatchBackoff
  <1>26. ASSUME WatchJoin
        PROVE  Busy' \subseteq Busy /\ Len(pool') <= Len(pool) /\ vacant' <= vacant
    BY <1>0, <1>26 DEF Busy, WatchJoin
  <1>27. ASSUME WatchSleep
        PROVE  Busy' \subseteq Busy /\ Len(pool') <= Len(pool) /\ vacant' <= vacant
    BY <1>0, <1>27 DEF Busy, WatchSleep
  <1>28. ASSUME Destroy
        PROVE  Busy' \subseteq Busy /\ Len(pool') <= Len(pool) /\ vacant' <= vacant
    BY <1>0, <1>28 DEF Busy, watcherVars, Destroy
  <1>29. ASSUME Destroyed
        PROVE  Busy' \subseteq Busy /\ Len(pool') <= Len(pool) /\ vacant' <= vacant
    BY <1>0, <1>29, EmptySeq DEF Busy, watcherVars, Destroyed
  <1>30. ASSUME Gone
        PROVE  Busy' \subseteq Busy /\ Len(pool') <= Len(pool) /\ vacant' <= vacant
    BY <1>0, <1>30 DEF Busy, Gone, vars
  <1>31. ASSUME Tick
        PROVE  Busy' \subseteq Busy /\ Len(pool') <= Len(pool) /\ vacant' <= vacant
    <2>1. Busy' \subseteq Busy /\ vacant' <= vacant
      BY <1>31 DEF Shape, TypeOK, Busy, Tick
    <2>2. Len(pool) \in Nat /\ DOMAIN pool = 1..Len(pool)
      BY LenProperties DEF Shape, TypeOK
    <2>3. DOMAIN pool' = 1..Len(pool) /\ pool' \in Seq(Entry)
      BY <1>31, <2>2 DEF Shape, TypeOK, Tick
    <2>4. Len(pool') = Len(pool)
      BY <2>2, <2>3, LenProperties
    <2>5. QED
      BY <2>1, <2>2, <2>4
  <1>32. ASSUME UNCHANGED vars
        PROVE  Busy' \subseteq Busy /\ Len(pool') <= Len(pool) /\ vacant' <= vacant
    BY <1>0, <1>32 DEF Busy, vars
  <1>33. QED
    BY RoomKept, <1>1, <1>2, <1>3, <1>4, <1>5, <1>6, <1>7, <1>8, <1>9, <1>10,
       <1>11, <1>12, <1>13, <1>14, <1>15, <1>16, <1>17, <1>18, <1>19, <1>20,
       <1>21, <1>22, <1>23, <1>24, <1>25, <1>26, <1>27, <1>28, <1>29, <1>30,
       <1>31, <1>32
       DEF Next, Client, Returning, Watch

\* The pool's size plus one session per client bounds the connections, for
\* any number of clients, any size and both strategies.
THEOREM BoundedConnections == Spec => []ConnectionBound
  <1>1. Init => Room
    <2> SUFFICES ASSUME Init PROVE Room
      OBVIOUS
    <2>1. Busy = {} /\ Len(pool) = 0 /\ vacant = 0
      BY EmptySeq DEF Init, Busy
    <2>2. QED
      BY <2>1, FS_EmptySet, PoolAssumption, FS_CardinalityType DEF Room
  <1>2. Shape /\ Shape' /\ Room /\ [Next]_vars => Room'
    BY RoomStep
  <1>3. Shape /\ Room => ConnectionBound
    <2> SUFFICES ASSUME Shape, Room PROVE ConnectionBound
      OBVIOUS
    <2> DEFINE owners == {t \in Threads : hand[t] # NoSession}
    <2>1. owners \subseteq Busy /\ IsFiniteSet(Busy)
      BY FiniteThreads DEF Busy
    <2>2. Cardinality(owners) <= Cardinality(Busy) /\ Cardinality(owners) \in Nat /\ Cardinality(Busy) \in Nat
      BY <2>1, FS_Subset, FS_CardinalityType
    <2>3. Len(pool) \in Nat
      BY LenProperties DEF Shape, TypeOK
    <2>4. QED
      BY <2>2, <2>3, RoomTypes DEF Room, ConnectionBound
  <1>4. QED
    BY <1>1, <1>2, <1>3, ShapeInvariant, PTL DEF Spec

\* A step that puts nobody to sleep, turns nobody away and appends nothing
\* loses no wake-up.
LEMMA WakeupKept ==
    ASSUME Shape, Shape', NoLostWakeup,
           Asleep' \subseteq Asleep, Heading \subseteq Heading', Len(pool') <= Len(pool)
    PROVE  NoLostWakeup'
  <1>1. Cardinality(Heading) <= Cardinality(Heading') /\ Cardinality(Heading) \in Nat /\ Cardinality(Heading') \in Nat
    <2>1. IsFiniteSet(Heading) /\ IsFiniteSet(Heading')
      BY FiniteThreads DEF Heading
    <2>2. QED
      BY <2>1, FS_Subset, FS_CardinalityType
  <1>2. Len(pool) \in Nat /\ Len(pool') \in Nat
    BY LenProperties DEF Shape, TypeOK
  <1>3. QED
    BY <1>1, <1>2 DEF NoLostWakeup

\* No step loses a wake-up: one notify_one() follows each emplace_back().
LEMMA WakeupStep ==
    ASSUME Shape, Shape', NoLostWakeup, [Next]_vars
    PROVE  NoLostWakeup'
  <1>0. /\ pc \in [Threads -> Labels]
        /\ hand \in [Threads -> Sessions \cup {NoSession}]
        /\ Len(pool) \in Nat /\ vacant \in Nat
        /\ Clients \subseteq Threads /\ Adders \subseteq Threads
    BY StepTypes
  <1>1. ASSUME NEW c \in Clients, CallGet(c)
        PROVE  Asleep' \subseteq Asleep /\ Heading \subseteq Heading' /\ Len(pool') <= Len(pool)
    BY <1>0, <1>1 DEF Asleep, Heading, Goto, CallGet, Call
  <1>2. ASSUME NEW c \in Clients, CallIsConnected(c)
        PROVE  Asleep' \subseteq Asleep /\ Heading \subseteq Heading' /\ Len(pool') <= Len(pool)
    BY <1>0, <1>2 DEF Asleep, Heading, Goto, CallIsConnected, Call
  <1>3. ASSUME NEW c \in Clients, CallReturn(c)
        PROVE  Asleep' \subseteq Asleep /\ Heading \subseteq Heading' /\ Len(pool') <= Len(pool)
    BY <1>0, <1>3 DEF Asleep, Heading, Goto, CallReturn
  <1>4. ASSUME NEW c \in Clients, Lock(c)
        PROVE  Asleep' \subseteq Asleep /\ Heading \subseteq Heading' /\ Len(pool') <= Len(pool)
    BY <1>0, <1>4 DEF Asleep, Heading, Goto, Lock
  <1>5. ASSUME NEW c \in Clients, LockTimeout(c)
        PROVE  Asleep' \subseteq Asleep /\ Heading \subseteq Heading' /\ Len(pool') <= Len(pool)
    BY <1>0, <1>5 DEF Asleep, Heading, Goto, LockTimeout, Fail
  <1>6. ASSUME NEW c \in Clients, Found(c)
        PROVE  NoLostWakeup'
    <2> SUFFICES ASSUME Probers = {}, Asleep' # {}
                 PROVE  Len(pool') <= Cardinality(Heading')
      BY DEF NoLostWakeup
    <2>1. op[c] # "is_connected"
      BY <1>6 DEF Shape, Phases, ClientPhase
    <2>2. Len(pool') = Len(pool) - 1 /\ Len(pool) \in Nat
      BY <1>6, <2>1, HeadTailProperties, LenProperties DEF Shape, TypeOK, Found
    <2>3. Heading' = Heading \ {c} /\ c \in Heading /\ Asleep' = Asleep
      BY <1>0, <1>6 DEF Heading, Asleep, Goto, Found
    <2>4. Cardinality(Heading') = Cardinality(Heading) - 1 /\ Cardinality(Heading) \in Nat
      BY <2>3, FiniteThreads, FS_RemoveElement, FS_CardinalityType DEF Heading
    <2>5. QED
      BY <2>2, <2>3, <2>4 DEF NoLostWakeup
  <1>7. ASSUME NEW c \in Clients, NotFound(c)
        PROVE  NoLostWakeup'
    <2>1. Len(pool') = 0
      BY <1>7, EmptySeq DEF NotFound, Fail
    <2>2. Cardinality(Heading') \in Nat
      BY FiniteThreads DEF Heading
    <2>3. QED
      BY <2>1, <2>2 DEF NoLostWakeup
  <1>8. ASSUME NEW c \in Clients, Sleep(c)
        PROVE  NoLostWakeup'
    <2>1. Len(pool') = 0
      BY <1>8, EmptySeq DEF Sleep
    <2>2. Cardinality(Heading') \in Nat
      BY FiniteThreads DEF Heading
    <2>3. QED
      BY <2>1, <2>2 DEF NoLostWakeup
  <1>9. ASSUME NEW c \in Clients, Wake(c)
        PROVE  Asleep' \subseteq Asleep /\ Heading \subseteq Heading' /\ Len(pool') <= Len(pool)
    BY <1>0, <1>9 DEF Asleep, Heading, Goto, Wake
  <1>10. ASSUME NEW c \in Clients, Relock(c)
        PROVE  Asleep' \subseteq Asleep /\ Heading \subseteq Heading' /\ Len(pool') <= Len(pool)
    BY <1>0, <1>10 DEF Asleep, Heading, Goto, Relock
  <1>11. ASSUME NEW c \in Clients, Discard(c)
        PROVE  Asleep' \subseteq Asleep /\ Heading \subseteq Heading' /\ Len(pool') <= Len(pool)
    BY <1>0, <1>11 DEF Asleep, Heading, Goto, Discard
  <1>12. ASSUME NEW c \in Clients, Break(c)
        PROVE  Asleep' \subseteq Asleep /\ Heading \subseteq Heading' /\ Len(pool') <= Len(pool)
    BY <1>0, <1>12 DEF Asleep, Heading, Goto, Break
  <1>13. ASSUME NEW t \in Threads, ReturnTimeout(t)
        PROVE  Asleep' \subseteq Asleep /\ Heading \subseteq Heading' /\ Len(pool') <= Len(pool)
    BY <1>0, <1>13 DEF Asleep, Heading, Goto, ReturnTimeout
  <1>14. ASSUME NEW t \in Threads, ReturnLock(t)
        PROVE  Asleep' \subseteq Asleep /\ Heading \subseteq Heading' /\ Len(pool') <= Len(pool)
    BY <1>0, <1>14 DEF Asleep, Heading, Goto, ReturnLock
  <1>15. ASSUME NEW t \in Threads, AppendSession(t)
        PROVE  NoLostWakeup'
    <2>1. Len(pool') = Len(pool) + 1 /\ Len(pool) \in Nat
      BY <1>15, Appended
    <2>2. Heading' = Heading \cup {t} /\ t \notin Heading /\ Asleep' = Asleep
      BY <1>0, <1>15 DEF Heading, Asleep, Goto, AppendSession
    <2>3. Cardinality(Heading') = Cardinality(Heading) + 1 /\ Cardinality(Heading) \in Nat
      BY <2>2, FiniteThreads, FS_AddElement, FS_CardinalityType DEF Heading
    <2>4. QED
      BY <2>1, <2>2, <2>3 DEF NoLostWakeup
  <1>16. ASSUME NEW t \in Threads, NotifyOne(t)
        PROVE  NoLostWakeup'
    <2>1. pool' = pool /\ pc[t] = "notify"
      BY <1>16 DEF NotifyOne
    <2>2. CASE Asleep = {}
      <3>1. Asleep' = {}
        BY <1>16, <2>2 DEF Shape, TypeOK, Threads, Asleep, Goto, NotifyOne
      <3>2. QED
        BY <3>1 DEF NoLostWakeup
    <2>3. CASE Asleep # {}
      <3>1. PICK c \in Asleep : pc' = [pc EXCEPT ![t] = "idle", ![c] = "woken"]
        BY <1>16, <2>3 DEF Asleep, NotifyOne
      <3>2. c \in Threads /\ pc[c] = "sleep" /\ c # t
        BY <2>1 DEF Asleep, Threads
      <3>3. Heading' = (Heading \ {t}) \cup {c} /\ t \in Heading /\ c \notin Heading \ {t}
        BY <2>1, <3>1, <3>2 DEF Shape, TypeOK, Heading
      <3>4. Cardinality(Heading') = Cardinality(Heading)
        <4>1. IsFiniteSet(Heading) /\ Cardinality(Heading) \in Nat
          BY FiniteThreads DEF Heading
        <4>2. IsFiniteSet(Heading \ {t}) /\ Cardinality(Heading \ {t}) = Cardinality(Heading) - 1
          BY <3>3, <4>1, FS_RemoveElement
        <4>3. Cardinality((Heading \ {t}) \cup {c}) = Cardinality(Heading \ {t}) + 1
          BY <3>3, <4>2, FS_AddElement
        <4>4. QED
          BY <3>3, <4>1, <4>2, <4>3
      <3>5. Asleep # {}
        BY <2>3
      <3>6. QED
        BY <2>1, <3>4, <3>5 DEF NoLostWakeup
    <2>4. QED
      BY <2>2, <2>3
  <1>17. ASSUME NEW a \in Adders, Connect(a)
        PROVE  Asleep' \subseteq Asleep /\ Heading \subseteq Heading' /\ Len(pool') <= Len(pool)
    BY <1>0, <1>17 DEF Asleep, Heading, Goto, Connect
  <1>18. ASSUME NEW a \in Adders, ConnectFail(a)
        PROVE  Asleep' \subseteq Asleep /\ Heading \subseteq Heading' /\ Len(pool') <= Len(pool)
    BY <1>0, <1>18 DEF Asleep, Heading, Goto, ConnectFail
  <1>19. ASSUME WatchTop
        PROVE  Asleep' \subseteq Asleep /\ Heading \subseteq Heading' /\ Len(pool') <= Len(pool)
    BY <1>0, <1>19 DEF Asleep, Heading, WatchTop
  <1>20. ASSUME WatchLock
        PROVE  Asleep' \subseteq Asleep /\ Heading \subseteq Heading' /\ Len(pool') <= Len(pool)
    BY <1>0, <1>20 DEF Asleep, Heading, WatchLock
  <1>21. ASSUME WatchLockTimeout
        PROVE  Asleep' \subseteq Asleep /\ Heading \subseteq Heading' /\ Len(pool') <= Len(pool)
    BY <1>0, <1>21 DEF Asleep, Heading, WatchLockTimeout
  <1>22. ASSUME WatchScan
        PROVE  Asleep' \subseteq Asleep /\ Heading \subseteq Heading' /\ Len(pool') <= Len(pool)
    BY <1>22, Scanned DEF Asleep, Heading, WatchScan
  <1>23. ASSUME WatchUnlock
        PROVE  Asleep' \subseteq Asleep /\ Heading \subseteq Heading' /\ Len(pool') <= Len(pool)
    BY <1>0, <1>23 DEF Asleep, Heading, WatchUnlock, Unlock
  <1>24. ASSUME WatchRefill
        PROVE  Asleep' \subseteq Asleep /\ Heading \subseteq Heading' /\ Len(pool') <= Len(pool)
    BY <1>0, <1>24 DEF Asleep, Heading, Shape, Phases, AdderPhase, WatchRefill
  <1>25. ASSUME WatchBackoff
        PROVE  Asleep' \subseteq Asleep /\ Heading \subseteq Heading' /\ Len(pool') <= Len(pool)
    BY <1>0, <1>25 DEF Asleep, Heading, WatchBackoff
  <1>26. ASSUME WatchJoin
        PROVE  Asleep' \subseteq Asleep /\ Heading \subseteq Heading' /\ Len(pool') <= Len(pool)
    BY <1>0, <1>26 DEF Asleep, Heading, WatchJoin
  <1>27. ASSUME WatchSleep
        PROVE  Asleep' \subseteq Asleep /\ Heading \subseteq Heading' /\ Len(pool') <= Len(pool)
    BY <1>0, <1>27 DEF Asleep, Heading, WatchSleep
  <1>28. ASSUME Destroy
        PROVE  Asleep' \subseteq Asleep /\ Heading \subseteq Heading' /\ Len(pool') <= Len(pool)
    BY <1>0, <1>28 DEF Asleep, Heading, Destroy
  <1>29. ASSUME Destroyed
        PROVE  NoLostWakeup'
    <2>1. Len(pool') = 0
      BY <1>29, EmptySeq DEF Destroyed
    <2>2. Cardinality(Heading') \in Nat
      BY FiniteThreads DEF Heading
    <2>3. QED
      BY <2>1, <2>2 DEF NoLostWakeup
  <1>30. ASSUME Gone
        PROVE  Asleep' \subseteq Asleep /\ Heading \subseteq Heading' /\ Len(pool') <= Len(pool)
    BY <1>0, <1>30 DEF Asleep, Heading, Gone, vars
  <1>31. ASSUME Tick
        PROVE  Asleep' \subseteq Asleep /\ Heading \subseteq Heading' /\ Len(pool') <= Len(pool)
    <2>1. Asleep' \subseteq Asleep /\ Heading \subseteq Heading'
      BY <1>31 DEF Asleep, Heading, Tick
    <2>2. Len(pool) \in Nat /\ DOMAIN pool = 1..Len(pool)
      BY LenProperties DEF Shape, TypeOK
    <2>3. DOMAIN pool' = 1..Len(pool) /\ pool' \in Seq(Entry)
      BY <1>31, <2>2 DEF Shape, TypeOK, Tick
    <2>4. Len(pool') = Len(pool)
      BY <2>2, <2>3, LenProperties
    <2>5. QED
      BY <2>1, <2>2, <2>4
  <1>32. ASSUME UNCHANGED vars
        PROVE  Asleep' \subseteq Asleep /\ Heading \subseteq Heading' /\ Len(pool') <= Len(pool)
    BY <1>0, <1>32 DEF Asleep, Heading, vars
  <1>33. QED
    BY WakeupKept, <1>1, <1>2, <1>3, <1>4, <1>5, <1>6, <1>7, <1>8, <1>9, <1>10,
       <1>11, <1>12, <1>13, <1>14, <1>15, <1>16, <1>17, <1>18, <1>19, <1>20,
       <1>21, <1>22, <1>23, <1>24, <1>25, <1>26, <1>27, <1>28, <1>29, <1>30,
       <1>31, <1>32
       DEF Next, Client, Returning, Watch

\* With any number of getters and adders, a getter never sleeps beside a
\* session that nobody is heading for, unless someone calls is_connected().
THEOREM WakeupsNotLost == Spec => []NoLostWakeup
  <1>1. Init => NoLostWakeup
    BY DEF Init, NoLostWakeup, Asleep, Threads
  <1>2. Shape /\ Shape' /\ NoLostWakeup /\ [Next]_vars => NoLostWakeup'
    BY WakeupStep
  <1>3. QED
    BY <1>1, <1>2, ShapeInvariant, PTL DEF Spec

=============================================================================
