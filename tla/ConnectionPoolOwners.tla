------------------------ MODULE ConnectionPoolOwners ------------------------
(***************************************************************************)
(* OneOwner and OldestFirst hold for every number of clients, every size   *)
(* and both strategies, and the pool implements SessionPool.  All rest on  *)
(* Shape (ConnectionPoolProofs).                                           *)
(*                                                                         *)
(* OneOwner is not inductive: return_session() looks at is_open() before   *)
(* it waits for the mutex and not again when it appends, and a connector   *)
(* must not give out a stream the model still counts as closed.  Owned     *)
(* adds what rules both out.                                               *)
(***************************************************************************)
EXTENDS ConnectionPoolProofs, PoolAsSet

Returns == {"return", "append"}

Owned ==
    /\ OneOwner
    /\ \A s \in closed : \E c \in Clients : hand[c] = s
    /\ \A t \in Threads : pc[t] \in Returns => hand[t] \notin closed

\* The types the steps below rely on.
LEMMA OwnerTypes ==
    ASSUME Shape
    PROVE  /\ pc \in [Threads -> Labels]
           /\ hand \in [Threads -> Sessions \cup {NoSession}]
           /\ pool \in Seq(Entry) /\ Len(pool) \in Nat /\ DOMAIN pool = 1..Len(pool)
           /\ \A i \in 1..Len(pool) : /\ pool[i].session \in Sessions
                                      /\ pool[i].age \in 0..MaxAge
           /\ closed \subseteq Sessions /\ NoSession \notin Sessions
           /\ Clients \subseteq Threads /\ Adders \subseteq Threads
           /\ Clients \cap Adders = {}
  <1>1. pool \in Seq(Entry)
    BY DEF Shape, TypeOK
  <1>2. Len(pool) \in Nat /\ DOMAIN pool = 1..Len(pool) /\ pool \in [1..Len(pool) -> Entry]
    BY <1>1, LenProperties
  <1>3. \A i \in 1..Len(pool) : pool[i].session \in Sessions /\ pool[i].age \in 0..MaxAge
    BY <1>2 DEF Entry
  <1>4. QED
    BY <1>1, <1>2, <1>3, PoolAssumption DEF Shape, TypeOK, Threads

\* get_session() pops the front: the others move up.
LEMMA Popped ==
    ASSUME Shape, pool # <<>>, pool' = Tail(pool)
    PROVE  /\ Len(pool) \in Nat \ {0} /\ Head(pool) = pool[1]
           /\ DOMAIN pool' = 1..Len(pool) - 1
           /\ \A i \in 1..Len(pool) - 1 : pool'[i] = pool[i + 1]
  <1>1. pool \in Seq(Entry) /\ Len(pool) \in Nat \ {0}
    BY OwnerTypes, EmptySeq
  <1>2. /\ pool' \in Seq(Entry) /\ Len(pool') = Len(pool) - 1
        /\ \A i \in 1..Len(pool') : pool'[i] = pool[i + 1]
    BY <1>1, HeadTailProperties
  <1>3. DOMAIN pool' = 1..Len(pool')
    BY <1>2, LenProperties
  <1>4. Head(pool) = pool[1]
    BY <1>1
  <1>5. QED
    BY <1>1, <1>2, <1>3, <1>4

\* return_session() appends an existing, open session; the others stay.
LEMMA Pushed ==
    ASSUME Shape, NEW t \in Threads, AppendSession(t)
    PROVE  /\ hand[t] \in Sessions
           /\ Len(pool) \in Nat /\ DOMAIN pool' = 1..Len(pool) + 1
           /\ \A i \in 1..Len(pool) : pool'[i] = pool[i]
           /\ pool'[Len(pool) + 1].session = hand[t]
           /\ pool'[Len(pool) + 1].age = 0
  <1>1. hand[t] # NoSession
    BY DEF Shape, Phases, AdderPhase, ClientPhase, Threads, AppendSession
  <1>2. hand[t] \in Sessions
    BY <1>1, OwnerTypes
  <1>3. [age |-> 0, session |-> hand[t]] \in Entry
    BY <1>2, PoolAssumption DEF Entry
  <1>4. /\ pool' = Append(pool, [age |-> 0, session |-> hand[t]])
        /\ pool \in Seq(Entry)
    BY OwnerTypes DEF AppendSession
  <1>5. /\ pool' \in Seq(Entry) /\ Len(pool') = Len(pool) + 1
        /\ \A i \in 1..Len(pool) : pool'[i] = pool[i]
        /\ pool'[Len(pool) + 1] = [age |-> 0, session |-> hand[t]]
    BY <1>3, <1>4, AppendProperties
  <1>6. DOMAIN pool' = 1..Len(pool')
    BY <1>5, LenProperties
  <1>7. QED
    BY <1>2, <1>5, <1>6, OwnerTypes

\* The scan erases the session at pool_it or leaves the list alone.
LEMMA Erased ==
    ASSUME Shape, WatchScan
    PROVE  \/ pool' = pool
           \/ /\ cursor \in 1..Len(pool)
              /\ DOMAIN pool' = 1..Len(pool) - 1
              /\ \A i \in 1..Len(pool) - 1 :
                   pool'[i] = IF i < cursor THEN pool[i] ELSE pool[i + 1]
  <1>1. pool \in Seq(Entry) /\ Len(pool) \in Nat /\ cursor \in 1..Len(pool)
    BY OwnerTypes DEF Shape, TypeOK, WatchScan
  <1>2. pool' = pool \/ pool' = RemoveAt(pool, cursor)
    BY DEF WatchScan
  <1>3. CASE pool' = RemoveAt(pool, cursor)
    <2>1. /\ pool' \in Seq(Entry) /\ Len(pool') = Len(pool) - 1
          /\ \A i \in 1..Len(pool) - 1 :
                   pool'[i] = IF i < cursor THEN pool[i] ELSE pool[i + 1]
      BY <1>1, <1>3, RemoveAtFacts
    <2>2. DOMAIN pool' = 1..Len(pool')
      BY <2>1, LenProperties
    <2>3. QED
      BY <1>1, <2>1, <2>2
  <1>4. QED
    BY <1>2, <1>3

\* Time passes: every session keeps its place and ages by at most one.
LEMMA Aged ==
    ASSUME Shape, Tick
    PROVE  /\ DOMAIN pool' = 1..Len(pool)
           /\ \A i \in 1..Len(pool) :
                /\ pool'[i].session = pool[i].session
                /\ pool'[i].age = IF MaxAge <= pool[i].age + 1 THEN MaxAge
                                  ELSE pool[i].age + 1
  <1>1. DOMAIN pool' = 1..Len(pool)
    BY OwnerTypes DEF Tick
  <1>2. ASSUME NEW i \in 1..Len(pool)
        PROVE  /\ pool'[i].session = pool[i].session
               /\ pool'[i].age = IF MaxAge <= pool[i].age + 1 THEN MaxAge
                                 ELSE pool[i].age + 1
    <2>1. pool[i] \in Entry /\ pool[i].age \in Nat
      BY OwnerTypes, LenProperties, PoolAssumption
    <2>2. pool'[i] = [pool[i] EXCEPT !.age = Min({MaxAge, pool[i].age + 1})]
      BY OwnerTypes DEF Tick
    <2>3. /\ pool'[i].session = pool[i].session
          /\ pool'[i].age = Min({MaxAge, pool[i].age + 1})
      BY <2>1, <2>2 DEF Entry
    <2>4. QED
      BY <2>1, <2>3, MinOfTwo, PoolAssumption
  <1>3. QED
    BY <1>1, <1>2

\* A step that moves no session and sends nobody into return_session() keeps
\* the owners.
LEMMA OwnersKept ==
    ASSUME Owned, UNCHANGED <<hand, closed, pool>>,
           \A t \in Threads : pc'[t] \in Returns => pc[t] \in Returns
    PROVE  Owned'
  BY DEF Owned, OneOwner, Pooled

\* A step that takes sessions out of the list, or only lets them age, keeps
\* the owners.
LEMMA OwnersEvicted ==
    ASSUME Owned, UNCHANGED <<hand, closed, pc>>,
           \A i, j \in DOMAIN pool' : pool'[i].session = pool'[j].session => i = j,
           Pooled' \subseteq Pooled
    PROVE  Owned'
  BY DEF Owned, OneOwner

\* A client takes, loses or breaks its session, an adder drops the one it could
\* not return: nobody else's session changes hands.
LEMMA OwnersStep ==
    ASSUME Shape, Owned, [Next]_vars
    PROVE  Owned'
  <1>0. /\ pc \in [Threads -> Labels]
        /\ hand \in [Threads -> Sessions \cup {NoSession}]
        /\ closed \subseteq Sessions /\ NoSession \notin Sessions
        /\ Clients \subseteq Threads /\ Adders \subseteq Threads
        /\ Clients \cap Adders = {}
    BY OwnerTypes
  <1>u. \A i, j \in 1..Len(pool) : pool[i].session = pool[j].session => i = j
    BY OwnerTypes DEF Owned, OneOwner
  <1> DEFINE Quiet == /\ UNCHANGED <<hand, closed, pool>>
                      /\ \A t \in Threads : pc'[t] \in Returns => pc[t] \in Returns
  <1>1. ASSUME NEW c \in Clients,
               \/ CallGet(c) \/ CallIsConnected(c) \/ Lock(c) \/ LockTimeout(c)
               \/ NotFound(c) \/ Sleep(c) \/ Wake(c) \/ Relock(c)
        PROVE  Owned'
    <2>1. Quiet
      BY <1>0, <1>1 DEF Returns, Goto, CallGet, CallIsConnected, Call, Lock,
         LockTimeout, NotFound, Fail, Sleep, Wake, Relock
    <2>2. QED
      BY <2>1, OwnersKept
  <1>2. ASSUME NEW c \in Clients, CallReturn(c)
        PROVE  Owned'
    <2>1. /\ UNCHANGED <<hand, closed, pool>> /\ hand[c] \notin closed
          /\ \A t \in Threads : pc'[t] = IF t = c THEN "return" ELSE pc[t]
      BY <1>0, <1>2 DEF Goto, CallReturn
    <2>2. QED
      BY <2>1 DEF Owned, OneOwner, Pooled
  <1>3. ASSUME NEW c \in Clients, Found(c)
        PROVE  Owned'
    <2>1. \A t \in Threads : pc'[t] \in Returns => pc[t] \in Returns
      BY <1>0, <1>3 DEF Returns, Goto, Found
    <2>2. CASE op[c] = "is_connected"
      BY <1>3, <2>1, <2>2, OwnersKept DEF Found
    <2>3. CASE op[c] # "is_connected"
      <3>1. hand[c] = NoSession
        BY <1>0, <1>3, <2>3 DEF Shape, TypeOK, Phases, ClientPhase, InCall, Found
      <3>2. /\ pool # <<>> /\ pool' = Tail(pool) /\ closed' = closed
            /\ \A t \in Threads : hand'[t] = IF t = c THEN Head(pool).session ELSE hand[t]
        BY <1>0, <1>3, <2>3 DEF Found
      <3>3. /\ Len(pool) \in Nat \ {0} /\ Head(pool) = pool[1]
            /\ DOMAIN pool = 1..Len(pool) /\ DOMAIN pool' = 1..Len(pool) - 1
            /\ \A i \in 1..Len(pool) - 1 : pool'[i] = pool[i + 1]
        BY <3>2, Popped, OwnerTypes
      <3>4. \A i, j \in DOMAIN pool' : pool'[i].session = pool'[j].session => i = j
        <4> SUFFICES ASSUME NEW i \in 1..Len(pool) - 1, NEW j \in 1..Len(pool) - 1,
                            pool'[i].session = pool'[j].session
                     PROVE  i = j
          BY <3>3
        <4>1. pool[i + 1].session = pool[j + 1].session
          BY <3>3
        <4>2. i + 1 \in 1..Len(pool) /\ j + 1 \in 1..Len(pool)
          BY <3>3
        <4>3. QED
          BY <1>u, <4>1, <4>2
      <3>5. Pooled' \subseteq Pooled /\ Head(pool).session \in Pooled
        BY <3>3 DEF Pooled
      <3>6. Head(pool).session \notin Pooled'
        <4> SUFFICES ASSUME NEW i \in 1..Len(pool) - 1, pool'[i].session = pool[1].session
                     PROVE  FALSE
          BY <3>3 DEF Pooled
        <4>1. i + 1 \in 1..Len(pool) /\ 1 \in 1..Len(pool) /\ i + 1 # 1
          BY <3>3
        <4>2. QED
          BY <1>u, <3>3, <4>1
      <3>7. OneOwner'
        BY <3>2, <3>4, <3>5, <3>6 DEF Owned, OneOwner
      <3>8. \A s \in closed' : \E d \in Clients : hand'[d] = s
        BY <1>0, <3>1, <3>2 DEF Owned
      <3>9. \A t \in Threads : pc'[t] \in Returns => hand'[t] \notin closed'
        BY <2>1, <3>2, <3>5 DEF Owned, OneOwner
      <3>10. QED
        BY <3>7, <3>8, <3>9 DEF Owned
    <2>4. QED
      BY <2>2, <2>3
  <1>4. ASSUME NEW c \in Clients, Discard(c)
        PROVE  Owned'
    <2>1. /\ pc' = pc /\ pool' = pool /\ closed' = closed \ {hand[c]}
          /\ \A t \in Threads : hand'[t] = IF t = c THEN NoSession ELSE hand[t]
      BY <1>0, <1>4 DEF Discard
    <2>2. NoSession \notin Pooled
      BY <1>0, OwnerTypes DEF Pooled
    <2>3. OneOwner'
      BY <2>1, <2>2 DEF Owned, OneOwner, Pooled
    <2>4. \A s \in closed' : \E d \in Clients : hand'[d] = s
      BY <1>0, <2>1 DEF Owned
    <2>5. \A t \in Threads : pc'[t] \in Returns => hand'[t] \notin closed'
      BY <1>0, <2>1 DEF Owned
    <2>6. QED
      BY <2>3, <2>4, <2>5 DEF Owned
  <1>5. ASSUME NEW c \in Clients, Break(c)
        PROVE  Owned'
    <2>1. /\ pc' = pc /\ pool' = pool /\ hand' = hand
          /\ closed' = closed \cup {hand[c]} /\ pc[c] = "idle" /\ hand[c] # NoSession
      BY <1>5 DEF Break
    <2>2. OneOwner'
      BY <1>0, <2>1 DEF Owned, OneOwner, Pooled
    <2>3. \A t \in Threads : pc[t] \in Returns => t # c
      BY <2>1 DEF Returns
    <2>4. \A t \in Threads : pc[t] \in Returns => hand[t] # hand[c]
      BY <1>0, <2>1, <2>3 DEF Owned, OneOwner
    <2>5. QED
      BY <2>1, <2>2, <2>4 DEF Owned
  <1>6. ASSUME NEW t \in Threads, ReturnTimeout(t)
        PROVE  Owned'
    <2>1. /\ pool' = pool /\ closed' = closed /\ pc[t] \in Returns
          /\ \A u \in Threads : pc'[u] = IF u = t THEN "idle" ELSE pc[u]
          /\ \A u \in Threads : hand'[u] = IF u = t /\ t \in Adders THEN NoSession ELSE hand[u]
      BY <1>0, <1>6 DEF Returns, Goto, ReturnTimeout
    <2>2. NoSession \notin Pooled
      BY <1>0, OwnerTypes DEF Pooled
    <2>3. OneOwner'
      BY <2>1, <2>2 DEF Owned, OneOwner, Pooled
    <2>4. \A s \in closed' : \E d \in Clients : hand'[d] = s
      BY <1>0, <2>1 DEF Owned
    <2>5. \A u \in Threads : pc'[u] \in Returns => hand'[u] \notin closed'
      BY <1>0, <2>1 DEF Owned, Returns
    <2>6. QED
      BY <2>3, <2>4, <2>5 DEF Owned
  <1>7. ASSUME NEW t \in Threads, ReturnLock(t) \/ NotifyOne(t)
        PROVE  Owned'
    <2>1. Quiet
      BY <1>0, <1>7 DEF Returns, Goto, ReturnLock, NotifyOne
    <2>2. QED
      BY <2>1, OwnersKept
  <1>8. ASSUME NEW t \in Threads, AppendSession(t)
        PROVE  Owned'
    <2>1. /\ closed' = closed /\ pc[t] \in Returns
          /\ \A u \in Threads : pc'[u] = IF u = t THEN "notify" ELSE pc[u]
          /\ \A u \in Threads : hand'[u] = IF u = t THEN NoSession ELSE hand[u]
      BY <1>0, <1>8 DEF Returns, Goto, AppendSession
    <2>2. /\ hand[t] \in Sessions /\ Len(pool) \in Nat
          /\ DOMAIN pool = 1..Len(pool) /\ DOMAIN pool' = 1..Len(pool) + 1
          /\ \A i \in 1..Len(pool) : pool'[i].session = pool[i].session
          /\ pool'[Len(pool) + 1].session = hand[t]
      <3>1. \A i \in 1..Len(pool) : pool'[i] = pool[i]
        BY <1>8, Pushed
      <3>2. QED
        BY <1>8, <3>1, Pushed, OwnerTypes
    <2>3. \A i \in 1..Len(pool) : pool[i].session # hand[t]
      BY <2>2 DEF Owned, OneOwner, Pooled
    <2>4. \A i, j \in DOMAIN pool' : pool'[i].session = pool'[j].session => i = j
      <3> SUFFICES ASSUME NEW i \in 1..Len(pool) + 1, NEW j \in 1..Len(pool) + 1,
                          pool'[i].session = pool'[j].session
                   PROVE  i = j
        BY <2>2
      <3>1. CASE i \in 1..Len(pool) /\ j \in 1..Len(pool)
        BY <1>u, <2>2, <3>1
      <3>2. CASE i = Len(pool) + 1 \/ j = Len(pool) + 1
        BY <2>2, <2>3, <3>2
      <3>3. QED
        BY <2>2, <3>1, <3>2
    <2>5. Pooled' \subseteq Pooled \cup {hand[t]}
      BY <2>2 DEF Pooled
    <2>6. NoSession \notin Pooled /\ hand[t] \notin closed
      BY <1>0, <2>1, OwnerTypes DEF Pooled, Owned
    <2>7. OneOwner'
      BY <1>0, <2>1, <2>2, <2>4, <2>5, <2>6 DEF Owned, OneOwner
    <2>8. \A s \in closed' : \E d \in Clients : hand'[d] = s
      BY <1>0, <2>1, <2>6 DEF Owned
    <2>9. \A u \in Threads : pc'[u] \in Returns => hand'[u] \notin closed'
      BY <1>0, <2>1 DEF Owned, Returns
    <2>10. QED
      BY <2>7, <2>8, <2>9 DEF Owned
  <1>9. ASSUME NEW a \in Adders, Connect(a)
        PROVE  Owned'
    <2>1. PICK s \in Fresh : hand' = [hand EXCEPT ![a] = s]
      BY <1>9 DEF Connect
    <2>2. /\ s \in Sessions /\ s \notin Pooled /\ \A t \in Threads : hand[t] # s
      BY DEF Fresh
    <2>3. /\ pool' = pool /\ closed' = closed
          /\ \A u \in Threads : pc'[u] = IF u = a THEN "return" ELSE pc[u]
          /\ \A u \in Threads : hand'[u] = IF u = a THEN s ELSE hand[u]
      BY <1>0, <1>9, <2>1 DEF Goto, Connect
    <2>4. OneOwner'
      BY <2>2, <2>3 DEF Owned, OneOwner, Pooled
    <2>5. \A x \in closed' : \E d \in Clients : hand'[d] = x
      BY <1>0, <2>3 DEF Owned
    <2>6. s \notin closed
      BY <1>0, <2>2 DEF Owned
    <2>7. QED
      BY <2>3, <2>4, <2>5, <2>6 DEF Owned
  <1>10. ASSUME NEW a \in Adders, ConnectFail(a)
        PROVE  Owned'
    <2>1. Quiet
      BY <1>0, <1>10 DEF Returns, Goto, ConnectFail
    <2>2. QED
      BY <2>1, OwnersKept
  <1>11. ASSUME \/ WatchTop \/ WatchLock \/ WatchLockTimeout \/ WatchUnlock
                \/ WatchBackoff \/ WatchJoin \/ WatchSleep \/ Destroy \/ Gone
                \/ UNCHANGED vars
        PROVE  Owned'
    <2>1. Quiet
      BY <1>11 DEF WatchTop, WatchLock, WatchLockTimeout, WatchUnlock, Unlock,
         WatchBackoff, WatchJoin, WatchSleep, Destroy, Gone, vars
    <2>2. QED
      BY <2>1, OwnersKept
  <1>12. ASSUME WatchRefill
        PROVE  Owned'
    <2>1. Quiet
      BY <1>0, <1>12 DEF Returns, WatchRefill
    <2>2. QED
      BY <2>1, OwnersKept
  <1>13. ASSUME WatchScan
        PROVE  Owned'
    <2>1. UNCHANGED <<hand, closed, pc>>
      BY <1>13 DEF WatchScan
    <2>2. CASE pool' = pool
      BY <2>1, <2>2, OwnersKept
    <2>3. CASE pool' # pool
      <3>1. /\ cursor \in 1..Len(pool) /\ Len(pool) \in Nat /\ DOMAIN pool = 1..Len(pool)
            /\ DOMAIN pool' = 1..Len(pool) - 1
            /\ \A i \in 1..Len(pool) - 1 :
                 pool'[i] = IF i < cursor THEN pool[i] ELSE pool[i + 1]
        BY <1>13, <2>3, Erased, OwnerTypes
      <3>2. \A i, j \in DOMAIN pool' : pool'[i].session = pool'[j].session => i = j
        <4> DEFINE at(k) == IF k < cursor THEN k ELSE k + 1
        <4> SUFFICES ASSUME NEW i \in 1..Len(pool) - 1, NEW j \in 1..Len(pool) - 1,
                            pool'[i].session = pool'[j].session
                     PROVE  i = j
          BY <3>1
        <4>1. pool[at(i)].session = pool[at(j)].session
          BY <3>1
        <4>2. at(i) \in 1..Len(pool) /\ at(j) \in 1..Len(pool)
          BY <3>1
        <4>3. at(i) = at(j)
          <5> HIDE DEF at
          <5>1. QED
            BY <1>u, <4>1, <4>2
        <4>4. QED
          BY <3>1, <4>3
      <3>3. Pooled' \subseteq Pooled
        <4> SUFFICES ASSUME NEW s \in Pooled'
                     PROVE  s \in Pooled
          OBVIOUS
        <4>1. PICK i \in 1..Len(pool) - 1 : s = pool'[i].session
          BY <3>1 DEF Pooled
        <4>2. i \in 1..Len(pool) /\ i + 1 \in 1..Len(pool)
          BY <3>1
        <4>3. s = pool[i].session \/ s = pool[i + 1].session
          BY <3>1, <4>1
        <4>4. QED
          BY <3>1, <4>2, <4>3 DEF Pooled
      <3>4. QED
        BY <2>1, <3>2, <3>3, OwnersEvicted
    <2>4. QED
      BY <2>2, <2>3
  <1>14. ASSUME Destroyed
        PROVE  Owned'
    <2>1. UNCHANGED <<hand, closed, pc>> /\ pool' = <<>>
      BY <1>14 DEF Destroyed
    <2>2. DOMAIN pool' = {}
      BY <2>1
    <2>3. QED
      BY <2>1, <2>2, OwnersEvicted DEF Pooled
  <1>15. ASSUME Tick
        PROVE  Owned'
    <2>1. UNCHANGED <<hand, closed, pc>>
      BY <1>15 DEF Tick
    <2>2. /\ DOMAIN pool = 1..Len(pool) /\ DOMAIN pool' = 1..Len(pool)
          /\ \A i \in 1..Len(pool) : pool'[i].session = pool[i].session
      BY <1>15, Aged, OwnerTypes
    <2>3. \A i, j \in DOMAIN pool' : pool'[i].session = pool'[j].session => i = j
      BY <2>2 DEF Owned, OneOwner
    <2>4. Pooled' \subseteq Pooled
      BY <2>2 DEF Pooled
    <2>5. QED
      BY <2>1, <2>3, <2>4, OwnersEvicted
  <1>16. QED
    BY <1>1, <1>2, <1>3, <1>4, <1>5, <1>6, <1>7, <1>8, <1>9, <1>10, <1>11,
       <1>12, <1>13, <1>14, <1>15
       DEF Next, Client, Returning, Watch

\* A session never has two owners, and a closed one never enters the list, for
\* any number of clients, any size and both strategies.
THEOREM SingleOwner == Spec => []OneOwner
  <1>1. Init => Owned
    BY PoolAssumption DEF Init, Owned, OneOwner, Pooled, Returns
  <1>2. Shape /\ Owned /\ [Next]_vars => Owned'
    BY OwnersStep
  <1>3. Owned => OneOwner
    BY DEF Owned
  <1>4. QED
    BY <1>1, <1>2, <1>3, ShapeInvariant, PTL DEF Spec

\* The list stays ordered by age: it grows only at its back, with age 0, and
\* shrinks anywhere; time adds the same to all, up to MaxAge.
LEMMA OldestStep ==
    ASSUME Shape, OldestFirst, [Next]_vars
    PROVE  OldestFirst'
  <1>0. /\ Len(pool) \in Nat /\ DOMAIN pool = 1..Len(pool) /\ MaxAge \in Nat
        /\ \A i \in 1..Len(pool) : pool[i].age \in Nat
    BY OwnerTypes, PoolAssumption
  <1>o. \A i, j \in 1..Len(pool) : i <= j => pool[i].age >= pool[j].age
    BY <1>0 DEF OldestFirst
  <1>1. ASSUME pool' = pool
        PROVE  OldestFirst'
    BY <1>1 DEF OldestFirst
  <1>2. ASSUME NEW c \in Clients, Found(c)
        PROVE  OldestFirst'
    <2>1. CASE op[c] = "is_connected"
      BY <1>1, <1>2, <2>1 DEF Found
    <2>2. CASE op[c] # "is_connected"
      <3>1. /\ DOMAIN pool' = 1..Len(pool) - 1
            /\ \A i \in 1..Len(pool) - 1 : pool'[i] = pool[i + 1]
        BY <1>2, <2>2, Popped DEF Found
      <3>2. ASSUME NEW i \in 1..Len(pool) - 1, NEW j \in 1..Len(pool) - 1, i <= j
            PROVE  pool'[i].age >= pool'[j].age
        <4>1. i + 1 \in 1..Len(pool) /\ j + 1 \in 1..Len(pool) /\ i + 1 <= j + 1
          BY <1>0, <3>2
        <4>2. pool[i + 1].age >= pool[j + 1].age
          BY <1>o, <4>1
        <4>3. QED
          BY <3>1, <4>2
      <3>3. QED
        BY <3>1, <3>2 DEF OldestFirst
    <2>3. QED
      BY <2>1, <2>2
  <1>3. ASSUME NEW t \in Threads, AppendSession(t)
        PROVE  OldestFirst'
    <2>1. /\ DOMAIN pool' = 1..Len(pool) + 1
          /\ \A i \in 1..Len(pool) : pool'[i].age = pool[i].age
          /\ pool'[Len(pool) + 1].age = 0
      <3>1. \A i \in 1..Len(pool) : pool'[i] = pool[i]
        BY <1>3, Pushed
      <3>2. QED
        BY <1>3, <3>1, Pushed
    <2>2. ASSUME NEW i \in 1..Len(pool) + 1, NEW j \in 1..Len(pool) + 1, i <= j
          PROVE  pool'[i].age >= pool'[j].age
      <3>1. CASE j \in 1..Len(pool)
        <4>1. i \in 1..Len(pool)
          BY <1>0, <2>2, <3>1
        <4>2. QED
          BY <1>o, <2>1, <2>2, <3>1, <4>1
      <3>2. CASE j = Len(pool) + 1
        <4>1. pool'[i].age \in Nat
          BY <1>0, <2>1
        <4>2. QED
          BY <2>1, <3>2, <4>1
      <3>3. QED
        BY <1>0, <3>1, <3>2
    <2>3. QED
      BY <2>1, <2>2 DEF OldestFirst
  <1>4. ASSUME WatchScan
        PROVE  OldestFirst'
    <2>1. CASE pool' = pool
      BY <1>1, <2>1
    <2>2. CASE pool' # pool
      <3>1. /\ cursor \in 1..Len(pool) /\ DOMAIN pool' = 1..Len(pool) - 1
            /\ \A i \in 1..Len(pool) - 1 :
                 pool'[i] = IF i < cursor THEN pool[i] ELSE pool[i + 1]
        BY <1>4, <2>2, Erased
      <3>2. ASSUME NEW i \in 1..Len(pool) - 1, NEW j \in 1..Len(pool) - 1, i <= j
            PROVE  pool'[i].age >= pool'[j].age
        <4> DEFINE at(k) == IF k < cursor THEN k ELSE k + 1
        <4>1. at(i) \in 1..Len(pool) /\ at(j) \in 1..Len(pool) /\ at(i) <= at(j)
          BY <1>0, <3>1, <3>2
        <4>2. pool'[i] = pool[at(i)] /\ pool'[j] = pool[at(j)]
          BY <3>1
        <4> HIDE DEF at
        <4>3. QED
          BY <1>o, <4>1, <4>2
      <3>3. QED
        BY <3>1, <3>2 DEF OldestFirst
    <2>3. QED
      BY <2>1, <2>2
  <1>5. ASSUME Destroyed
        PROVE  OldestFirst'
    <2>1. DOMAIN pool' = {}
      BY <1>5 DEF Destroyed
    <2>2. QED
      BY <2>1 DEF OldestFirst
  <1>6. ASSUME Tick
        PROVE  OldestFirst'
    <2>1. /\ DOMAIN pool' = 1..Len(pool)
          /\ \A i \in 1..Len(pool) :
               pool'[i].age = IF MaxAge <= pool[i].age + 1 THEN MaxAge ELSE pool[i].age + 1
      BY <1>6, Aged
    <2>2. QED
      BY <1>0, <2>1 DEF OldestFirst
  <1>7. ASSUME NEW c \in Clients,
               \/ CallGet(c) \/ CallIsConnected(c) \/ CallReturn(c)
               \/ Lock(c) \/ LockTimeout(c) \/ NotFound(c) \/ Sleep(c)
               \/ Wake(c) \/ Relock(c) \/ Discard(c) \/ Break(c)
        PROVE  pool' = pool
    BY <1>7 DEF CallGet, CallIsConnected, Call, CallReturn, Lock, LockTimeout,
       NotFound, Fail, Sleep, Wake, Relock, Discard, Break
  <1>8. ASSUME NEW t \in Threads, ReturnTimeout(t) \/ ReturnLock(t) \/ NotifyOne(t)
        PROVE  pool' = pool
    BY <1>8 DEF ReturnTimeout, ReturnLock, NotifyOne
  <1>9. ASSUME NEW a \in Adders, Connect(a) \/ ConnectFail(a)
        PROVE  pool' = pool
    BY <1>9 DEF Connect, ConnectFail
  <1>10. ASSUME \/ WatchTop \/ WatchLock \/ WatchLockTimeout \/ WatchUnlock
                \/ WatchRefill \/ WatchBackoff \/ WatchJoin \/ WatchSleep
                \/ Destroy \/ Gone \/ UNCHANGED vars
        PROVE  pool' = pool
    BY <1>10 DEF WatchTop, WatchLock, WatchLockTimeout, WatchUnlock, Unlock,
       WatchRefill, WatchBackoff, WatchJoin, WatchSleep, Destroy, Gone, vars
  <1>11. QED
    BY <1>1, <1>2, <1>3, <1>4, <1>5, <1>6, <1>7, <1>8, <1>9, <1>10
       DEF Next, Client, Returning, Watch

\* get_session() always hands out the session that has idled longest.
THEOREM FrontIsOldest == Spec => []OldestFirst
  <1>1. Init => OldestFirst
    BY DEF Init, OldestFirst
  <1>2. Shape /\ OldestFirst /\ [Next]_vars => OldestFirst'
    BY OldestStep
  <1>3. QED
    BY <1>1, <1>2, ShapeInvariant, PTL DEF Spec

(***************************************************************************)
(* The refinement: every step of the pool is a step of SessionPool, or     *)
(* leaves what the clients see alone.                                      *)
(***************************************************************************)
CallMap == [c \in Clients |-> CallOf(c)]
OwnMap == [c \in Clients |-> hand[c]]

\* A client that is outside the pool is in no call.
LEMMA CallFacts ==
    ASSUME Shape, NEW c \in Clients
    PROVE  /\ c \in Threads /\ CallMap[c] = CallOf(c) /\ OwnMap[c] = hand[c]
           /\ pc[c] = "idle" => CallOf(c) = "none"
           /\ pc[c] \in InCall => CallOf(c) = op[c] /\ op[c] # "none"
           /\ pc[c] \in {"return", "append", "notify"} => CallOf(c) = "return"
  <1>1. op[c] # "none" <=> pc[c] \in InCall
    BY DEF Shape, Phases, ClientPhase
  <1>2. QED
    BY <1>1 DEF CallMap, OwnMap, CallOf, InCall, Threads

\* A step in which no client sees anything happen.
LEMMA Unseen ==
    ASSUME \A c \in Clients : CallOf(c)' = CallOf(c) /\ hand'[c] = hand[c],
           UNCHANGED <<ec, closed, life>>, Pooled' = Pooled
    PROVE  UNCHANGED Set!poolVars
  BY DEF Set!poolVars

\* A step in which one client begins or ends a call.
LEMMA CallChanges ==
    ASSUME NEW c \in Clients, NEW o, CallOf(c)' = o,
           \A x \in Clients : x # c => CallOf(x)' = CallOf(x)
    PROVE  CallMap' = [CallMap EXCEPT ![c] = o]
  BY DEF CallMap

\* A step in which one client gets or loses a session.
LEMMA OwnChanges ==
    ASSUME NEW c \in Clients, NEW s, hand'[c] = s,
           \A x \in Clients : x # c => hand'[x] = hand[x]
    PROVE  OwnMap' = [OwnMap EXCEPT ![c] = s]
  BY DEF OwnMap

\* The session get_session() pops was in the list, and no longer is.
LEMMA PooledPopped ==
    ASSUME Shape, Owned, pool # <<>>, pool' = Tail(pool)
    PROVE  /\ Head(pool).session \in Pooled
           /\ Pooled' = Pooled \ {Head(pool).session}
  <1>1. /\ Len(pool) \in Nat \ {0} /\ Head(pool) = pool[1]
        /\ DOMAIN pool = 1..Len(pool) /\ DOMAIN pool' = 1..Len(pool) - 1
        /\ \A i \in 1..Len(pool) - 1 : pool'[i] = pool[i + 1]
    BY Popped, OwnerTypes
  <1>2. \A i, j \in 1..Len(pool) : pool[i].session = pool[j].session => i = j
    BY <1>1 DEF Owned, OneOwner
  <1>3. ASSUME NEW s \in Pooled'
        PROVE  s \in Pooled /\ s # pool[1].session
    <2>1. PICK i \in 1..Len(pool) - 1 : s = pool'[i].session
      BY <1>1 DEF Pooled
    <2>2. i + 1 \in 1..Len(pool) /\ 1 \in 1..Len(pool) /\ i + 1 # 1
      BY <1>1
    <2>3. s = pool[i + 1].session
      BY <1>1, <2>1
    <2>4. QED
      BY <1>1, <1>2, <2>2, <2>3 DEF Pooled
  <1>4. ASSUME NEW s \in Pooled, s # pool[1].session
        PROVE  s \in Pooled'
    <2>1. PICK j \in 1..Len(pool) : s = pool[j].session
      BY <1>1 DEF Pooled
    <2>2. j - 1 \in 1..Len(pool) - 1 /\ (j - 1) + 1 = j
      BY <1>1, <1>4, <2>1
    <2>3. pool'[j - 1] = pool[j]
      BY <1>1, <2>2
    <2>4. QED
      BY <1>1, <2>1, <2>2, <2>3 DEF Pooled
  <1>5. Head(pool).session \in Pooled
    BY <1>1 DEF Pooled
  <1>6. QED
    BY <1>1, <1>3, <1>4, <1>5

\* return_session() adds its session to the list and loses none.
LEMMA PooledPushed ==
    ASSUME Shape, NEW t \in Threads, AppendSession(t)
    PROVE  Pooled' = Pooled \cup {hand[t]}
  <1>1. /\ Len(pool) \in Nat /\ DOMAIN pool = 1..Len(pool)
        /\ DOMAIN pool' = 1..Len(pool) + 1
        /\ \A i \in 1..Len(pool) : pool'[i] = pool[i]
        /\ pool'[Len(pool) + 1].session = hand[t]
    BY Pushed, OwnerTypes
  <1>2. ASSUME NEW s \in Pooled'
        PROVE  s \in Pooled \cup {hand[t]}
    <2>1. PICK i \in 1..Len(pool) + 1 : s = pool'[i].session
      BY <1>1 DEF Pooled
    <2>2. CASE i \in 1..Len(pool)
      BY <1>1, <2>1, <2>2 DEF Pooled
    <2>3. CASE i = Len(pool) + 1
      BY <1>1, <2>1, <2>3
    <2>4. QED
      BY <1>1, <2>2, <2>3
  <1>3. ASSUME NEW s \in Pooled
        PROVE  s \in Pooled'
    <2>1. PICK i \in 1..Len(pool) : s = pool[i].session
      BY <1>1 DEF Pooled
    <2>2. i \in 1..Len(pool) + 1 /\ s = pool'[i].session
      BY <1>1, <2>1
    <2>3. QED
      BY <1>1, <2>2 DEF Pooled
  <1>4. hand[t] \in Pooled'
    <2>1. Len(pool) + 1 \in DOMAIN pool'
      BY <1>1
    <2>2. QED
      BY <1>1, <2>1 DEF Pooled
  <1>5. QED
    BY <1>2, <1>3, <1>4

\* The scan takes one session out of the list, or none.
LEMMA PooledErased ==
    ASSUME Shape, Owned, WatchScan
    PROVE  \/ Pooled' = Pooled
           \/ \E s \in Pooled : Pooled' = Pooled \ {s}
  <1>1. CASE pool' = pool
    BY <1>1 DEF Pooled
  <1>2. CASE pool' # pool
    <2>1. /\ Len(pool) \in Nat /\ DOMAIN pool = 1..Len(pool)
          /\ cursor \in 1..Len(pool) /\ DOMAIN pool' = 1..Len(pool) - 1
          /\ \A i \in 1..Len(pool) - 1 :
               pool'[i] = IF i < cursor THEN pool[i] ELSE pool[i + 1]
      BY <1>2, Erased, OwnerTypes
    <2>2. \A i, j \in 1..Len(pool) : pool[i].session = pool[j].session => i = j
      BY <2>1 DEF Owned, OneOwner
    <2> DEFINE gone == pool[cursor].session
    <2>3. ASSUME NEW s \in Pooled'
          PROVE  s \in Pooled /\ s # gone
      <3>1. PICK i \in 1..Len(pool) - 1 : s = pool'[i].session
        BY <2>1 DEF Pooled
      <3>2. \E j \in 1..Len(pool) : s = pool[j].session /\ j # cursor
        <4>1. CASE i < cursor
          BY <2>1, <3>1, <4>1
        <4>2. CASE ~(i < cursor)
          <5>1. i + 1 \in 1..Len(pool) /\ i + 1 # cursor
            BY <2>1, <4>2
          <5>2. QED
            BY <2>1, <3>1, <4>2, <5>1
        <4>3. QED
          BY <4>1, <4>2
      <3>3. QED
        BY <2>1, <2>2, <3>2 DEF Pooled
    <2>4. ASSUME NEW s \in Pooled, s # gone
          PROVE  s \in Pooled'
      <3>1. PICK j \in 1..Len(pool) : s = pool[j].session /\ j # cursor
        BY <2>1, <2>4 DEF Pooled
      <3>2. CASE j < cursor
        <4>1. j \in 1..Len(pool) - 1 /\ s = pool'[j].session
          BY <2>1, <3>1, <3>2
        <4>2. QED
          BY <2>1, <4>1 DEF Pooled
      <3>3. CASE ~(j < cursor)
        <4>1. j - 1 \in 1..Len(pool) - 1 /\ ~(j - 1 < cursor) /\ (j - 1) + 1 = j
          BY <2>1, <3>1, <3>3
        <4>2. s = pool'[j - 1].session
          BY <2>1, <3>1, <4>1
        <4>3. QED
          BY <2>1, <4>1, <4>2 DEF Pooled
      <3>4. QED
        BY <3>2, <3>3
    <2>5. gone \in Pooled
      BY <2>1 DEF Pooled
    <2>6. Pooled' = Pooled \ {gone}
      BY <2>3, <2>4
    <2>7. QED
      BY <2>5, <2>6
  <1>3. QED
    BY <1>1, <1>2

\* Every step of the pool is a step of the set, or shows nothing.
LEMMA SetStep ==
    ASSUME Shape, Owned, [Next]_vars
    PROVE  [Set!PoolNext]_(Set!poolVars)
  <1>0. /\ pc \in [Threads -> Labels]
        /\ hand \in [Threads -> Sessions \cup {NoSession}]
        /\ op \in [Clients -> {"none", "get", "try", "is_connected"}]
        /\ Clients \subseteq Threads /\ Adders \subseteq Threads
        /\ Clients \cap Adders = {}
    BY OwnerTypes DEF Shape, TypeOK
  <1> DEFINE Hidden == /\ \A c \in Clients : CallOf(c)' = CallOf(c) /\ hand'[c] = hand[c]
                       /\ UNCHANGED <<ec, closed, life>> /\ Pooled' = Pooled
             Becomes(c, o) == CallMap' = [CallMap EXCEPT ![c] = o]
  <1>1. ASSUME NEW c \in Clients, NEW o \in {"get", "try", "is_connected"}, Call(c, o),
               o \in {"get", "try"} => hand[c] = NoSession
        PROVE  Set!Begin(c, o)
    <2>1. /\ life = "up" /\ CallMap[c] = "none" /\ OwnMap[c] = hand[c]
          /\ UNCHANGED <<ec, hand, closed, pool, life>>
      BY <1>1, CallFacts DEF Call
    <2>2. /\ CallOf(c)' = o
          /\ \A x \in Clients : x # c => CallOf(x)' = CallOf(x)
      BY <1>0, <1>1 DEF Call, Goto, CallOf
    <2>3. Becomes(c, o)
      BY <2>2, CallChanges
    <2>4. OwnMap' = OwnMap /\ Pooled' = Pooled
      BY <2>1 DEF OwnMap, Pooled
    <2>5. QED
      BY <1>1, <2>1, <2>3, <2>4 DEF Set!Begin, Set!Getters, CallMap, OwnMap
  <1>2. ASSUME NEW c \in Clients, CallReturn(c)
        PROVE  Set!Begin(c, "return")
    <2>1. /\ life = "up" /\ CallMap[c] = "none" /\ OwnMap[c] = hand[c]
          /\ hand[c] # NoSession /\ hand[c] \notin closed
          /\ UNCHANGED <<ec, hand, closed, pool, life>>
      BY <1>2, CallFacts DEF CallReturn
    <2>2. /\ CallOf(c)' = "return"
          /\ \A x \in Clients : x # c => CallOf(x)' = CallOf(x)
      BY <1>0, <1>2 DEF CallReturn, Goto, CallOf
    <2>3. Becomes(c, "return")
      BY <2>2, CallChanges
    <2>4. OwnMap' = OwnMap /\ Pooled' = Pooled
      BY <2>1 DEF OwnMap, Pooled
    <2>5. QED
      BY <2>1, <2>3, <2>4 DEF Set!Begin, Set!Getters, CallMap, OwnMap
  <1>3. ASSUME NEW c \in Clients, Lock(c) \/ Sleep(c) \/ Wake(c) \/ Relock(c)
        PROVE  Hidden
    <2>1. UNCHANGED <<op, ec, hand, closed, pool, life>>
      BY <1>3 DEF Lock, Sleep, Wake, Relock
    <2>2. PICK l \in InCall : pc[c] \in InCall /\ Goto(c, l)
      BY <1>3 DEF Lock, Sleep, Wake, Relock, InCall
    <2>3. \A x \in Clients : CallOf(x)' = CallOf(x)
      BY <1>0, <2>1, <2>2 DEF CallOf, Goto, InCall
    <2>4. QED
      BY <2>1, <2>3 DEF Pooled
  <1>4. ASSUME NEW c \in Clients, LockTimeout(c) \/ NotFound(c)
        PROVE  \E e \in {"timed_out", "not_found"} : Set!Fail(c, e)
    <2>1. PICK e \in {"timed_out", "not_found"} :
            Fail(c, e) /\ (e = "not_found" => pool = <<>>) /\ pc[c] \in InCall
      BY <1>4 DEF LockTimeout, NotFound, InCall
    <2>2. /\ CallMap[c] \notin {"none", "return"}
          /\ ec' = [ec EXCEPT ![c] = e] /\ UNCHANGED <<hand, closed, pool, life>>
      BY <1>0, <2>1, CallFacts DEF Fail
    <2>3. /\ CallOf(c)' = "none"
          /\ \A x \in Clients : x # c => CallOf(x)' = CallOf(x)
      BY <1>0, <2>1 DEF Fail, Goto, CallOf
    <2>4. Becomes(c, "none")
      BY <2>3, CallChanges
    <2>5. OwnMap' = OwnMap /\ Pooled' = Pooled
      BY <2>2 DEF OwnMap, Pooled
    <2>6. e = "not_found" => Pooled = {}
      BY <2>1 DEF Pooled
    <2>7. Set!Fail(c, e)
      BY <2>2, <2>4, <2>5, <2>6 DEF Set!Fail, CallMap, OwnMap
    <2>8. QED
      BY <2>7
  <1>5. ASSUME NEW c \in Clients, Found(c)
        PROVE  Set!Probe(c) \/ Set!Take(c)
    <2>1. /\ pc[c] \in InCall /\ pool # <<>> /\ UNCHANGED <<ec, closed, life>>
          /\ CallMap[c] = op[c] /\ op[c] \in {"get", "try", "is_connected"}
      BY <1>0, <1>5, CallFacts DEF Found, InCall
    <2>2. /\ CallOf(c)' = "none"
          /\ \A x \in Clients : x # c => CallOf(x)' = CallOf(x)
      BY <1>0, <1>5 DEF Found, Goto, CallOf
    <2>3. Becomes(c, "none")
      BY <2>2, CallChanges
    <2>4. CASE op[c] = "is_connected"
      <3>1. UNCHANGED <<hand, pool>>
        BY <1>5, <2>4 DEF Found
      <3>2. OwnMap' = OwnMap /\ Pooled' = Pooled
        BY <3>1 DEF OwnMap, Pooled
      <3>3. Pooled # {}
        <4>1. Len(pool) \in Nat \ {0} /\ DOMAIN pool = 1..Len(pool)
          BY <2>1, OwnerTypes, EmptySeq
        <4>2. pool[1].session \in Pooled
          BY <4>1 DEF Pooled
        <4>3. QED
          BY <4>2
      <3>4. QED
        BY <2>1, <2>3, <2>4, <3>2, <3>3 DEF Set!Probe, CallMap, OwnMap
    <2>5. CASE op[c] # "is_connected"
      <3> DEFINE s == Head(pool).session
      <3>1. hand' = [hand EXCEPT ![c] = s] /\ pool' = Tail(pool)
        BY <1>5, <2>5 DEF Found
      <3>2. s \in Pooled /\ Pooled' = Pooled \ {s}
        BY <2>1, <3>1, PooledPopped
      <3> HIDE DEF s
      <3>3. hand'[c] = s /\ \A x \in Clients : x # c => hand'[x] = hand[x]
        BY <1>0, <3>1
      <3>4. OwnMap' = [OwnMap EXCEPT ![c] = s]
        BY <3>3, OwnChanges
      <3>5. QED
        BY <2>1, <2>3, <2>5, <3>2, <3>4 DEF Set!Take, Set!Getters, CallMap, OwnMap
    <2>6. QED
      BY <2>4, <2>5
  <1>6. ASSUME NEW c \in Clients, Discard(c) \/ Break(c)
        PROVE  Set!Drop(c)
    <2>1. /\ CallMap[c] = "none" /\ OwnMap[c] = hand[c] /\ hand[c] # NoSession
          /\ UNCHANGED <<pc, op, ec, pool, life>>
      BY <1>6, CallFacts DEF Discard, Break
    <2>2. CallMap' = CallMap /\ Pooled' = Pooled
      BY <2>1 DEF CallMap, CallOf, Pooled
    <2>3. CASE Discard(c)
      <3>1. /\ hand'[c] = NoSession /\ \A x \in Clients : x # c => hand'[x] = hand[x]
            /\ closed' = closed \ {hand[c]}
        BY <1>0, <2>3 DEF Discard
      <3>2. OwnMap' = [OwnMap EXCEPT ![c] = NoSession]
        BY <3>1, OwnChanges
      <3>3. QED
        BY <2>1, <2>2, <3>1, <3>2 DEF Set!Drop, CallMap, OwnMap
    <2>4. CASE Break(c)
      <3>1. OwnMap' = OwnMap /\ closed' = closed \cup {hand[c]}
        BY <2>4 DEF Break, OwnMap
      <3>2. QED
        BY <2>1, <2>2, <3>1 DEF Set!Drop, CallMap, OwnMap
    <2>5. QED
      BY <1>6, <2>3, <2>4
  <1>7. ASSUME NEW t \in Threads, ReturnTimeout(t)
        PROVE  (t \in Clients /\ Set!Return(t)) \/ Hidden
    <2>1. /\ pc[t] = "return" /\ UNCHANGED <<op, ec, closed, pool, life>>
          /\ \A x \in Threads : pc'[x] = IF x = t THEN "idle" ELSE pc[x]
          /\ \A c \in Clients : hand'[c] = hand[c]
      BY <1>0, <1>7 DEF ReturnTimeout, Goto
    <2>2. \A x \in Clients : x # t => CallOf(x)' = CallOf(x)
      BY <1>0, <2>1 DEF CallOf
    <2>3. OwnMap' = OwnMap /\ Pooled' = Pooled
      BY <2>1 DEF OwnMap, Pooled
    <2>4. CASE t \in Clients
      <3>1. CallMap[t] = "return" /\ op[t] = "none"
        BY <1>0, <2>1, <2>4, CallFacts DEF Shape, Phases, ClientPhase, InCall
      <3>2. CallOf(t)' = "none"
        BY <1>0, <2>1, <3>1 DEF CallOf
      <3>3. Becomes(t, "none")
        BY <2>2, <2>4, <3>2, CallChanges
      <3>4. QED
        BY <2>1, <2>3, <2>4, <3>1, <3>3 DEF Set!Return, CallMap, OwnMap
    <2>5. CASE t \notin Clients
      BY <2>1, <2>2, <2>3, <2>5
    <2>6. QED
      BY <2>4, <2>5
  <1>8. ASSUME NEW t \in Threads, ReturnLock(t)
        PROVE  Hidden
    <2>1. /\ pc[t] = "return" /\ UNCHANGED <<op, ec, hand, closed, pool, life>>
          /\ \A x \in Threads : pc'[x] = IF x = t THEN "append" ELSE pc[x]
      BY <1>0, <1>8 DEF ReturnLock, Goto
    <2>2. \A x \in Clients : CallOf(x)' = CallOf(x)
      BY <1>0, <2>1 DEF CallOf
    <2>3. QED
      BY <2>1, <2>2 DEF Pooled
  <1>9. ASSUME NEW t \in Threads, AppendSession(t)
        PROVE  (t \in Clients /\ Set!Put(t)) \/ Set!Arrive
    <2>1. /\ pc[t] = "append" /\ UNCHANGED <<op, ec, closed, life>>
          /\ \A x \in Threads : pc'[x] = IF x = t THEN "notify" ELSE pc[x]
          /\ \A x \in Threads : hand'[x] = IF x = t THEN NoSession ELSE hand[x]
      BY <1>0, <1>9 DEF AppendSession, Goto
    <2>2. \A x \in Clients : CallOf(x)' = CallOf(x)
      BY <1>0, <2>1 DEF CallOf
    <2>3. CallMap' = CallMap
      BY <2>2 DEF CallMap
    <2>4. Pooled' = Pooled \cup {hand[t]} /\ hand[t] \in Sessions /\ hand[t] # NoSession
      BY <1>9, PooledPushed, Pushed, PoolAssumption
    <2>5. CASE t \in Clients
      <3>1. CallMap[t] = "return" /\ OwnMap[t] = hand[t]
        BY <2>1, <2>5, CallFacts
      <3>2. OwnMap' = [OwnMap EXCEPT ![t] = NoSession]
        BY <1>0, <2>1, <2>5, OwnChanges
      <3>3. QED
        BY <2>1, <2>3, <2>4, <2>5, <3>1, <3>2 DEF Set!Put, CallMap, OwnMap
    <2>6. CASE t \in Adders
      <3>1. life # "gone"
        BY <2>1, <2>6 DEF Shape, Phases, AdderPhase, WatcherPhase
      <3>2. hand[t] \notin Pooled /\ hand[t] \notin closed
        BY <2>1 DEF Owned, OneOwner, Returns
      <3>3. \A c \in Clients : OwnMap[c] # hand[t]
        BY <1>0, <2>4, <2>6 DEF Owned, OneOwner, OwnMap
      <3>4. OwnMap' = OwnMap
        BY <1>0, <2>1, <2>6 DEF OwnMap
      <3>5. QED
        BY <2>1, <2>3, <2>4, <3>1, <3>2, <3>3, <3>4 DEF Set!Arrive, CallMap, OwnMap
    <2>7. QED
      BY <2>5, <2>6 DEF Threads
  <1>10. ASSUME NEW t \in Threads, NotifyOne(t)
        PROVE  (t \in Clients /\ Set!Return(t)) \/ Hidden
    <2>1. pc[t] = "notify" /\ UNCHANGED <<op, ec, hand, closed, pool, life>>
      BY <1>10 DEF NotifyOne
    <2>2. /\ pc'[t] = "idle"
          /\ \A x \in Threads : x # t =>
               pc'[x] = pc[x] \/ (pc[x] = "sleep" /\ pc'[x] = "woken")
      BY <1>0, <1>10 DEF NotifyOne, Goto
    <2>3. \A x \in Clients : x # t => CallOf(x)' = CallOf(x)
      BY <1>0, <2>1, <2>2 DEF CallOf
    <2>4. OwnMap' = OwnMap /\ Pooled' = Pooled
      BY <2>1 DEF OwnMap, Pooled
    <2>5. CASE t \in Clients
      <3>1. CallMap[t] = "return" /\ op[t] = "none"
        BY <1>0, <2>1, <2>5, CallFacts DEF Shape, Phases, ClientPhase, InCall
      <3>2. CallOf(t)' = "none"
        BY <1>0, <2>1, <2>2, <3>1 DEF CallOf
      <3>3. Becomes(t, "none")
        BY <2>3, <2>5, <3>2, CallChanges
      <3>4. QED
        BY <2>1, <2>4, <2>5, <3>1, <3>3 DEF Set!Return, CallMap, OwnMap
    <2>6. CASE t \notin Clients
      BY <2>1, <2>3, <2>4, <2>6
    <2>7. QED
      BY <2>5, <2>6
  <1>11. ASSUME NEW a \in Adders, Connect(a) \/ ConnectFail(a)
        PROVE  Hidden
    <2>1. /\ UNCHANGED <<op, ec, closed, pool, life>>
          /\ \A x \in Threads : x # a => pc'[x] = pc[x] /\ hand'[x] = hand[x]
      BY <1>0, <1>11 DEF Connect, ConnectFail, Goto
    <2>2. \A x \in Clients : CallOf(x)' = CallOf(x)
      BY <1>0, <2>1 DEF CallOf
    <2>3. QED
      BY <1>0, <2>1, <2>2 DEF Pooled
  <1>12. ASSUME \/ WatchTop \/ WatchLock \/ WatchLockTimeout \/ WatchUnlock
                \/ WatchRefill \/ WatchBackoff \/ WatchJoin \/ WatchSleep \/ Gone
                \/ UNCHANGED vars
        PROVE  Hidden
    <2>1. UNCHANGED <<op, ec, hand, closed, pool, life>>
      BY <1>12 DEF WatchTop, WatchLock, WatchLockTimeout, WatchUnlock, Unlock,
         WatchRefill, WatchBackoff, WatchJoin, WatchSleep, Gone, vars
    <2>2. \A c \in Clients : pc'[c] = pc[c]
      BY <1>0, <1>12 DEF WatchTop, WatchLock, WatchLockTimeout, WatchUnlock, Unlock,
         WatchRefill, WatchBackoff, WatchJoin, WatchSleep, Gone, vars
    <2>3. QED
      BY <2>1, <2>2 DEF CallOf, Pooled
  <1>13. ASSUME WatchScan
        PROVE  Set!Evict \/ Hidden
    <2>1. UNCHANGED <<pc, op, ec, hand, closed, life>>
      BY <1>13 DEF WatchScan
    <2>2. CallMap' = CallMap /\ OwnMap' = OwnMap
      BY <2>1 DEF CallMap, CallOf, OwnMap
    <2>3. CASE Pooled' = Pooled
      BY <2>1, <2>3 DEF CallOf
    <2>4. CASE \E s \in Pooled : Pooled' = Pooled \ {s}
      BY <2>1, <2>2, <2>4 DEF Set!Evict, CallMap, OwnMap
    <2>5. QED
      BY <1>13, <2>3, <2>4, PooledErased
  <1>14. ASSUME Destroy \/ Destroyed
        PROVE  Set!End
    <2>1. UNCHANGED <<pc, op, ec, hand, closed>>
      BY <1>14 DEF Destroy, Destroyed
    <2>2. CallMap' = CallMap /\ OwnMap' = OwnMap
      BY <2>1 DEF CallMap, CallOf, OwnMap
    <2>3. \A c \in Clients : pc[c] = "idle"
      BY <1>14 DEF Destroy, Destroyed, Shape, Phases, ClientPhase
    <2>4. \A c \in Clients : CallMap[c] = "none"
      BY <2>3, CallFacts
    <2>5. \/ life = "up" /\ life' = "stopping" /\ Pooled' = Pooled
          \/ life = "stopping" /\ life' = "gone" /\ Pooled' = {}
      BY <1>14 DEF Destroy, Destroyed, Pooled
    <2>6. QED
      BY <2>1, <2>2, <2>4, <2>5 DEF Set!End, CallMap, OwnMap
  <1>15. ASSUME Tick
        PROVE  Hidden
    <2>1. UNCHANGED <<pc, op, ec, hand, closed, life>>
      BY <1>15 DEF Tick
    <2>2. /\ DOMAIN pool = 1..Len(pool) /\ DOMAIN pool' = 1..Len(pool)
          /\ \A i \in 1..Len(pool) : pool'[i].session = pool[i].session
      BY <1>15, Aged, OwnerTypes
    <2>3. Pooled' = Pooled
      BY <2>2 DEF Pooled
    <2>4. QED
      BY <2>1, <2>3 DEF CallOf
  <1>16. ASSUME Hidden
        PROVE  UNCHANGED Set!poolVars
    BY <1>16, Unseen
  <1>17. ASSUME NEW c \in Clients, CallGet(c) \/ CallIsConnected(c)
        PROVE  \E o \in {"get", "try", "is_connected"} : Set!Begin(c, o)
    <2>1. PICK o \in {"get", "try", "is_connected"} :
            Call(c, o) /\ (o \in {"get", "try"} => hand[c] = NoSession)
      BY <1>17 DEF CallGet, CallIsConnected
    <2>2. QED
      BY <1>1, <2>1
  <1> HIDE DEF Hidden
  <1>18. ASSUME NEW c \in Clients, Client(c)
        PROVE  Set!PoolNext \/ Hidden
    BY <1>2, <1>3, <1>4, <1>5, <1>6, <1>17, <1>18 DEF Client, Set!PoolNext, Set!Getters
  <1>19. ASSUME NEW t \in Threads, Returning(t)
        PROVE  Set!PoolNext \/ Hidden
    BY <1>7, <1>8, <1>9, <1>10, <1>19 DEF Returning, Set!PoolNext
  <1>20. ASSUME Watch \/ Destroy \/ Destroyed
        PROVE  Set!PoolNext \/ Hidden
    BY <1>12, <1>13, <1>14, <1>20 DEF Watch, Set!PoolNext
  <1>21. Set!PoolNext \/ Hidden
    BY <1>11, <1>12, <1>15, <1>18, <1>19, <1>20 DEF Next
  <1>22. QED
    BY <1>16, <1>21

\* Seen through its calls the pool is a set of open sessions, for any number of
\* clients, any size and both strategies: a call takes or gives its session at
\* one instant, one that fails takes nothing, and not_found is said of an empty
\* pool only.
THEOREM PoolImplementation == Spec => ImplementsSet
  <1>1. Init => Owned
    BY PoolAssumption DEF Init, Owned, OneOwner, Pooled, Returns
  <1>2. Shape /\ Owned /\ [Next]_vars => Owned'
    BY OwnersStep
  <1>3. Init => Set!PoolInit
    BY DEF Init, Set!PoolInit, CallOf, Pooled, Threads
  <1>4. Shape /\ Owned /\ [Next]_vars => [Set!PoolNext]_(Set!poolVars)
    BY SetStep
  <1>5. QED
    BY <1>1, <1>2, <1>3, <1>4, ShapeInvariant, PTL DEF Spec, ImplementsSet, Set!PoolSpec

=============================================================================
