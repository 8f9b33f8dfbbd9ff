--------------------------- MODULE ConnectionPool ---------------------------
(***************************************************************************)
(* base_connection_pool (connector/connection_pool.hpp and                 *)
(* connector/impl/connection_pool.ipp) with its reconnection strategy.     *)
(*                                                                         *)
(* Actors: client threads that call get_session(), try_get_session(),      *)
(* return_session() and is_connected(); the watcher thread that runs       *)
(* watch_pool_routine(); the adder threads refill() starts (the watcher    *)
(* itself is one of them under the conservative strategy); the thread that *)
(* destroys the pool.                                                      *)
(*                                                                         *)
(* pool_mutex_ is held exactly by the thread whose control is at a label   *)
(* of Critical (or by the watcher at "scan"); a timed lock may give up     *)
(* only while another thread holds it.  A deadline is not a number: the    *)
(* clients' deadlines are arbitrary, so a wait may expire at any moment.   *)
(* Time is kept relative to now: the age of a pooled session, which stops  *)
(* counting at MaxAge, and what is left of the strategy's back-off.        *)
(***************************************************************************)
EXTENDS PoolStrategy, Sequences, SequencesExt

CONSTANTS
    Clients,        \* threads that use the pool, each with at most one session
    Probers,        \* the clients that also call is_connected()
    Adders,         \* the threads a refill() can have running at once
    Sessions,       \* identities of connected streams
    NoSession,      \* a null unique_ptr
    PoolSize,       \* pool_max_size_
    IdleTimeout,    \* idle_timeout_, in ticks
    MaxAge,         \* ages are counted up to here; below IdleTimeout, no session
                    \* expires: idle_timeout_ is time_duration_type::max()
    Strategy        \* the Strategy template parameter

ASSUME PoolAssumption ==
    /\ Probers \subseteq Clients
    /\ IsFiniteSet(Clients) /\ IsFiniteSet(Adders) /\ Clients \cap Adders = {}
    /\ NoSession \notin Sessions
    /\ PoolSize \in Nat
    /\ Strategy \in Strategies
    /\ Cardinality(Adders) = Attempts(Strategy, PoolSize, 0)
    /\ IdleTimeout \in Nat /\ MaxAge \in Nat

VARIABLES
    pc,         \* where each client and adder is; "idle" is outside the pool
    op,         \* the call a client is in, "none" outside
    ec,         \* the error_code variable each client passes to its calls
    hand,       \* the session a client or an adder owns
    closed,     \* sessions whose is_open() is false
    pool,       \* sesson_pool_: a list of [age, session], front first
    watcher,    \* where watch_pool_routine() is
    cursor,     \* position of pool_it (1 outside the scan); pool_current_size + 1
    vacant,     \* vacant_places, from the end of the scan to refill()
    is_added,   \* is_added of the conservative refill()
    delay,      \* current_delay_ms_
    wait,       \* what is left until wait_until_
    life        \* "up" while watch_pool_ is set, "stopping" in ~base_connection_pool

vars == <<pc, op, ec, hand, closed, pool, watcher, cursor, vacant, is_added,
          delay, wait, life>>

Threads == Clients \cup Adders
Entry == [age : 0..MaxAge, session : Sessions]

(***************************************************************************)
(* The mutex                                                               *)
(***************************************************************************)
Critical == {"check", "last", "append"}

Locked == watcher = "scan" \/ \E t \in Threads : pc[t] \in Critical

Goto(t, label) == pc' = [pc EXCEPT ![t] = label]

Init ==
    /\ pc = [t \in Threads |-> "idle"]
    /\ op = [c \in Clients |-> "none"]
    /\ ec = [c \in Clients |-> "ok"]
    /\ hand = [t \in Threads |-> NoSession]
    /\ closed = {}
    /\ pool = <<>>
    /\ watcher = "top"
    /\ cursor = 1
    /\ vacant = 0
    /\ is_added = FALSE
    /\ delay = 0
    /\ wait = 0
    /\ life = "up"

watcherVars == <<watcher, cursor, vacant, is_added, delay, wait>>

(***************************************************************************)
(* get_session(), try_get_session() and is_connected().  The call starts   *)
(* with try_lock_until(deadline) and the error_code as the client left it. *)
(***************************************************************************)
Call(c, o) ==
    /\ life = "up" /\ pc[c] = "idle"
    /\ op' = [op EXCEPT ![c] = o]
    /\ Goto(c, "lock")
    /\ UNCHANGED <<ec, hand, closed, pool, life, watcherVars>>

CallGet(c) == hand[c] = NoSession /\ \E o \in {"get", "try"} : Call(c, o)

CallIsConnected(c) == c \in Probers /\ Call(c, "is_connected")

Lock(c) ==
    /\ pc[c] = "lock" /\ ~Locked
    /\ Goto(c, "check")
    /\ UNCHANGED <<op, ec, hand, closed, pool, life, watcherVars>>

\* A call that fails with error e; the mutex, if held, is released.
Fail(c, e) ==
    /\ ec' = [ec EXCEPT ![c] = e]
    /\ op' = [op EXCEPT ![c] = "none"]
    /\ Goto(c, "idle")
    /\ UNCHANGED <<hand, closed, pool, life, watcherVars>>

LockTimeout(c) == pc[c] = "lock" /\ Locked /\ Fail(c, "timed_out")

\* Mutant: the front session is handed out, but not popped.
Found_NoPop(c) ==
    /\ pc[c] \in {"check", "last"} /\ pool # <<>>
    /\ hand' = IF op[c] = "is_connected" THEN hand
               ELSE [hand EXCEPT ![c] = Head(pool).session]
    /\ op' = [op EXCEPT ![c] = "none"]
    /\ Goto(c, "idle")
    /\ UNCHANGED <<pool, ec, closed, life, watcherVars>>

\* The pool is not empty: a getter takes the front session and a prober
\* returns true; neither touches ec.
Found(c) ==
    /\ pc[c] \in {"check", "last"} /\ pool # <<>>
    /\ IF op[c] = "is_connected"
         THEN UNCHANGED <<hand, pool>>
         ELSE /\ hand' = [hand EXCEPT ![c] = Head(pool).session]
              /\ pool' = Tail(pool)
    /\ op' = [op EXCEPT ![c] = "none"]
    /\ Goto(c, "idle")
    /\ UNCHANGED <<ec, closed, life, watcherVars>>

\* Mutant: the predicate is not evaluated once more after an expiry.
NotFound_NoRecheck(c) ==
    /\ pc[c] = "last" \/ (pc[c] = "check" /\ op[c] = "try" /\ pool = <<>>)
    /\ Fail(c, "not_found")

\* try_get_session() gives up at once, the others when their wait has expired.
NotFound(c) ==
    /\ pool = <<>>
    /\ pc[c] = "last" \/ (pc[c] = "check" /\ op[c] = "try")
    /\ Fail(c, "not_found")

\* pool_cv_.wait_until() releases the mutex and blocks.
Sleep(c) ==
    /\ pc[c] = "check" /\ op[c] # "try" /\ pool = <<>>
    /\ Goto(c, "sleep")
    /\ UNCHANGED <<op, ec, hand, closed, pool, life, watcherVars>>

\* The deadline passes, or the condition variable wakes up spuriously.
Wake(c) ==
    /\ pc[c] = "sleep"
    /\ \E label \in {"expired", "woken"} : Goto(c, label)
    /\ UNCHANGED <<op, ec, hand, closed, pool, life, watcherVars>>

\* wait_until() takes the mutex back without a deadline; after an expiry the
\* predicate is evaluated once more, after a wake-up the loop goes on.
Relock(c) ==
    /\ pc[c] \in {"woken", "expired"} /\ ~Locked
    /\ Goto(c, IF pc[c] = "expired" THEN "last" ELSE "check")
    /\ UNCHANGED <<op, ec, hand, closed, pool, life, watcherVars>>

(***************************************************************************)
(* return_session(), called by clients and by the adders' append_func.     *)
(* A session that is not open is refused at once, which changes nothing.   *)
(* The parameter is an rvalue reference: a session the call gives up on    *)
(* stays with the client, and dies with the adder's local variable.        *)
(***************************************************************************)
CallReturn(c) ==
    /\ life = "up" /\ pc[c] = "idle"
    /\ hand[c] # NoSession /\ hand[c] \notin closed
    /\ Goto(c, "return")
    /\ UNCHANGED <<op, ec, hand, closed, pool, life, watcherVars>>

\* The conservative strategy's adders set is_added once append_func has
\* returned, whatever became of the session.
Returned(t) ==
    is_added' = (is_added \/ (t \in Adders /\ Strategy = "conservative"))

ReturnTimeout(t) ==
    /\ pc[t] = "return" /\ Locked
    /\ hand' = IF t \in Adders THEN [hand EXCEPT ![t] = NoSession] ELSE hand
    /\ Returned(t)
    /\ Goto(t, "idle")
    /\ UNCHANGED <<op, ec, closed, pool, life, watcher, cursor, vacant, delay, wait>>

ReturnLock(t) ==
    /\ pc[t] = "return" /\ ~Locked
    /\ Goto(t, "append")
    /\ UNCHANGED <<op, ec, hand, closed, pool, life, watcherVars>>

\* Mutant: emplace_front().
AppendSession_Front(t) ==
    /\ pc[t] = "append"
    /\ pool' = <<[age |-> 0, session |-> hand[t]]>> \o pool
    /\ hand' = [hand EXCEPT ![t] = NoSession]
    /\ Goto(t, "notify")
    /\ UNCHANGED <<op, ec, closed, life, watcherVars>>

\* Mutant: only the first session of an empty pool is announced.
AppendSession_FirstNotifies(t) ==
    /\ pc[t] = "append"
    /\ pool' = Append(pool, [age |-> 0, session |-> hand[t]])
    /\ hand' = [hand EXCEPT ![t] = NoSession]
    /\ Goto(t, IF pool = <<>> THEN "notify" ELSE "idle")
    /\ UNCHANGED <<op, ec, closed, life, watcherVars>>

\* emplace_back(now, session) and unlock.
AppendSession(t) ==
    /\ pc[t] = "append"
    /\ pool' = Append(pool, [age |-> 0, session |-> hand[t]])
    /\ hand' = [hand EXCEPT ![t] = NoSession]
    /\ Goto(t, "notify")
    /\ UNCHANGED <<op, ec, closed, life, watcherVars>>

\* Mutant: nobody is notified.
NotifyOne_Nobody(t) ==
    /\ pc[t] = "notify"
    /\ Goto(t, "idle")
    /\ Returned(t)
    /\ UNCHANGED <<op, ec, hand, closed, pool, life, watcher, cursor, vacant, delay, wait>>

\* pool_cv_.notify_one() wakes one waiter, whoever it is.
NotifyOne(t) ==
    LET asleep == {c \in Clients : pc[c] = "sleep"} IN
    /\ pc[t] = "notify"
    /\ IF asleep = {}
         THEN Goto(t, "idle")
         ELSE \E c \in asleep : pc' = [pc EXCEPT ![t] = "idle", ![c] = "woken"]
    /\ Returned(t)
    /\ UNCHANGED <<op, ec, hand, closed, pool, life, watcher, cursor, vacant, delay, wait>>

(***************************************************************************)
(* What a client does with its session outside the pool: it destroys it,   *)
(* or an I/O deadline closes the socket (base_socket::deadline_actor).     *)
(***************************************************************************)
Discard(c) ==
    /\ pc[c] = "idle" /\ hand[c] # NoSession
    /\ hand' = [hand EXCEPT ![c] = NoSession]
    /\ closed' = closed \ {hand[c]}
    /\ UNCHANGED <<pc, op, ec, pool, life, watcherVars>>

Break(c) ==
    /\ pc[c] = "idle" /\ hand[c] # NoSession
    /\ closed' = closed \cup {hand[c]}
    /\ UNCHANGED <<pc, op, ec, hand, pool, life, watcherVars>>

(***************************************************************************)
(* add_session of refill(): new_session() connects or throws.              *)
(***************************************************************************)
Pooled == {pool[i].session : i \in DOMAIN pool}

Fresh == Sessions \ (Pooled \cup {hand[t] : t \in Threads})

Connect(a) ==
    /\ pc[a] = "connect"
    /\ \E s \in Fresh : hand' = [hand EXCEPT ![a] = s]
    /\ Goto(a, "return")
    /\ UNCHANGED <<op, ec, closed, pool, life, watcherVars>>

ConnectFail(a) ==
    /\ pc[a] = "connect"
    /\ Goto(a, "idle")
    /\ UNCHANGED <<op, ec, hand, closed, pool, life, watcherVars>>

(***************************************************************************)
(* watch_pool_routine()                                                    *)
(***************************************************************************)
\* Mutant: watch_pool_ is not tested.
WatchTop_Forever ==
    /\ watcher = "top"
    /\ watcher' = "lock"
    /\ UNCHANGED <<pc, op, ec, hand, closed, pool, life, cursor, vacant, is_added, delay, wait>>

WatchTop ==
    /\ watcher = "top"
    /\ watcher' = IF life = "up" THEN "lock" ELSE "done"
    /\ UNCHANGED <<pc, op, ec, hand, closed, pool, life, cursor, vacant, is_added, delay, wait>>

WatchLock ==
    /\ watcher = "lock" /\ ~Locked
    /\ watcher' = "scan"
    /\ UNCHANGED <<pc, op, ec, hand, closed, pool, life, cursor, vacant, is_added, delay, wait>>

WatchLockTimeout ==
    /\ watcher = "lock" /\ Locked
    /\ watcher' = "top"
    /\ UNCHANGED <<pc, op, ec, hand, closed, pool, life, cursor, vacant, is_added, delay, wait>>

\* One iteration of the scan: the session at pool_it is erased or counted.
WatchScan ==
    /\ watcher = "scan" /\ cursor <= Len(pool)
    /\ IF pool[cursor].age >= IdleTimeout
         THEN pool' = RemoveAt(pool, cursor) /\ UNCHANGED cursor
         ELSE cursor' = cursor + 1 /\ UNCHANGED pool
    /\ UNCHANGED <<pc, op, ec, hand, closed, life, watcher, vacant, is_added, delay, wait>>

\* The scan is over: unlock, and refill if there are vacant places.
Unlock(places) ==
    /\ watcher = "scan" /\ cursor > Len(pool)
    /\ vacant' = places
    /\ cursor' = 1
    /\ watcher' = IF places > 0 THEN "refill" ELSE "sleep"
    /\ UNCHANGED <<pc, op, ec, hand, closed, pool, life, is_added, delay, wait>>

\* Mutant: a plain subtraction, in a pool with more sessions than places.
WatchUnlock_NoFloor == Unlock(PoolSize - (cursor - 1))

\* Mutant: the sessions in the pool are not counted.
WatchUnlock_NotCounted == Unlock(PoolSize)

\* Mutant: the place at pool_it is taken for a session.
WatchUnlock_OffByOne == Unlock(IF PoolSize > cursor THEN PoolSize - cursor ELSE 0)

\* vacant_places are worked out from what was counted.
WatchUnlock ==
    LET size == cursor - 1
    IN  Unlock(IF PoolSize > size THEN PoolSize - size ELSE 0)

\* refill() starts its attempts; the snapshot vacant may be stale by now.
WatchRefill ==
    /\ watcher = "refill" /\ (Strategy = "greedy" \/ wait = 0)
    /\ \E batch \in SUBSET Adders :
         /\ Cardinality(batch) = Attempts(Strategy, vacant, delay)
         /\ pc' = [t \in Threads |-> IF t \in batch THEN "connect" ELSE pc[t]]
    /\ vacant' = 0 /\ is_added' = FALSE
    /\ watcher' = "join"
    /\ UNCHANGED <<op, ec, hand, closed, pool, life, cursor, delay, wait>>

\* The conservative strategy does nothing before wait_until_.
WatchBackoff ==
    /\ watcher = "refill" /\ Strategy = "conservative" /\ wait > 0
    /\ vacant' = 0
    /\ watcher' = "sleep"
    /\ UNCHANGED <<pc, op, ec, hand, closed, pool, life, cursor, is_added, delay, wait>>

\* All attempts are joined.  The greedy refill() asks for another round at
\* once, the conservative one if an attempt reported success.
WatchJoin ==
    /\ watcher = "join" /\ \A a \in Adders : pc[a] = "idle"
    /\ \/ /\ Strategy = "greedy"
          /\ watcher' = "top"
          /\ UNCHANGED <<delay, wait>>
       \/ /\ Strategy = "conservative" /\ is_added
          /\ delay' = 0
          /\ watcher' = "top"
          /\ UNCHANGED wait
       \/ /\ Strategy = "conservative" /\ ~is_added
          /\ delay' \in NextDelays(delay)
          /\ wait' = delay'
          /\ watcher' = "sleep"
    /\ UNCHANGED <<pc, op, ec, hand, closed, pool, life, cursor, vacant, is_added>>

\* sleep_for(50ms)
WatchSleep ==
    /\ watcher = "sleep"
    /\ watcher' = "top"
    /\ UNCHANGED <<pc, op, ec, hand, closed, pool, life, cursor, vacant, is_added, delay, wait>>

(***************************************************************************)
(* The destructor, which C++ allows only when no client is in a call: it   *)
(* clears watch_pool_ and joins the watcher; then the members die.         *)
(***************************************************************************)
Destroy ==
    /\ life = "up" /\ \A c \in Clients : pc[c] = "idle"
    /\ life' = "stopping"
    /\ UNCHANGED <<pc, op, ec, hand, closed, pool, watcherVars>>

\* Mutant: the watcher is not joined.
Destroyed_NoJoin ==
    /\ life = "stopping"
    /\ life' = "gone" /\ pool' = <<>>
    /\ UNCHANGED <<pc, op, ec, hand, closed, watcherVars>>

Destroyed ==
    /\ life = "stopping" /\ watcher = "done"
    /\ life' = "gone" /\ pool' = <<>>
    /\ UNCHANGED <<pc, op, ec, hand, closed, watcherVars>>

\* Nothing is left to do but destroying the sessions the clients kept.
Gone == life = "gone" /\ UNCHANGED vars

(***************************************************************************)
(* Time passes.  The scan compares with a `now` it read once under the     *)
(* mutex, and nobody else looks at the ages meanwhile: time stands still.  *)
(***************************************************************************)
Tick ==
    /\ watcher # "scan"
    /\ wait > 0 \/ \E i \in DOMAIN pool : pool[i].age < MaxAge
    /\ pool' = [i \in DOMAIN pool |->
                  [pool[i] EXCEPT !.age = Min({MaxAge, pool[i].age + 1})]]
    /\ wait' = IF wait > 0 THEN wait - 1 ELSE 0
    /\ UNCHANGED <<pc, op, ec, hand, closed, watcher, cursor, vacant, is_added, delay, life>>

-----------------------------------------------------------------------------
Client(c) ==
    \/ CallGet(c) \/ CallIsConnected(c) \/ CallReturn(c)
    \/ Lock(c) \/ LockTimeout(c)
    \/ Found(c) \/ NotFound(c) \/ Sleep(c) \/ Wake(c) \/ Relock(c)
    \/ Discard(c) \/ Break(c)

Returning(t) ==
    ReturnTimeout(t) \/ ReturnLock(t) \/ AppendSession(t) \/ NotifyOne(t)

Watch ==
    \/ WatchTop \/ WatchLock \/ WatchLockTimeout \/ WatchScan \/ WatchUnlock
    \/ WatchRefill \/ WatchBackoff \/ WatchJoin \/ WatchSleep

Next ==
    \/ \E c \in Clients : Client(c)
    \/ \E t \in Threads : Returning(t)
    \/ \E a \in Adders : Connect(a) \/ ConnectFail(a)
    \/ Watch
    \/ Destroy \/ Destroyed \/ Gone
    \/ Tick

Spec == Init /\ [][Next]_vars

(***************************************************************************)
(* Fairness: every thread that can take a step eventually takes one; a     *)
(* thread that waits for the mutex eventually gets it; the attempts of the *)
(* watcher and of the adders to lock it do not all time out; new_session() *)
(* has a deadline and returns.  No client is obliged to call anything, to  *)
(* give its session back or to see its deadline pass.                      *)
(***************************************************************************)
ClientProgress(c) == Found(c) \/ NotFound(c) \/ Sleep(c)

Fairness ==
    /\ \A c \in Clients :
         WF_vars(ClientProgress(c)) /\ SF_vars(Lock(c)) /\ SF_vars(Relock(c))
    /\ \A t \in Threads :
         /\ WF_vars(AppendSession(t) \/ NotifyOne(t)) /\ SF_vars(ReturnLock(t))
         /\ <>[][~ReturnTimeout(t)]_vars \/ []<><<AppendSession(t)>>_vars
    /\ \A a \in Adders : WF_vars(Connect(a) \/ ConnectFail(a))
    /\ WF_vars(Watch)
    /\ <>[][~WatchLockTimeout]_vars \/ []<><<WatchLock>>_vars
    /\ WF_vars(Destroyed) /\ SF_vars(Tick)

FairSpec == Spec /\ Fairness

-----------------------------------------------------------------------------
Labels == {"idle", "lock", "check", "last", "sleep", "woken", "expired",
           "return", "append", "notify", "connect"}

TypeOK ==
    /\ pc \in [Threads -> Labels]
    /\ op \in [Clients -> {"none", "get", "try", "is_connected"}]
    /\ ec \in [Clients -> {"ok", "timed_out", "not_found"}]
    /\ hand \in [Threads -> Sessions \cup {NoSession}]
    /\ closed \subseteq Sessions
    /\ pool \in Seq(Entry)
    /\ watcher \in {"top", "lock", "scan", "refill", "join", "sleep", "done"}
    /\ cursor \in Nat \ {0}
    /\ vacant \in 0..PoolSize
    /\ is_added \in BOOLEAN
    /\ delay \in 0..MaxBackoff /\ wait \in 0..MaxBackoff
    /\ life \in {"up", "stopping", "gone"}

\* The connections of the pool and of its clients never outnumber the pool's
\* size by more than one per client, although the watcher refills by a count
\* it took before it released the mutex, and the clients take, keep and give
\* back sessions meanwhile.
ConnectionBound ==
    Len(pool) + Cardinality({t \in Threads : hand[t] # NoSession})
        <= PoolSize + Cardinality(Clients)

Asleep == {c \in Clients : pc[c] = "sleep"}

\* The threads that will still look into the pool or notify a sleeper.
Heading == {t \in Threads : pc[t] \in {"notify", "woken", "expired", "check", "last"}}

\* No wake-up is lost, as long as nobody calls is_connected(): while a getter
\* sleeps, each session in the pool has its own thread on the way to take it
\* or to wake a sleeper for it (one notify_one() per emplace_back(), after the
\* unlock; expiries, spurious wake-ups, overtaking getters and evictions
\* included).
NoLostWakeup ==
    (Probers = {} /\ Asleep # {}) => Len(pool) <= Cardinality(Heading)

\* A session has one owner: a place in the list, a client or an adder.  One
\* in the list has never been closed.
OneOwner ==
    /\ \A i, j \in DOMAIN pool : pool[i].session = pool[j].session => i = j
    /\ \A t, u \in Threads : (hand[t] = hand[u] /\ hand[t] # NoSession) => t = u
    /\ \A t \in Threads : hand[t] \notin Pooled
    /\ Pooled \cap closed = {}

\* The list is ordered by age, the oldest session in front, so that
\* get_session() hands out the session that has idled longest.
OldestFirst ==
    \A i, j \in DOMAIN pool : i <= j => pool[i].age >= pool[j].age

\* Once the destructor has returned no thread of the pool is left that could
\* touch its members.
QuietWhenGone ==
    life = "gone" => watcher = "done" /\ \A t \in Threads : pc[t] = "idle"

\* A getter sleeps for ever only if the pool stays empty or the sessions go to
\* other clients: return_session() wakes it, not its deadline, which Fairness
\* does not make pass.
SleeperServed ==
    \A c \in Clients :
        <>[](pc[c] = "sleep")
        => <>[](pool = <<>>) \/ []<>(\E d \in Clients : hand[d] # NoSession)

\* An empty pool gets a session again, if connecting succeeds now and then:
\* the watcher neither sleeps for ever nor misreads the vacant places.
PoolRefills ==
    (\A a \in Adders : SF_vars(Connect(a)))
    => ((life = "up" /\ pool = <<>>) ~> (life # "up" \/ pool # <<>>))

\* The destructor returns: the watcher sees the flag, its adders finish and
\* it is joined, whatever it was doing when the flag was cleared.
DestructorReturns == life = "stopping" ~> life = "gone"

(***************************************************************************)
(* The inductive invariant behind ConnectionBound and NoLostWakeup.        *)
(***************************************************************************)
\* pool_mutex_ has at most one owner.
Mutex ==
    /\ \A t, u \in Threads : pc[t] \in Critical /\ pc[u] \in Critical => t = u
    /\ watcher = "scan" => \A t \in Threads : pc[t] \notin Critical

InCall == {"lock", "check", "last", "sleep", "woken", "expired"}

AdderPhase(a) ==
    /\ pc[a] \in {"idle", "connect", "return", "append", "notify"}
    /\ hand[a] # NoSession <=> pc[a] \in {"return", "append"}
    /\ watcher # "join" => pc[a] = "idle"

ClientPhase(c) ==
    /\ pc[c] # "connect"
    /\ pc[c] \in {"return", "append"} => hand[c] # NoSession
    /\ op[c] # "none" <=> pc[c] \in InCall
    /\ op[c] \in {"get", "try"} => hand[c] = NoSession
    /\ op[c] = "is_connected" => c \in Probers
    /\ life # "up" => pc[c] = "idle"

WatcherPhase ==
    /\ watcher = "refill" <=> vacant > 0
    /\ IF watcher = "scan" THEN cursor <= Len(pool) + 1 ELSE cursor = 1
    /\ watcher = "done" => life # "up"
    /\ life = "gone" => watcher = "done"

\* What the control of each thread says about its data.
Phases ==
    /\ \A a \in Adders : AdderPhase(a)
    /\ \A c \in Clients : ClientPhase(c)
    /\ WatcherPhase

\* The threads that own a session or are about to get one from the connector.
Busy == {t \in Threads : hand[t] # NoSession \/ pc[t] = "connect"}

\* Places the watcher has counted but not yet given to adders are taken.
Room == Len(pool) + Cardinality(Busy) + vacant <= PoolSize + Cardinality(Clients)

=============================================================================
