------------------------- MODULE TimedSocketProofs --------------------------
(***************************************************************************)
(* For every timeout and every buffer size, of the TCP socket, the UDP     *)
(* socket and the resolver: the timer belongs to the call in progress, its *)
(* wait is posted once, no deadline fires early, a call that begins late   *)
(* is ended by its deadline, and a deadline that fires is reported and     *)
(* closes the socket.  So the objects implement the calls with a timeout   *)
(* of TimedStream.                                                         *)
(***************************************************************************)
EXTENDS TimedSocket, SequenceTheorems, TLAPS

\* What does not depend on the order of the handlers; a fired deadline has closed the
\* socket even before the call returns.
TimerInv ==
    /\ TypeOK
    /\ TimerOwned /\ NoEarlyTimeout /\ TimeoutCloses
    /\ fired => kind = "resolver" \/ sock \in {"closed", "dead"}

\* What does: the queue never holds a handler twice.  The wait that a late call has
\* cancelled comes before the handler of its operation.
QueueInv ==
    /\ ready \in IF armed THEN {<<>>, <<"op">>}
                          ELSE {<<"wait">>, <<"op", "wait">>, <<"wait", "op">>}
    /\ call = "none" => ready \in {<<>>, <<"wait">>}
    /\ late => left = 0
    /\ (late /\ ~ fired) => call # "none" /\ ready \in {<<"wait">>, <<"wait", "op">>}

(***************************************************************************)
(* The queue                                                               *)
(***************************************************************************)
\* Appending to a sequence of one element.
LEMMA AppendToOne ==
    \A g, h \in {"wait", "op"} : Append(<<g>>, h) = <<g, h>>
  <1> TAKE g, h \in {"wait", "op"}
  <1> DEFINE s == <<g>>
             t == <<g, h>>
  <1>1. s \in Seq({"wait", "op"}) /\ t \in Seq({"wait", "op"}) /\ Len(s) = 1 /\ Len(t) = 2
    OBVIOUS
  <1>2. s[1] = g /\ t[1] = g /\ t[2] = h
    OBVIOUS
  <1> HIDE DEF s, t
  <1>3. /\ Append(s, h) \in Seq({"wait", "op"}) /\ Len(Append(s, h)) = 2
        /\ Append(s, h)[1] = s[1] /\ Append(s, h)[2] = h
    BY <1>1, AppendProperties
  <1>4. \A i \in 1..2 : Append(s, h)[i] = t[i]
    BY <1>2, <1>3
  <1>5. Append(s, h) = t
    BY <1>1, <1>3, <1>4, SeqEqual
  <1>6. QED
    BY <1>5 DEF s, t

\* The queues that occur: one handler more or less.
LEMMA QueueFacts ==
    /\ Append(<<>>, "wait") = <<"wait">> /\ Append(<<>>, "op") = <<"op">>
    /\ Append(<<"op">>, "wait") = <<"op", "wait">> /\ Append(<<"wait">>, "op") = <<"wait", "op">>
    /\ Head(<<"wait">>) = "wait" /\ Tail(<<"wait">>) = <<>>
    /\ Head(<<"op">>) = "op" /\ Tail(<<"op">>) = <<>>
    /\ Head(<<"op", "wait">>) = "op" /\ Tail(<<"op", "wait">>) = <<"wait">>
    /\ Head(<<"wait", "op">>) = "wait" /\ Tail(<<"wait", "op">>) = <<"op">>
    /\ <<"wait">> # <<>> /\ <<"wait">> \notin {<<"op">>, <<"op", "wait">>, <<"wait", "op">>}
    /\ <<>> \notin {<<"op">>, <<"op", "wait">>, <<"wait", "op">>}
  <1>1. \A h \in {"wait", "op"} : Append(<<>>, h) = <<h>> /\ Head(<<h>>) = h
    OBVIOUS
  <1>2. \A h \in {"wait", "op"} : Tail(<<h>>) = <<>>
    OBVIOUS
  <1>3. \A g, h \in {"wait", "op"} : Head(<<g, h>>) = g
    OBVIOUS
  <1>4. \A g, h \in {"wait", "op"} : Tail(<<g, h>>) = <<h>>
    OBVIOUS
  <1>5. /\ <<"wait">> # <<>> /\ <<"wait">> \notin {<<"op">>, <<"op", "wait">>, <<"wait", "op">>}
        /\ <<>> \notin {<<"op">>, <<"op", "wait">>, <<"wait", "op">>}
    OBVIOUS
  <1>6. QED
    BY <1>1, <1>2, <1>3, <1>4, <1>5, AppendToOne

\* An operation is pending while its handler is not in the queue.
LEMMA PendingQueue ==
    ASSUME QueueInv
    PROVE  Pending <=> (call # "none" /\ ready \in {<<>>, <<"wait">>})
  <1>1. /\ \A i \in DOMAIN <<>> : <<>>[i] # "op"
        /\ \A i \in DOMAIN <<"wait">> : <<"wait">>[i] # "op"
    OBVIOUS
  <1>2. /\ \E i \in DOMAIN <<"op">> : <<"op">>[i] = "op"
        /\ \E i \in DOMAIN <<"op", "wait">> : <<"op", "wait">>[i] = "op"
        /\ \E i \in DOMAIN <<"wait", "op">> : <<"wait", "op">>[i] = "op"
    OBVIOUS
  <1>3. ready \in {<<>>, <<"wait">>, <<"op">>, <<"op", "wait">>, <<"wait", "op">>}
    BY DEF QueueInv
  <1>4. CASE ready \in {<<>>, <<"wait">>}
    BY <1>1, <1>4 DEF Pending
  <1>5. CASE ready \in {<<"op">>, <<"op", "wait">>, <<"wait", "op">>}
    BY <1>2, <1>5 DEF Pending
  <1>6. QED
    BY <1>3, <1>4, <1>5

\* They are sequences of handlers.
LEMMA QueueTypes ==
    {<<>>, <<"wait">>, <<"op">>, <<"op", "wait">>, <<"wait", "op">>} \subseteq Seq({"wait", "op"})
  <1>1. /\ <<>> \in Seq({"wait", "op"})
        /\ \A g \in {"wait", "op"} : <<g>> \in Seq({"wait", "op"})
        /\ \A g, h \in {"wait", "op"} : <<g, h>> \in Seq({"wait", "op"})
    OBVIOUS
  <1>2. QED
    BY <1>1

\* check_deadline() is posted once.
LEMMA PostedOnce ==
    ASSUME QueueInv, armed \in BOOLEAN
    PROVE  WaitPosted
  <1>1. CASE armed
    BY <1>1 DEF QueueInv, WaitPosted, Waits
  <1>2. CASE ~ armed
    <2>1. CASE ready = <<"wait">>
      <3>1. Waits = {1} /\ 1 \in DOMAIN ready
        BY <2>1 DEF Waits
      <3>2. QED
        BY <1>2, <3>1 DEF WaitPosted
    <2>2. CASE ready = <<"op", "wait">>
      <3>1. Waits = {2} /\ 2 \in DOMAIN ready
        BY <2>2 DEF Waits
      <3>2. QED
        BY <1>2, <3>1 DEF WaitPosted
    <2>3. CASE ready = <<"wait", "op">>
      <3>1. Waits = {1} /\ 1 \in DOMAIN ready
        BY <2>3 DEF Waits
      <3>2. QED
        BY <1>2, <3>1 DEF WaitPosted
    <2>4. QED
      BY <1>2, <2>1, <2>2, <2>3 DEF QueueInv
  <1>3. QED
    BY <1>1, <1>2

\* Setting the timer, when no operation's handler is queued (in q): the wait stays
\* posted, and is queued unless the timeout is infinite.
LEMMA TimerSet ==
    ASSUME NEW t, NEW d, NEW q, armed \in BOOLEAN, q = IF armed THEN <<>> ELSE <<"wait">>,
           Expiration(t, d)
    PROVE  /\ WithCancelled(t, q) = IF armed' THEN <<>> ELSE <<"wait">>
           /\ t # Infinite => WithCancelled(t, q) = <<"wait">>
  <1>1. CASE armed /\ t # Infinite
    <2>1. ~ armed'
      BY <1>1 DEF Expiration
    <2>2. WithCancelled(t, q) = <<"wait">>
      BY <1>1, QueueFacts DEF WithCancelled
    <2>3. QED
      BY <2>1, <2>2
  <1>2. CASE armed /\ t = Infinite
    <2>1. armed' 
      BY <1>2 DEF Expiration
    <2>2. QED
      BY <1>2, <2>1 DEF WithCancelled
  <1>3. CASE ~ armed
    <2>1. ~ armed'
      BY <1>3 DEF Expiration
    <2>2. QED
      BY <1>3, <2>1 DEF WithCancelled
  <1>4. QED
    BY <1>1, <1>2, <1>3

\* Every step leaves such a queue, if a late call has the timer to itself.
LEMMA QueueStep ==
    ASSUME armed \in BOOLEAN, fired \in BOOLEAN, late => TimerOwned, QueueInv, [Next]_vars
    PROVE  QueueInv'
  <1>1. armed \in BOOLEAN /\ fired \in BOOLEAN
    OBVIOUS
  <1>2. 0 # Infinite
    BY TimedAssumption DEF Infinite
  <1>3. ASSUME NEW d \in Timeouts, call = "none", fired' = FALSE, call' # "none",
               left' = d, late' = (d = 0), Expiration(d, d), ready' = WithCancelled(d, ready)
        PROVE  QueueInv'
    <2>1. ready = IF armed THEN <<>> ELSE <<"wait">>
      BY <1>3, QueueFacts DEF QueueInv
    <2>2. /\ ready' = IF armed' THEN <<>> ELSE <<"wait">>
          /\ d # Infinite => ready' = <<"wait">>
      BY <1>1, <1>3, <2>1, TimerSet
    <2>3. late' => left' = 0 /\ ready' = <<"wait">>
      BY <1>2, <1>3, <2>2
    <2>4. QED
      BY <1>3, <2>2, <2>3 DEF QueueInv
  <1>4. ASSUME NEW d \in Timeouts \ {0}, Connect(d)
        PROVE  QueueInv'
    BY <1>3, <1>4 DEF Connect, Start
  <1>5. ASSUME NEW k \in Sends \cup Receives, NEW n \in 0..MaxBytes, NEW d \in Timeouts, IO(k, n, d)
        PROVE  QueueInv'
    <2>1. call = "none" /\ fired' = FALSE /\ call' # "none" /\ left' = d /\ late' = (d = 0)
      BY <1>5 DEF IO, Start, Sends, Receives
    <2>2. CASE ~ AtOnce(n)
      BY <1>3, <1>5, <2>1, <2>2 DEF IO
    <2>3. CASE AtOnce(n)
      <3>1. ready = IF armed THEN <<>> ELSE <<"wait">>
        BY <2>1, QueueFacts DEF QueueInv
      <3>2. /\ WithCancelled(d, ready) = IF armed' THEN <<>> ELSE <<"wait">>
            /\ d # Infinite => WithCancelled(d, ready) = <<"wait">>
        BY <1>1, <1>5, <3>1, TimerSet DEF IO
      <3>3. ready' = Append(WithCancelled(d, ready), "op")
        BY <1>5, <2>3 DEF IO
      <3>4. /\ ready' = IF armed' THEN <<"op">> ELSE <<"wait", "op">>
            /\ d # Infinite => ready' = <<"wait", "op">>
        BY <3>2, <3>3, QueueFacts
      <3>5. late' => left' = 0 /\ ready' = <<"wait", "op">>
        BY <1>2, <2>1, <3>4
      <3>6. QED
        BY <2>1, <3>4, <3>5 DEF QueueInv
    <2>4. QED
      BY <2>2, <2>3
  <1>6. ASSUME NEW d \in Timeouts, Resolve(d)
        PROVE  QueueInv'
    BY <1>3, <1>6 DEF Resolve, Start
  <1>7. ASSUME TooShort
        PROVE  QueueInv'
    <2>1. /\ call = "none" /\ UNCHANGED <<call, left>> /\ late' = FALSE
          /\ Expiration(0, Infinite) /\ ready' = WithCancelled(0, ready)
      BY <1>7 DEF TooShort
    <2>2. ready = IF armed THEN <<>> ELSE <<"wait">>
      BY <2>1, QueueFacts DEF QueueInv
    <2>3. ready' = IF armed' THEN <<>> ELSE <<"wait">>
      BY <1>1, <2>1, <2>2, TimerSet
    <2>4. QED
      BY <2>1, <2>3 DEF QueueInv
  <1>8. ASSUME CheckDeadline
        PROVE  QueueInv'
    <2>1. ready \in {<<"wait">>, <<"wait", "op">>} /\ call # "none" /\ armed'
      BY <1>8, QueueFacts DEF QueueInv, CheckDeadline
    <2>2. CASE timer = 0
      <3>1. ready' \in {<<>>, <<"op">>} /\ fired'
        BY <1>8, <2>1, <2>2, PendingQueue, QueueFacts DEF CheckDeadline, DeadlineActor
      <3>2. QED
        BY <1>8, <2>1, <3>1 DEF QueueInv, CheckDeadline
    <2>3. CASE timer # 0
      <3>1. ready' \in {<<>>, <<"op">>} /\ UNCHANGED <<fired, call, left, late>>
        BY <1>8, <2>1, <2>3, QueueFacts DEF CheckDeadline
      <3>2. ~ (late /\ ~ fired)
        BY <2>1, <2>3 DEF QueueInv, TimerOwned
      <3>3. QED
        BY <2>1, <3>1, <3>2 DEF QueueInv
    <2>4. QED
      BY <2>2, <2>3
  <1>9. ASSUME Complete \/ Connected
        PROVE  QueueInv'
    <2>1. ready \in {<<"op">>, <<"op", "wait">>} /\ call' = "none" /\ UNCHANGED <<fired, left, late>>
      BY <1>9, QueueFacts DEF QueueInv, Complete, Connected
    <2>2. Expiration(left, Infinite) /\ ready' = WithCancelled(left, Tail(ready))
      BY <1>9 DEF Complete, Connected
    <2>3. ~ (late /\ ~ fired)
      BY <2>1 DEF QueueInv
    <2>4. Tail(ready) = IF armed THEN <<>> ELSE <<"wait">>
      BY <2>1, QueueFacts DEF QueueInv
    <2>5. PICK q : q = Tail(ready)
      OBVIOUS
    <2>6. WithCancelled(left, q) = IF armed' THEN <<>> ELSE <<"wait">>
      <3>1. q = IF armed THEN <<>> ELSE <<"wait">>
        BY <2>4, <2>5
      <3>2. QED
        BY <1>1, <2>2, <3>1, TimerSet
    <2>7. QED
      BY <2>1, <2>2, <2>3, <2>5, <2>6 DEF QueueInv
  <1>10. ASSUME NEW e, Finish(e)
         PROVE  QueueInv'
    <2>1. call # "none" /\ ready = IF armed THEN <<>> ELSE <<"wait">>
      BY <1>10, PendingQueue, QueueFacts DEF QueueInv, Finish
    <2>2. ready' = IF armed THEN <<"op">> ELSE <<"wait", "op">>
      BY <1>10, <2>1, QueueFacts DEF Finish
    <2>3. (late /\ ~ fired) => ~ armed
      BY <2>1, QueueFacts DEF QueueInv
    <2>4. UNCHANGED <<call, armed, fired, left, late>>
      BY <1>10 DEF Finish
    <2>5. QED
      BY <2>1, <2>2, <2>3, <2>4 DEF QueueInv
  <1>11. ASSUME NEW e \in {"ok", "refused", "timed_out"}, ConnectResult(e)
         PROVE  QueueInv'
    BY <1>10, <1>11 DEF ConnectResult
  <1>12. ASSUME NEW m \in 1..MaxBytes, Transfer(m)
         PROVE  QueueInv'
    <2>1. Finish("ok") \/ UNCHANGED <<call, ready, armed, fired, left, late>>
      BY <1>12 DEF Transfer
    <2>2. QED
      BY <1>10, <2>1 DEF QueueInv
  <1>13. ASSUME NEW m \in 0..MaxBytes, Datagram(m)
         PROVE  QueueInv'
    BY <1>10, <1>13 DEF Datagram
  <1>14. ASSUME NEW e \in {"ok", "not_found", "aborted"}, NEW m \in 0..MaxBytes, Answer(e, m)
         PROVE  QueueInv'
    BY <1>10, <1>14 DEF Answer
  <1>15. ASSUME NEW e \in {"refused", "broken_pipe", "eof", "timed_out"}, Fail(e)
         PROVE  QueueInv'
    BY <1>10, <1>15 DEF Fail
  <1>16. ASSUME TimerExpires
         PROVE  QueueInv'
    BY <1>1, <1>16, QueueFacts DEF QueueInv, TimerExpires
  <1>17. ASSUME Tick
         PROVE  QueueInv'
    BY <1>17 DEF QueueInv, Tick
  <1>18. ASSUME Close \/ Destroy \/ Dead \/ UNCHANGED vars
         PROVE  QueueInv'
    BY <1>18 DEF QueueInv, Close, Destroy, Dead, vars
  <1>19. QED
    BY <1>4, <1>5, <1>6, <1>7, <1>8, <1>9, <1>11, <1>12, <1>13, <1>14, <1>15, <1>16,
       <1>17, <1>18 DEF Next, RunOne

(***************************************************************************)
(* The timer                                                               *)
(***************************************************************************)
\* An object that is about to be constructed, and a resolver.
LEMMA TimerInit == Init => TimerInv /\ QueueInv
  <1> SUFFICES ASSUME Init PROVE TimerInv /\ QueueInv
    OBVIOUS
  <1>1. armed \in BOOLEAN /\ fired \in BOOLEAN /\ late \in BOOLEAN
    BY Zenon DEF Init
  <1>2. ready = <<>> /\ armed /\ ~ fired /\ ~ late
    BY DEF Init
  <1>3. QueueInv
    BY <1>2 DEF QueueInv
  <1>4. ready \in Seq({"wait", "op"})
    BY <1>2, QueueTypes
  <1>5. TypeOK
    BY <1>1, <1>4, TimedAssumption DEF Init, TypeOK, Infinite, Calls, Outcomes
  <1>6. QED
    BY <1>2, <1>3, <1>5 DEF Init, TimerInv, TimerOwned, NoEarlyTimeout, TimeoutCloses

\* The beginning of a call.
LEMMA StartStep ==
    ASSUME TimerInv, ready' \in Seq({"wait", "op"}),
           NEW k \in Calls, NEW n \in 0..MaxBytes, NEW d \in Timeouts,
           Start(k, n, d), Expiration(d, d), err' \in Outcomes
    PROVE  TimerInv'
  <1>1. fired' = FALSE /\ late' = (d = 0) /\ armed' = (armed /\ d = Infinite)
    BY DEF Start, Expiration
  <1>2. fired' \in BOOLEAN /\ ~ fired' /\ late' \in BOOLEAN /\ armed' \in BOOLEAN
    BY <1>1, Zenon
  <1>3. call' = k /\ want' = n /\ done' = 0 /\ ec' = "would_block" /\ left' = d
        /\ UNCHANGED <<kind, sock>>
    BY DEF Start
  <1>4. k # "none"
    BY DEF Calls, Sends, Receives
  <1>5. timer' = d /\ timer' \in 0..Infinite /\ left' \in 0..Infinite
    BY <1>3, TimedAssumption DEF Expiration, Timeouts, TimerInv, TimerOwned, Start
  <1>6. TypeOK'
    BY <1>2, <1>3, <1>5, TimedAssumption DEF TimerInv, TypeOK, Timeouts
  <1>7. QED
    BY <1>2, <1>3, <1>4, <1>5, <1>6 DEF TimerInv, TimerOwned, NoEarlyTimeout, TimeoutCloses

\* An operation's handler is queued.
LEMMA FinishStep ==
    ASSUME TimerInv, ready' \in Seq({"wait", "op"}), NEW e \in Outcomes, Finish(e), done' \in 0..want
    PROVE  TimerInv'
  BY DEF TimerInv, TypeOK, TimerOwned, NoEarlyTimeout, TimeoutCloses, Finish

\* Every step keeps the timer with the call in progress.
LEMMA TimerStep ==
    ASSUME TimerInv, QueueInv, [Next]_vars
    PROVE  TimerInv' /\ QueueInv'
  <1>1. QueueInv'
    <2>1. armed \in BOOLEAN /\ fired \in BOOLEAN /\ (late => TimerOwned)
      BY DEF TimerInv, TypeOK
    <2>2. QED
      BY <2>1, QueueStep
  <1>2. ready' \in Seq({"wait", "op"})
    <2>1. ready' \in {<<>>, <<"wait">>, <<"op">>, <<"op", "wait">>, <<"wait", "op">>}
      BY <1>1 DEF QueueInv
    <2>2. QED
      BY <2>1, QueueTypes
  <1>3. ASSUME NEW d \in Timeouts \ {0}, Connect(d)
        PROVE  TimerInv'
    <2>1. "connect" \in Calls /\ 0 \in 0..MaxBytes /\ err' \in Outcomes
      BY <1>3, TimedAssumption DEF Calls, Connect, TimerInv, TypeOK
    <2>2. QED
      BY <1>2, <1>3, <2>1, StartStep DEF Connect
  <1>4. ASSUME NEW k \in Sends \cup Receives, NEW n \in 0..MaxBytes, NEW d \in Timeouts, IO(k, n, d)
        PROVE  TimerInv'
    <2>1. k \in Calls /\ n \in 0..MaxBytes
      BY TimedAssumption DEF Calls
    <2>2. err' \in Outcomes
      BY <1>4 DEF IO, TimerInv, TypeOK, Outcomes
    <2>3. QED
      BY <1>2, <1>4, <2>1, <2>2, StartStep DEF IO
  <1>5. ASSUME NEW d \in Timeouts, Resolve(d)
        PROVE  TimerInv'
    <2>1. "resolve" \in Calls /\ MaxBytes \in 0..MaxBytes /\ err' \in Outcomes
      BY <1>5, TimedAssumption DEF Calls, Resolve, TimerInv, TypeOK
    <2>2. QED
      BY <1>2, <1>5, <2>1, StartStep DEF Resolve
  <1>6. ASSUME TooShort
        PROVE  TimerInv'
    <2>1. fired' = FALSE /\ late' = FALSE
      BY <1>6 DEF TooShort
    <2>2. fired' \in BOOLEAN /\ ~ fired' /\ late' \in BOOLEAN
      BY <2>1, Zenon
    <2>3. armed' = (armed /\ 0 = Infinite)
      BY <1>6 DEF TooShort, Expiration
    <2>4. armed' \in BOOLEAN
      BY <2>3, Zenon
    <2>5. timer' = Infinite /\ timer' \in 0..Infinite
      BY <1>6, TimedAssumption DEF TooShort, Expiration, Infinite
    <2>6. ec' = "timed_out" /\ ec' \in Outcomes
      BY <1>6 DEF TooShort, Outcomes
    <2>7. QED
      BY <1>2, <1>6, <2>2, <2>4, <2>5, <2>6
         DEF TimerInv, TypeOK, TimerOwned, NoEarlyTimeout, TimeoutCloses, TooShort
  <1>7. ASSUME CheckDeadline
        PROVE  TimerInv'
    <2>1. armed' = TRUE
      BY <1>7 DEF CheckDeadline
    <2>2. armed' \in BOOLEAN
      BY <2>1, Zenon
    <2>3. CASE timer = 0
      <3>1. fired' = TRUE
        BY <1>7, <2>3 DEF CheckDeadline
      <3>2. fired' \in BOOLEAN /\ fired'
        BY <3>1, Zenon
      <3>3. left = 0 /\ call # "none"
        BY <1>7, <2>3, TimedAssumption DEF TimerInv, TimerOwned, Infinite, CheckDeadline
      <3>4. timer' = Infinite /\ UNCHANGED <<kind, call, want, done, ec, left, late>>
        BY <1>7, <2>3 DEF CheckDeadline
      <3>5. /\ err' \in Outcomes /\ sock' \in {sock, "closed"}
            /\ kind = "resolver" \/ sock' = "closed"
        BY <1>7, <2>3 DEF TimerInv, TypeOK, Outcomes, CheckDeadline, DeadlineActor
      <3>6. TypeOK'
        BY <1>2, <2>2, <3>2, <3>4, <3>5, TimedAssumption DEF TimerInv, TypeOK, Infinite
      <3>7. QED
        BY <3>2, <3>3, <3>4, <3>5, <3>6
           DEF TimerInv, TimerOwned, NoEarlyTimeout, TimeoutCloses
    <2>4. CASE timer # 0
      BY <1>2, <1>7, <2>2, <2>4
         DEF TimerInv, TypeOK, TimerOwned, NoEarlyTimeout, TimeoutCloses, CheckDeadline
    <2>5. QED
      BY <2>3, <2>4
  <1>8. ASSUME Complete \/ Connected
        PROVE  TimerInv'
    <2>1. /\ ec' = IF fired THEN "timed_out" ELSE err
          /\ Expiration(left, Infinite) /\ call' = "none" /\ call # "none"
          /\ UNCHANGED <<kind, want, done, err, fired, left, late>>
      BY <1>8 DEF Complete, Connected
    <2>2. sock' \in {"none", "open", "shut", "closed", "dead"}
          /\ (fired => sock' \in {sock, "dead"})
      BY <1>8 DEF TimerInv, TypeOK, Complete, Connected
    <2>3. armed' = (armed /\ left = Infinite)
      BY <2>1 DEF Expiration
    <2>4. armed' \in BOOLEAN
      BY <2>3, Zenon
    <2>5. timer' = Infinite /\ Infinite \in 0..Infinite
      BY <2>1, TimedAssumption
         DEF TimerInv, TypeOK, TimerOwned, NoEarlyTimeout, Expiration, Infinite
    <2>6. ec' \in Outcomes /\ (fired => ec' = "timed_out")
      BY <2>1 DEF TimerInv, TypeOK, Outcomes
    <2>7. TypeOK'
      BY <1>2, <2>1, <2>2, <2>4, <2>5, <2>6 DEF TimerInv, TypeOK
    <2>8. QED
      BY <2>1, <2>2, <2>5, <2>6, <2>7 DEF TimerInv, TimerOwned, NoEarlyTimeout, TimeoutCloses
  <1>9. ASSUME Close \/ Destroy
        PROVE  TimerInv'
    BY <1>2, <1>9
       DEF TimerInv, TypeOK, TimerOwned, NoEarlyTimeout, TimeoutCloses, Close, Destroy
  <1>10. ASSUME NEW e \in {"ok", "refused", "timed_out"}, ConnectResult(e)
        PROVE  TimerInv'
    BY <1>2, <1>10, FinishStep DEF TimerInv, TypeOK, ConnectResult, Outcomes
  <1>11. ASSUME NEW m \in 1..MaxBytes, Transfer(m)
        PROVE  TimerInv'
    <2>1. done' \in 0..want
      BY <1>11, TimedAssumption DEF TimerInv, TypeOK, Transfer
    <2>2. CASE Finish("ok")
      BY <1>2, <2>1, <2>2, FinishStep DEF Outcomes
    <2>3. CASE UNCHANGED <<kind, sock, call, want, ec, err, ready, armed, timer, fired, left, late>>
      BY <2>1, <2>3 DEF TimerInv, TypeOK, TimerOwned, NoEarlyTimeout, TimeoutCloses
    <2>4. QED
      BY <1>11, <2>2, <2>3 DEF Transfer
  <1>12. ASSUME NEW m \in 0..MaxBytes, Datagram(m)
        PROVE  TimerInv'
    <2>1. done' \in 0..want
      BY <1>12, TimedAssumption DEF TimerInv, TypeOK, Datagram
    <2>2. QED
      BY <1>2, <1>12, <2>1, FinishStep DEF Datagram, Outcomes
  <1>13. ASSUME NEW e \in {"ok", "not_found", "aborted"}, NEW m \in 0..MaxBytes, Answer(e, m)
        PROVE  TimerInv'
    <2>1. done' \in 0..want
      BY <1>13, TimedAssumption DEF TimerInv, TypeOK, Answer
    <2>2. QED
      BY <1>2, <1>13, <2>1, FinishStep DEF Answer, Outcomes
  <1>14. ASSUME NEW e \in {"refused", "broken_pipe", "eof", "timed_out"}, Fail(e)
        PROVE  TimerInv'
    <2>1. Finish(e)
      BY <1>14 DEF Fail
    <2>2. done' \in 0..want
      BY <1>14 DEF Fail, TimerInv, TypeOK
    <2>3. QED
      BY <1>2, <2>1, <2>2, FinishStep DEF Outcomes
  <1>15. ASSUME TimerExpires
        PROVE  TimerInv'
    <2>1. armed' = FALSE
          /\ UNCHANGED <<kind, sock, call, want, done, ec, err, timer, fired, left, late>>
      BY <1>15 DEF TimerExpires
    <2>2. armed' \in BOOLEAN
      BY <2>1, Zenon
    <2>3. QED
      BY <1>2, <2>1, <2>2
         DEF TimerInv, TypeOK, TimerOwned, NoEarlyTimeout, TimeoutCloses
  <1>16. ASSUME Tick
        PROVE  TimerInv'
    BY <1>2, <1>16, TimedAssumption
       DEF TimerInv, TypeOK, TimerOwned, NoEarlyTimeout, TimeoutCloses, Infinite, Tick
  <1>17. ASSUME Dead \/ UNCHANGED vars
        PROVE  TimerInv'
    BY <1>17 DEF TimerInv, TypeOK, TimerOwned, NoEarlyTimeout, TimeoutCloses, Dead, vars
  <1>18. QED
    BY <1>1, <1>3, <1>4, <1>5, <1>6, <1>7, <1>8, <1>9, <1>10, <1>11, <1>12, <1>13,
       <1>14, <1>15, <1>16, <1>17
       DEF Next, RunOne

(***************************************************************************)
(* The theorems                                                            *)
(***************************************************************************)
\* Types, the owner of the timer, and when and how a deadline fires, together with
\* the order of the handlers: for every sequence of calls with any timeouts.
THEOREM TimerInvariant == Spec => [](TimerInv /\ QueueInv)
  BY TimerInit, TimerStep, PTL DEF Spec

\* The variables of the object keep their types.
THEOREM TypeCorrect == Spec => []TypeOK
  BY TimerInvariant, PTL DEF TimerInv

\* No deadline fires before the timeout of the call it ends has passed.
THEOREM TimeoutsNotEarly == Spec => []NoEarlyTimeout
  BY TimerInvariant, PTL DEF TimerInv

\* The timer is off between calls and runs with the call's timeout in them.
THEOREM TimerHasOwner == Spec => []TimerOwned
  BY TimerInvariant, PTL DEF TimerInv

\* A deadline that fired is reported as timed_out, whatever the operation met, by a
\* socket that is then closed.
THEOREM TimeoutsClose == Spec => []TimeoutCloses
  BY TimerInvariant, PTL DEF TimerInv

\* The wait of the timer is posted exactly once, pending or queued, in every state.
THEOREM WaitAlwaysPosted == Spec => []WaitPosted
  <1>1. TimerInv /\ QueueInv => WaitPosted
    BY PostedOnce DEF TimerInv, TypeOK
  <1>2. QED
    BY <1>1, TimerInvariant, PTL

\* A call that begins after its deadline is ended by it and reports timed_out, whatever
\* else is ready.
THEOREM LateCallsTimeOut == Spec => []LateCallsFail
  <1>1. TimerInv /\ QueueInv => LateCallsFail
    BY DEF TimerInv, QueueInv, TimeoutCloses, LateCallsFail
  <1>2. QED
    BY <1>1, TimerInvariant, PTL

(***************************************************************************)
(* Calls and their operations                                              *)
(***************************************************************************)
\* The handler of the operation is queued.
Queued == ready \in {<<"op">>, <<"op", "wait">>, <<"wait", "op">>}

\* What the refinement needs to know of a call: what the object offers; that a pending
\* operation is one of an open socket whose deadline has not fired; and that an
\* operation with a result has done enough for success.
CallInv ==
    /\ kind = "resolver" => call \in {"none", "resolve"} /\ sock \in {"open", "dead"}
    /\ kind = "udp" => sock # "shut"
    /\ call = "resolve" => kind = "resolver"
    /\ call \in Sends \cup Receives => Offers(call)
    /\ (call # "none" /\ ~ Queued) =>
         /\ fired => kind = "resolver"
         /\ kind # "tcp" => done = 0
         /\ call \in Sends \cup Receives => sock \in {"open", "shut"}
    /\ (Queued /\ ~ fired /\ err = "ok") => Stream!Enough(done) /\ Stream!Writable

\* In the initial state nothing is pending or queued.
LEMMA CallInit == Init => CallInv
  BY QueueFacts DEF Init, CallInv, Queued, Sends, Receives

\* Pending, in terms of the queue.
LEMMA PendingNotQueued ==
    ASSUME QueueInv
    PROVE  /\ Pending <=> (call # "none" /\ ~ Queued)
           /\ call = "none" => ~ Queued
  BY PendingQueue, QueueFacts DEF QueueInv, Queued

\* How the queue changes when no handler of an operation is added or run.
LEMMA QueuedSame ==
    ASSUME QueueInv, TimerExpires \/ (CheckDeadline /\ timer # 0)
    PROVE  Queued' <=> Queued
  <1>1. CASE TimerExpires
    BY <1>1, QueueFacts DEF QueueInv, TimerExpires, Queued
  <1>2. CASE CheckDeadline /\ timer # 0
    <2>1. ready \in {<<"wait">>, <<"wait", "op">>} /\ ready' = Tail(ready)
      BY <1>2, QueueFacts DEF QueueInv, CheckDeadline
    <2>2. QED
      BY <2>1, QueueFacts DEF Queued
  <1>3. QED
    BY <1>1, <1>2

\* An operation's handler is queued with a result.
LEMMA QueuedFinish ==
    ASSUME QueueInv, NEW e, Finish(e)
    PROVE  call # "none" /\ ~ Queued /\ Queued'
  <1>1. ready \in {<<>>, <<"wait">>} /\ call # "none"
    BY PendingQueue DEF Finish
  <1>2. ready' \in {<<"op">>, <<"wait", "op">>}
    BY <1>1, QueueFacts DEF Finish
  <1>3. QED
    BY <1>1, <1>2, QueueFacts DEF Queued

\* A call that has begun is pending, unless its operation completes at once.
LEMMA QueuedStart ==
    ASSUME QueueInv, call = "none", NEW d, armed \in BOOLEAN, ready' = WithCancelled(d, ready)
    PROVE  ~ Queued'
  <1>1. ready \in {<<>>, <<"wait">>} /\ (armed => ready = <<>>)
    BY QueueFacts DEF QueueInv
  <1>2. ready' \in {<<>>, <<"wait">>}
    BY <1>1, QueueFacts DEF WithCancelled
  <1>3. QED
    BY <1>2, QueueFacts DEF Queued

\* Every step keeps CallInv.
LEMMA CallStep ==
    ASSUME TimerInv, QueueInv, QueueInv', CallInv, [Next]_vars
    PROVE  CallInv'
  <1>1. armed \in BOOLEAN /\ fired \in BOOLEAN
    BY DEF TimerInv, TypeOK
  <1>2. call' = "none" => ~ Queued'
    BY QueueFacts DEF QueueInv, Queued
  <1>3. ASSUME NEW d \in Timeouts \ {0}, Connect(d)
        PROVE  CallInv'
    <2>1. ~ Queued'
      BY <1>1, <1>3, QueuedStart DEF Connect, Start
    <2>2. QED
      BY <1>3, <2>1 DEF CallInv, Connect, Start, Sends, Receives
  <1>4. ASSUME NEW k \in Sends \cup Receives, NEW n \in 0..MaxBytes, NEW d \in Timeouts, IO(k, n, d)
        PROVE  CallInv'
    <2>1. /\ call' = k /\ done' = 0 /\ ~ fired' /\ UNCHANGED <<kind, sock>>
          /\ Offers(k) /\ sock \in {"open", "shut", "closed"} /\ call = "none"
      BY <1>4 DEF IO, Start
    <2>2. kind # "resolver" /\ k # "resolve" /\ Offers(k)'
      BY <2>1 DEF Offers, Sends, Receives
    <2>3. CASE AtOnce(n)
      <3>1. err' = "bad_descriptor" \/ (err' = "ok" /\ kind = "tcp" /\ n = 0)
        BY <1>4, <2>3 DEF IO, Nothing
      <3>e. err' = "ok" => Stream!Enough(done)' /\ Stream!Writable'
        BY <1>4, <2>1, <3>1 DEF IO, Start, Stream!Enough, Stream!Writable, Sends, Receives
      <3>2. Queued'
        <4>1. ready \in {<<>>, <<"wait">>} /\ (armed => ready = <<>>)
          BY <2>1, QueueFacts DEF QueueInv
        <4>2. WithCancelled(d, ready) \in {<<>>, <<"wait">>}
          BY <4>1, QueueFacts DEF WithCancelled
        <4>3. QED
          BY <1>4, <2>3, <4>2, QueueFacts DEF IO, Queued
      <3>3. QED
        BY <2>1, <2>2, <3>e, <3>2 DEF CallInv
    <2>4. CASE ~ AtOnce(n)
      <3>1. ~ Queued'
        BY <1>1, <1>4, <2>1, <2>4, QueuedStart DEF IO
      <3>2. QED
        BY <2>1, <2>2, <2>4, <3>1 DEF CallInv, AtOnce
    <2>5. QED
      BY <2>3, <2>4
  <1>5. ASSUME NEW d \in Timeouts, Resolve(d)
        PROVE  CallInv'
    <2>1. ~ Queued'
      BY <1>1, <1>5, QueuedStart DEF Resolve, Start
    <2>2. QED
      BY <1>5, <2>1 DEF CallInv, Resolve, Start, Sends, Receives
  <1>6. ASSUME TooShort \/ Close \/ Destroy
        PROVE  CallInv'
    <2>1. call = "none" /\ call' = "none" /\ UNCHANGED kind
      BY <1>6 DEF TooShort, Close, Destroy
    <2>2. /\ kind = "resolver" => sock' \in {"open", "dead"}
          /\ kind = "udp" => sock' # "shut"
      BY <1>6 DEF CallInv, TooShort, Close, Destroy
    <2>3. QED
      BY <1>2, <2>1, <2>2 DEF CallInv, Sends, Receives
  <1>7. ASSUME CheckDeadline
        PROVE  CallInv'
    <2>1. UNCHANGED <<kind, call, want, done>>
      BY <1>7 DEF CheckDeadline
    <2>2. CASE timer # 0
      <3>1. Queued' <=> Queued
        BY <1>7, <2>2, QueuedSame
      <3>2. UNCHANGED <<sock, fired, err>>
        BY <1>7, <2>2 DEF CheckDeadline
      <3>3. QED
        BY <2>1, <3>1, <3>2 DEF CallInv, Offers, Stream!Enough, Stream!Writable
    <2>3. CASE timer = 0 /\ kind = "resolver"
      <3>1. fired' /\ UNCHANGED sock
        BY <1>7, <2>3 DEF CheckDeadline, DeadlineActor
      <3>2. ready \in {<<"wait">>, <<"wait", "op">>} /\ ready' = Tail(ready)
        BY <1>7, <2>3, QueueFacts DEF QueueInv, CheckDeadline, DeadlineActor
      <3>3. Queued' <=> Queued
        BY <3>2, QueueFacts DEF Queued
      <3>4. QED
        BY <2>1, <2>3, <3>1, <3>3 DEF CallInv, Offers, Sends, Receives
    <2>4. CASE timer = 0 /\ kind # "resolver"
      <3>1. fired' /\ sock' = "closed"
        BY <1>7, <2>4 DEF CheckDeadline, DeadlineActor
      <3>2. Queued'
        <4>1. ready \in {<<"wait">>, <<"wait", "op">>} /\ call # "none"
          BY <1>7, QueueFacts DEF QueueInv, CheckDeadline
        <4>2. ready' = <<"op">>
          BY <1>7, <2>4, <4>1, PendingQueue, QueueFacts DEF CheckDeadline, DeadlineActor
        <4>3. QED
          BY <4>2 DEF Queued
      <3>3. QED
        BY <2>1, <2>4, <3>1, <3>2 DEF CallInv, Offers
    <2>5. QED
      BY <2>2, <2>3, <2>4
  <1>8. ASSUME Complete \/ Connected
        PROVE  CallInv'
    <2>1. call' = "none" /\ UNCHANGED kind
      BY <1>8 DEF Complete, Connected
    <2>2. /\ kind = "resolver" => sock' \in {"open", "dead"}
          /\ kind = "udp" => sock' # "shut"
      BY <1>8 DEF CallInv, Complete, Connected
    <2>3. QED
      BY <1>2, <2>1, <2>2 DEF CallInv, Sends, Receives
  <1>9. ASSUME NEW e, Finish(e), (e = "ok" /\ ~ fired) => Stream!Enough(done') /\ Stream!Writable
        PROVE  CallInv'
    <2>1. Queued' /\ err' = e /\ UNCHANGED <<kind, sock, call, want, fired>>
      BY <1>9, QueuedFinish DEF Finish
    <2>2. (e = "ok" /\ ~ fired) => Stream!Enough(done)' /\ Stream!Writable'
      BY <1>9, <2>1 DEF Stream!Enough, Stream!Writable
    <2>3. QED
      BY <2>1, <2>2 DEF CallInv, Offers
  <1>10. ASSUME NEW e \in {"ok", "refused", "timed_out"}, ConnectResult(e)
         PROVE  CallInv'
    BY <1>9, <1>10 DEF ConnectResult, Stream!Enough, Stream!Writable
  <1>11. ASSUME NEW m \in 1..MaxBytes, Transfer(m)
         PROVE  CallInv'
    <2>1. done' = done + m /\ done + m <= want /\ kind = "tcp" /\ Pending
      BY <1>11, TimedAssumption DEF TimerInv, TypeOK, Transfer
    <2>2. CASE Finish("ok")
      <3>1. call \in Receives \/ (call \in Sends /\ sock = "open")
        BY <1>11 DEF Transfer
      <3>2. Whole(call) => done' = want
        BY <1>11, <2>1, <2>2, QueuedFinish, PendingNotQueued, TimedAssumption
           DEF Transfer, TimerInv, TypeOK, Finish
      <3>3. done' \in 1..want
        BY <2>1, TimedAssumption DEF TimerInv, TypeOK
      <3>4. Stream!Enough(done') /\ Stream!Writable
        BY <3>1, <3>2, <3>3 DEF Stream!Enough, Stream!Writable, Whole, Sends, Receives
      <3>5. QED
        BY <1>9, <2>2, <3>4
    <2>3. CASE UNCHANGED <<kind, sock, call, want, ec, err, ready, armed, timer, fired, left, late>>
      <3>1. ~ Queued /\ ~ Queued'
        BY <2>1, <2>3, PendingNotQueued DEF Queued
      <3>2. QED
        BY <2>1, <2>3, <3>1 DEF CallInv, Offers
    <2>4. QED
      BY <1>11, <2>2, <2>3 DEF Transfer
  <1>12. ASSUME NEW m \in 0..MaxBytes, Datagram(m)
         PROVE  CallInv'
    <2>1. /\ kind = "udp" /\ Finish("ok") /\ done' = m
          /\ call \in Sends \cup Receives /\ (call \in Sends => m = want)
      BY <1>12 DEF Datagram
    <2>2. call # "none" /\ ~ Queued
      BY <2>1, QueuedFinish
    <2>3. sock = "open" /\ call \in {"send", "receive"}
      BY <2>1, <2>2 DEF CallInv, Offers, Whole
    <2>4. Stream!Enough(done') /\ Stream!Writable
      BY <2>1, <2>3 DEF Stream!Enough, Stream!Writable, Sends, Receives
    <2>5. QED
      BY <1>9, <2>1, <2>4
  <1>13. ASSUME NEW e \in {"ok", "not_found", "aborted"}, NEW m \in 0..MaxBytes, Answer(e, m)
         PROVE  CallInv'
    <2>1. call = "resolve" /\ Finish(e) /\ done' = m /\ m <= want /\ (e = "ok" <=> m > 0)
      BY <1>13 DEF Answer
    <2>2. e = "ok" => Stream!Enough(done') /\ Stream!Writable
      BY <2>1, TimedAssumption DEF Stream!Enough, Stream!Writable
    <2>3. QED
      BY <1>9, <2>1, <2>2
  <1>14. ASSUME NEW e \in {"refused", "broken_pipe", "eof", "timed_out"}, Fail(e)
         PROVE  CallInv'
    <2>1. Finish(e)
      BY <1>14 DEF Fail
    <2>2. QED
      BY <1>9, <2>1
  <1>15. ASSUME TimerExpires
         PROVE  CallInv'
    <2>1. Queued' <=> Queued
      BY <1>15, QueuedSame
    <2>2. UNCHANGED <<kind, sock, call, want, done, err, fired>>
      BY <1>15 DEF TimerExpires
    <2>3. QED
      BY <2>1, <2>2 DEF CallInv, Offers, Stream!Enough, Stream!Writable
  <1>16. ASSUME Tick \/ Dead \/ UNCHANGED vars
         PROVE  CallInv'
    <2>1. UNCHANGED <<kind, sock, call, want, done, err, fired, ready>>
      BY <1>16 DEF Tick, Dead, vars
    <2>2. QED
      BY <2>1 DEF CallInv, Offers, Queued, Stream!Enough, Stream!Writable
  <1>17. QED
    BY <1>3, <1>4, <1>5, <1>6, <1>7, <1>8, <1>10, <1>11, <1>12, <1>13, <1>14, <1>15, <1>16
       DEF Next, RunOne

(***************************************************************************)
(* The refinement: every step of TimedSocket is a step of TimedStream, or  *)
(* leaves its variables alone.                                             *)
(***************************************************************************)
\* Initial states are initial states of TimedStream.
LEMMA StreamInitial == Init => Stream!StreamInit
  BY DEF Init, Stream!StreamInit, Infinite, Stream!Infinite

\* A step of TimedSocket is a step of TimedStream, or changes none of its variables.
LEMMA StreamStep ==
    ASSUME TimerInv, QueueInv, CallInv, [Next]_vars
    PROVE  [Stream!StreamNext]_(Stream!streamVars)
  <1>1. ASSUME NEW k \in Calls, NEW n \in 0..MaxBytes, NEW d \in Timeouts,
               Start(k, n, d), sock # "dead"
        PROVE  Stream!StreamNext
    <2>1. k \in Stream!Calls /\ d \in Stream!Timeouts
      BY DEF Calls, Sends, Receives, Stream!Calls, Timeouts, Infinite, Stream!Timeouts,
             Stream!Infinite
    <2>2. Stream!Begin(k, n, d)
      BY <1>1 DEF Start, Stream!Begin
    <2>3. QED
      BY <2>1, <2>2 DEF Stream!StreamNext
  <1>2. ASSUME NEW d \in Timeouts \ {0}, Connect(d)
        PROVE  Stream!StreamNext
    BY <1>1, <1>2, TimedAssumption DEF Connect, Calls
  <1>3. ASSUME NEW k \in Sends \cup Receives, NEW n \in 0..MaxBytes, NEW d \in Timeouts, IO(k, n, d)
        PROVE  Stream!StreamNext
    <2>1. k \in Calls /\ n \in 0..MaxBytes
      BY TimedAssumption DEF Calls
    <2>2. QED
      BY <1>1, <1>3, <2>1 DEF IO
  <1>4. ASSUME NEW d \in Timeouts, Resolve(d)
        PROVE  Stream!StreamNext
    <2>1. "resolve" \in Calls /\ MaxBytes \in 0..MaxBytes
      BY TimedAssumption DEF Calls
    <2>2. QED
      BY <1>1, <1>4, <2>1 DEF Resolve
  <1>5. ASSUME TooShort
        PROVE  Stream!StreamNext
    <2>1. Stream!Refuse
      BY <1>5 DEF TooShort, Stream!Refuse
    <2>2. QED
      BY <2>1 DEF Stream!StreamNext
  <1>6. ASSUME Close \/ Destroy
        PROVE  Stream!StreamNext
    <2>1. Stream!Dispose
      BY <1>6 DEF Close, Destroy, Stream!Dispose
    <2>2. QED
      BY <2>1 DEF Stream!StreamNext
  <1>7. ASSUME CheckDeadline
        PROVE  [Stream!StreamNext]_(Stream!streamVars)
    <2>1. CASE timer = 0
      <3>1. call # "none" /\ left = 0 /\ ~ fired
        BY <1>7, <2>1, TimedAssumption DEF CheckDeadline, TimerInv, TimerOwned, Infinite
      <3>2. /\ fired' = TRUE /\ UNCHANGED <<kind, call, want, done, ec, left>>
            /\ sock' = IF kind = "resolver" THEN sock ELSE "closed"
        BY <1>7, <2>1 DEF CheckDeadline, DeadlineActor
      <3>3. Stream!Expire
        BY <3>1, <3>2 DEF Stream!Expire
      <3>4. QED
        BY <3>3 DEF Stream!StreamNext
    <2>2. CASE timer # 0
      BY <1>7, <2>2 DEF CheckDeadline, Stream!streamVars
    <2>3. QED
      BY <2>1, <2>2
  <1>8. ASSUME Complete \/ Connected
        PROVE  Stream!StreamNext
    <2>1. /\ call # "none" /\ call' = "none" /\ UNCHANGED <<kind, want, done, fired, left>>
          /\ ec' = IF fired THEN "timed_out" ELSE err
      BY <1>8 DEF Complete, Connected
    <2>2. Queued
      BY <1>8, QueueFacts DEF Complete, Connected, QueueInv, Queued
    <2>3. done' \in done..want
      BY <2>1 DEF TimerInv, TypeOK
    <2>4. ~ fired => ec' \in Stream!Errors \/ (ec' = "ok" /\ Stream!Enough(done') /\ Stream!Writable)
      <3>1. CASE err = "ok"
        BY <2>1, <2>2, <3>1 DEF CallInv
      <3>2. CASE err # "ok"
        BY <2>1, <3>2 DEF TimerInv, TypeOK, Outcomes, Stream!Errors
      <3>3. QED
        BY <3>1, <3>2
    <2>5. sock' \in IF call = "connect" THEN (IF ec' = "ok" THEN {"open", "dead"} ELSE {"dead"})
                                        ELSE {sock}
      BY <1>8 DEF Complete, Connected
    <2>6. Stream!Return
      BY <2>1, <2>3, <2>4, <2>5 DEF Stream!Return
    <2>7. QED
      BY <2>6 DEF Stream!StreamNext
  <1>9. ASSUME Pending, done' \in done..want, UNCHANGED <<kind, sock, call, want, ec, fired, left>>
        PROVE  Stream!StreamNext
    <2>1. call # "none" /\ (fired => kind = "resolver")
      BY <1>9, PendingNotQueued DEF CallInv
    <2>2. Stream!Progress
      BY <1>9, <2>1 DEF Stream!Progress
    <2>3. QED
      BY <2>2 DEF Stream!StreamNext
  <1>10. ASSUME NEW m \in 1..MaxBytes, Transfer(m)
         PROVE  Stream!StreamNext
    <2>1. done' \in done..want
      BY <1>10, TimedAssumption DEF Transfer, TimerInv, TypeOK
    <2>2. QED
      BY <1>9, <1>10, <2>1 DEF Transfer, Finish
  <1>11. ASSUME NEW m \in 0..MaxBytes, Datagram(m)
         PROVE  Stream!StreamNext
    <2>1. Finish("ok") /\ kind = "udp" /\ done' = m /\ m <= want
      BY <1>11 DEF Datagram
    <2>2. done = 0
      BY <2>1, QueuedFinish DEF CallInv
    <2>3. done' \in done..want
      BY <2>1, <2>2 DEF TimerInv, TypeOK
    <2>4. QED
      BY <1>9, <2>1, <2>3 DEF Finish
  <1>12. ASSUME NEW e \in {"ok", "not_found", "aborted"}, NEW m \in 0..MaxBytes, Answer(e, m)
         PROVE  Stream!StreamNext
    <2>1. Finish(e) /\ call = "resolve" /\ done' = m /\ m <= want
      BY <1>12 DEF Answer
    <2>2. done = 0
      BY <2>1, QueuedFinish DEF CallInv
    <2>3. done' \in done..want
      BY <2>1, <2>2 DEF TimerInv, TypeOK
    <2>4. QED
      BY <1>9, <2>1, <2>3 DEF Finish
  <1>13. ASSUME Tick
         PROVE  Stream!StreamNext
    <2>1. Stream!Pass
      BY <1>13 DEF Tick, Stream!Pass
    <2>2. QED
      BY <2>1 DEF Stream!StreamNext
  <1>14. ASSUME \/ \E e \in {"ok", "refused", "timed_out"} : ConnectResult(e)
                \/ \E e \in {"refused", "broken_pipe", "eof", "timed_out"} : Fail(e)
                \/ TimerExpires \/ Dead \/ UNCHANGED vars
         PROVE  UNCHANGED Stream!streamVars
    BY <1>14 DEF ConnectResult, Fail, Finish, TimerExpires, Dead, vars, Stream!streamVars
  <1>15. QED
    BY <1>2, <1>3, <1>4, <1>5, <1>6, <1>7, <1>8, <1>10, <1>11, <1>12, <1>13, <1>14
       DEF Next, RunOne

\* The timed objects implement calls with a timeout: a deadline is noticed once, not
\* early and for the right call, and is reported; a success is one.
THEOREM Implementation == Spec => ImplementsStream
  <1>1. Init => TimerInv /\ QueueInv /\ CallInv
    BY TimerInit, CallInit
  <1>2. TimerInv /\ QueueInv /\ CallInv /\ [Next]_vars => (TimerInv /\ QueueInv /\ CallInv)'
    BY TimerStep, CallStep
  <1>3. Init => Stream!StreamInit
    BY StreamInitial
  <1>4. TimerInv /\ QueueInv /\ CallInv /\ [Next]_vars => [Stream!StreamNext]_(Stream!streamVars)
    BY StreamStep
  <1>5. QED
    BY <1>1, <1>2, <1>3, <1>4, PTL DEF Spec, ImplementsStream, Stream!StreamSpec

=============================================================================
