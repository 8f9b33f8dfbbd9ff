-------------------------- MODULE SslStreamProofs ---------------------------
(***************************************************************************)
(* For every timeout, buffer size and number of operations in a call of    *)
(* ssl::stream_socket: one expiration governs all the operations of the    *)
(* call, and the SSL stream implements the calls with a timeout of         *)
(* TimedStream, as the plain socket underneath does.                       *)
(***************************************************************************)
EXTENDS SslStream, TimedSocketProofs

\* The calls that scope_expire() governs.
Transfers == {"handshake", "write_some", "read_some"}

\* The types, of the socket underneath too, and its queue; an operation of the engine
\* never begins after its deadline.
SslTypes ==
    /\ TypeOK /\ SslTypeOK /\ moved \in Seq(Nat)
    /\ QueueInv /\ ~ late

\* How the operation in progress belongs to a call, and the call to a job: the
\* operations of a transfer have no timeout of their own.
Layered ==
    /\ kind = "tcp" /\ sock # "shut"
    /\ call \in {"none", "connect", "write_some", "read_some"}
    /\ call = "connect" <=> scall = "connect"
    /\ call # "none" => scall # "none" /\ rounds > 0
    /\ scall = "connect" => left = sleft /\ job = "construct"
    /\ scall \in Transfers => ~ io /\ (call # "none" => left = Infinite)
    /\ scall = "shutdown" => sleft = 0
    /\ scall # "none" => sdone = 0
    /\ job \in DOMAIN Loops => swant > 0
    /\ ((job # "none" \/ scall # "none") /\ scall # "connect") => sock \in {"open", "closed"}

\* What is known of an operation's outcome: a deadline that fired is its result, which
\* the engine sees before it begins another operation and resets deadline_fired_; it
\* succeeds on an open socket only.
Reported ==
    /\ (call # "none" /\ ~ Queued) => ~ fired /\ (call # "connect" => sock = "open")
    /\ (Queued /\ call # "connect" /\ ~ fired /\ err = "ok") => sock = "open"
    /\ (call = "none" /\ rounds > 0) => ec # "would_block" /\ (fired => ec = "timed_out")
    /\ (scall # "none" /\ call = "none" /\ rounds > 0 /\ ec = "ok") => sock = "open"
    /\ (scall \in Transfers /\ rounds = 0) => ~ fired

SslInv == SslTypes /\ Layered /\ SslTimerOwned /\ Reported

(***************************************************************************)
(* Constants and operators                                                 *)
(***************************************************************************)
\* The names of the loops.
LEMMA LoopFacts ==
    /\ DOMAIN Loops = {"send", "receive"}
    /\ \A k \in DOMAIN Loops : Loops[k] \in {"write_some", "read_some"}
  BY DEF Loops

\* Timeouts, and what becomes of them in a tick and in a deadline.
LEMMA TimeoutFacts ==
    /\ Infinite \in Nat /\ Infinite # 0 /\ Infinite \in Timeouts /\ 0 \in Timeouts
    /\ IoTimeout \in Timeouts /\ IoTimeout # Infinite /\ IoTimeout # 0
    /\ Less(0) = 0 /\ Less(Infinite) = Infinite
    /\ \A t \in Timeouts : Less(t) \in Timeouts /\ FromNow(t) \in Timeouts
    /\ \A t \in 1..MaxTimeout : Less(t) = t - 1
    /\ \A t \in Timeouts \ (1..MaxTimeout) : Less(t) = t
  BY TimedAssumption, SslAssumption DEF Infinite, Timeouts, Less, FromNow

\* Counting stops at the bound.
LEMMA CountedFacts ==
    ASSUME NEW s \in Seq(Nat), NEW m \in Nat
    PROVE  /\ Counted(s \o [i \in 1..m |-> i]) \in Seq(Nat)
           /\ Len(Counted(s \o [i \in 1..m |-> i])) <= MaxCount
  <1> DEFINE u == [i \in 1..m |-> i]
             w == s \o u
  <1>1. u \in Seq(Nat)
    OBVIOUS
  <1>2. w \in Seq(Nat)
    BY <1>1, ConcatProperties
  <1> HIDE DEF w
  <1>3. MaxCount \in Nat
    BY SslAssumption
  <1>4. CASE Len(w) > MaxCount
    <2>1. Len(w) \in Nat
      BY <1>2, LenProperties
    <2>2. 1 \in 1..(Len(w) + 1) /\ MaxCount \in 0..Len(w)
      BY <1>3, <1>4, <2>1
    <2>3. SubSeq(w, 1, MaxCount) \in Seq(Nat) /\ Len(SubSeq(w, 1, MaxCount)) = MaxCount
      BY <1>2, <1>3, <2>1, <2>2, <1>4, SubSeqProperties
    <2>4. QED
      BY <1>3, <1>4, <2>3 DEF Counted, w
  <1>5. CASE ~ (Len(w) > MaxCount)
    <2>1. Len(w) \in Nat
      BY <1>2, LenProperties
    <2>2. Counted(w) = w /\ Len(w) <= MaxCount
      BY <1>3, <1>5, <2>1 DEF Counted
    <2>3. QED
      BY <1>2, <2>2 DEF w
  <1>6. QED
    BY <1>4, <1>5

(***************************************************************************)
(* The queue                                                               *)
(***************************************************************************)
\* The steps of the socket underneath are its own steps; with a timeout in an SSL call
\* or without, they leave one of its queues.
LEMMA SocketQueue ==
    ASSUME SslTypes, [Next]_vars, ~ late'
    PROVE  QueueInv'
  <1>1. armed \in BOOLEAN /\ fired \in BOOLEAN /\ (late => TimerOwned)
    BY DEF SslTypes, TypeOK
  <1>2. QED
    BY <1>1, QueueStep DEF SslTypes

\* Between operations the timer may be set.
LEMMA SettingQueue ==
    ASSUME SslTypes, call = "none", call' = "none", ~ late', NEW t, NEW d,
           Expiration(t, d), ready' = WithCancelled(t, ready)
    PROVE  QueueInv'
  <1>1. armed \in BOOLEAN
    BY DEF SslTypes, TypeOK
  <1>2. ready = IF armed THEN <<>> ELSE <<"wait">>
    BY QueueFacts DEF SslTypes, QueueInv
  <1>3. ready' = IF armed' THEN <<>> ELSE <<"wait">>
    BY <1>1, <1>2, TimerSet
  <1>4. QED
    BY <1>3 DEF QueueInv

\* After a step the queue is a sequence of handlers, and between operations holds none
\* of an operation.
LEMMA QueueHas ==
    ASSUME QueueInv'
    PROVE  ready' \in Seq({"wait", "op"}) /\ (call' = "none" => ~ Queued')
  <1>1. ready' \in {<<>>, <<"wait">>, <<"op">>, <<"op", "wait">>, <<"wait", "op">>}
    BY DEF QueueInv
  <1>2. QED
    BY <1>1, QueueTypes, QueueFacts DEF QueueInv, Queued

(***************************************************************************)
(* Between calls                                                           *)
(***************************************************************************)
\* A job ends, or the caller sets a mode or destroys the stream: nothing of the timer,
\* the queue and the last call changes.
LEMMA BetweenCalls ==
    ASSUME SslInv, scall = "none", call = "none", job' = "none",
           UNCHANGED <<kind, call, want, done, ec, err, ready, armed, timer, fired, left,
                       late, scall, swant, sdone, sec, sleft, rounds>>,
           sock' \in {"none", "open", "closed", "dead"},
           io' \in BOOLEAN, saved' \in BOOLEAN, rest' \in Timeouts,
           moved' \in Seq(Nat), Len(moved') <= MaxCount
    PROVE  SslInv'
  <1>1. SslTypes'
    <2>1. TypeOK'
      BY DEF SslInv, SslTypes, TypeOK
    <2>2. SslTypeOK'
      BY LoopFacts DEF SslInv, SslTypes, SslTypeOK
    <2>3. QueueInv' /\ ~ late'
      BY DEF SslInv, SslTypes, QueueInv
    <2>4. QED
      BY <2>1, <2>2, <2>3 DEF SslTypes
  <1>2. Layered'
    BY LoopFacts DEF SslInv, Layered, Transfers
  <1>3. SslTimerOwned'
    BY DEF SslInv, SslTimerOwned
  <1>4. Reported'
    BY <1>1, QueueHas DEF SslInv, SslTypes, Reported, Transfers
  <1>5. QED
    BY <1>1, <1>2, <1>3, <1>4 DEF SslInv

(***************************************************************************)
(* The beginning of a call                                                 *)
(***************************************************************************)
\* A call of the caller, or of a job.
Calling(k, n, d) ==
    /\ SslCall(k, n, d)
    /\ job' \in DOMAIN Loops => n > 0
    /\ job' \in DOMAIN Loops \cup {"none", "handshake"} /\ rest' \in Timeouts
    /\ UNCHANGED moved

\* scope_expire() in a transfer: the timeouts of the socket go off, and the timer runs
\* with the timeout of the call.
LEMMA CallBegins ==
    ASSUME SslInv, NEW k \in Transfers, NEW n \in 0..MaxPlain, NEW d \in Timeouts,
           Calling(k, n, d)
    PROVE  SslInv'
  <1> USE DEF Calling
  <1>1. /\ scall = "none" /\ call = "none" /\ sock \in {"open", "closed"}
        /\ scall' = k /\ swant' = n /\ sdone' = 0 /\ sleft' = d /\ rounds' = 0 /\ saved' = io
        /\ UNCHANGED <<kind, sock, call, want, done, ec, err, left, late, sec>>
    BY DEF SslCall, SslInv, Layered
  <1>2. fired' = FALSE /\ io' = FALSE /\ armed' = (armed /\ d = Infinite)
    BY DEF SslCall, Expiration
  <1>3. ~ fired' /\ fired' \in BOOLEAN /\ ~ io' /\ io' \in BOOLEAN /\ armed' \in BOOLEAN
    BY <1>2, Zenon
  <1>4. timer = Infinite
    BY <1>1 DEF SslInv, SslTimerOwned
  <1>5. timer' = d
    BY <1>4 DEF SslCall, Expiration
  <1>6. QueueInv' /\ ~ late'
    BY <1>1, SettingQueue DEF SslCall, SslInv, SslTypes
  <1>7. ready' \in Seq({"wait", "op"}) /\ ~ Queued'
    BY <1>1, <1>6, QueueHas
  <1>8. TypeOK'
    BY <1>1, <1>3, <1>5, <1>7 DEF SslInv, SslTypes, TypeOK, Timeouts
  <1>9. SslTypeOK'
    BY <1>1, <1>3, SslAssumption, LoopFacts DEF SslInv, SslTypes, SslTypeOK, Transfers
  <1>10. SslTypes'
    BY <1>6, <1>8, <1>9 DEF SslInv, SslTypes
  <1>11. Layered'
    BY <1>1, <1>3, LoopFacts DEF SslInv, Layered, Transfers
  <1>12. SslTimerOwned'
    BY <1>1, <1>3, <1>5 DEF SslTimerOwned, Transfers
  <1>13. Reported'
    BY <1>1, <1>3, <1>7 DEF Reported
  <1>14. QED
    BY <1>10, <1>11, <1>12, <1>13 DEF SslInv

\* base_socket() connects with the timeout of the constructor.
LEMMA ConnectBegins ==
    ASSUME SslInv, NEW d \in Timeouts \ {0}, SslConnect(d)
    PROVE  SslInv'
  <1>1. /\ call = "none" /\ scall = "none" /\ call' = "connect" /\ want' = 0 /\ done' = 0
        /\ ec' = "would_block" /\ left' = d /\ late' = (d = 0)
        /\ UNCHANGED <<kind, sock, err, sec, io, saved, moved>>
        /\ scall' = "connect" /\ swant' = 0 /\ sdone' = 0 /\ sleft' = d /\ rounds' = 1
        /\ job' = "construct" /\ rest' = FromNow(d)
    BY DEF SslConnect, Idle, Connect, Start
  <1>2. fired' = FALSE /\ late' = FALSE /\ armed' = (armed /\ d = Infinite)
    BY <1>1 DEF SslConnect, Connect, Start, Expiration
  <1>3. ~ fired' /\ fired' \in BOOLEAN /\ ~ late' /\ late' \in BOOLEAN /\ armed' \in BOOLEAN
    BY <1>2, Zenon
  <1>4. timer = Infinite
    BY <1>1 DEF SslInv, SslTimerOwned
  <1>5. timer' = d
    BY <1>4 DEF SslConnect, Connect, Expiration
  <1>6. QueueInv'
    <2>1. Next
      BY DEF SslConnect, Next
    <2>2. QED
      BY <1>3, <2>1, SocketQueue DEF SslInv
  <1>7. ready' \in Seq({"wait", "op"})
    BY <1>6, QueueHas
  <1>8. TypeOK'
    BY <1>1, <1>3, <1>5, <1>7, TimedAssumption DEF SslInv, SslTypes, TypeOK, Timeouts, Calls
  <1>9. SslTypeOK'
    BY <1>1, SslAssumption, TimeoutFacts DEF SslInv, SslTypes, SslTypeOK
  <1>10. SslTypes'
    BY <1>1, <1>3, <1>6, <1>8, <1>9 DEF SslInv, SslTypes
  <1>11. Layered'
    BY <1>1, LoopFacts DEF SslInv, Layered, Transfers
  <1>12. SslTimerOwned'
    BY <1>1, <1>3, <1>5 DEF SslTimerOwned
  <1>13. Reported'
    BY <1>1, <1>3 DEF Reported, Transfers
  <1>14. QED
    BY <1>10, <1>11, <1>12, <1>13 DEF SslInv

\* A call throws before it begins: the timer stays off.
LEMMA TooShortStep ==
    ASSUME SslInv, SslTooShort
    PROVE  SslInv'
  <1>1. /\ scall = "none" /\ call = "none" /\ job = "none" /\ rounds' = 0
        /\ sock' \in {sock, "dead"}
        /\ UNCHANGED <<kind, call, want, done, ec, err, left, late,
                       scall, swant, sdone, sleft, saved, job, rest, moved>>
        /\ sec' = "timed_out"
    BY DEF SslTooShort, Idle
  <1>2. fired' = FALSE /\ io' = FALSE /\ armed' = (armed /\ 0 = Infinite)
    BY DEF SslTooShort, Expiration
  <1>3. fired' \in BOOLEAN /\ io' \in BOOLEAN /\ armed' \in BOOLEAN
    BY <1>2, Zenon
  <1>4. timer' = Infinite
    BY TimeoutFacts DEF SslTooShort, Expiration
  <1>5. QueueInv' /\ ~ late'
    BY <1>1, SettingQueue DEF SslTooShort, SslInv, SslTypes
  <1>6. ready' \in Seq({"wait", "op"}) /\ ~ Queued'
    BY <1>1, <1>5, QueueHas
  <1>7. TypeOK'
    BY <1>1, <1>3, <1>4, <1>6, TimeoutFacts DEF SslInv, SslTypes, TypeOK, Timeouts
  <1>8. SslTypeOK'
    BY <1>1, <1>3, SslAssumption DEF SslInv, SslTypes, SslTypeOK, Outcomes
  <1>9. SslTypes'
    BY <1>1, <1>5, <1>7, <1>8 DEF SslInv, SslTypes
  <1>10. Layered'
    BY <1>1, LoopFacts DEF SslInv, Layered, Transfers
  <1>11. SslTimerOwned'
    BY <1>1, <1>4 DEF SslTimerOwned
  <1>12. Reported'
    BY <1>1, <1>6 DEF Reported, Transfers
  <1>13. QED
    BY <1>9, <1>10, <1>11, <1>12 DEF SslInv

\* close() begins the SSL shutdown and leaves timer and timeouts as they are.
LEMMA ShutdownBegins ==
    ASSUME SslInv, Shutdown
    PROVE  SslInv'
  <1>1. /\ scall = "none" /\ call = "none" /\ sock \in {"open", "closed"}
        /\ scall' = "shutdown" /\ swant' = 0 /\ sdone' = 0 /\ sleft' = 0 /\ rounds' = 0
        /\ job' = "close"
        /\ UNCHANGED <<kind, sock, call, want, done, ec, err, ready, armed, timer, fired,
                       left, late, sec, io, saved, rest, moved>>
    BY DEF Shutdown, Idle, vars, SslInv, Layered
  <1>2. TypeOK'
    BY <1>1 DEF SslInv, SslTypes, TypeOK
  <1>3. SslTypeOK'
    BY <1>1, SslAssumption, TimeoutFacts DEF SslInv, SslTypes, SslTypeOK
  <1>4. QueueInv' /\ ~ late'
    BY <1>1 DEF SslInv, SslTypes, QueueInv
  <1>5. SslTypes'
    BY <1>1, <1>2, <1>3, <1>4 DEF SslInv, SslTypes
  <1>6. Layered'
    BY <1>1, LoopFacts DEF SslInv, Layered, Transfers
  <1>7. SslTimerOwned'
    BY <1>1 DEF SslInv, SslTimerOwned
  <1>8. Reported'
    BY <1>1, <1>4, QueueHas DEF Reported, Transfers
  <1>9. QED
    BY <1>5, <1>6, <1>7, <1>8 DEF SslInv

(***************************************************************************)
(* The operations of the engine                                            *)
(***************************************************************************)
\* An operation begins: it finds deadline_fired_ reset, or belongs to a shutdown.
LEMMA OperateStep ==
    ASSUME SslInv, NEW k \in {"write_some", "read_some"}, Operate(k)
    PROVE  SslInv'
  <1> DEFINE d == IF io THEN IoTimeout ELSE Infinite
  <1>1. /\ scall \notin {"none", "connect"} /\ rounds < MaxRounds /\ (rounds = 0 \/ ec = "ok")
        /\ IO(k, 1, d) /\ rounds' = rounds + 1
        /\ UNCHANGED <<scall, swant, sdone, sec, sleft, io, saved, job, rest, moved>>
    BY DEF Operate
  <1>2. d \in Timeouts /\ d # 0 /\ (~ io => d = Infinite)
    BY TimeoutFacts
  <1> HIDE DEF d
  <1>3. /\ call = "none" /\ call' = k /\ want' = 1 /\ done' = 0 /\ ec' = "would_block"
        /\ left' = d /\ late' = (d = 0) /\ UNCHANGED <<kind, sock>>
        /\ err' = IF sock = "closed" THEN "bad_descriptor" ELSE err
    BY <1>1 DEF IO, Start, AtOnce, Nothing
  <1>4. fired' = FALSE /\ late' = FALSE /\ armed' = (armed /\ d = Infinite)
    BY <1>1, <1>2, <1>3 DEF IO, Start, Expiration
  <1>5. ~ fired' /\ fired' \in BOOLEAN /\ ~ late' /\ late' \in BOOLEAN /\ armed' \in BOOLEAN
    BY <1>4, Zenon
  <1>6. 1 \in 0..MaxBytes /\ k \in Sends \cup Receives
    BY TimedAssumption DEF Sends, Receives
  <1>7. QueueInv'
    <2>1. Next
      BY <1>1, <1>2, <1>6 DEF Next
    <2>2. QED
      BY <1>5, <2>1, SocketQueue DEF SslInv
  <1>8. ready' \in Seq({"wait", "op"})
    BY <1>7, QueueHas
  <1>9. timer' = IF d = Infinite THEN timer ELSE d
    BY <1>1 DEF IO, Expiration
  <1>10. timer' \in Timeouts
    BY <1>2, <1>9 DEF SslInv, SslTypes, TypeOK, Timeouts
  <1>11. TypeOK'
    BY <1>2, <1>3, <1>5, <1>6, <1>8, <1>10, TimedAssumption
       DEF SslInv, SslTypes, TypeOK, Timeouts, Calls, Outcomes
  <1>12. rounds \in Nat /\ rounds' \in 0..MaxRounds /\ rounds' > 0
    BY <1>1, SslAssumption DEF SslInv, SslTypes, SslTypeOK
  <1>13. SslTypeOK'
    BY <1>1, <1>12 DEF SslInv, SslTypes, SslTypeOK
  <1>14. SslTypes'
    BY <1>1, <1>5, <1>7, <1>11, <1>13 DEF SslInv, SslTypes
  <1>15. Layered'
    BY <1>1, <1>2, <1>3, <1>12, LoopFacts DEF SslInv, Layered, Transfers
  <1>16. SslTimerOwned'
    <2>1. CASE scall = "shutdown"
      <3>1. timer = Infinite
        BY <1>3, <2>1 DEF SslInv, SslTimerOwned
      <3>2. QED
        BY <1>1, <1>3, <1>5, <1>9, <2>1, <3>1 DEF SslTimerOwned
    <2>2. CASE scall # "shutdown"
      <3>1. scall \in Transfers
        BY <1>1, <2>2 DEF SslInv, SslTypes, SslTypeOK, Transfers
      <3>2. ~ fired
        BY <1>1, <1>3, <1>12, <3>1 DEF SslInv, Reported
      <3>3. d = Infinite
        BY <1>2, <3>1 DEF SslInv, Layered
      <3>4. QED
        BY <1>1, <1>3, <1>5, <1>9, <2>2, <3>2, <3>3 DEF SslInv, SslTimerOwned
    <2>3. QED
      BY <2>1, <2>2
  <1>17. Reported'
    <2>1. CASE sock = "closed"
      <3>1. Queued'
        <4>1. ready \in {<<>>, <<"wait">>} /\ (armed => ready = <<>>)
          BY <1>3, QueueFacts DEF SslInv, SslTypes, QueueInv
        <4>2. WithCancelled(d, ready) \in {<<>>, <<"wait">>}
          BY <4>1, QueueFacts DEF WithCancelled
        <4>3. QED
          BY <1>1, <2>1, <4>2, QueueFacts DEF IO, AtOnce, Queued
      <3>2. QED
        BY <1>3, <1>5, <1>6, <2>1, <3>1 DEF Reported
    <2>2. CASE sock # "closed"
      <3>1. sock' = "open"
        BY <1>1, <1>3, <2>2 DEF SslInv, Layered
      <3>2. QED
        BY <1>3, <1>5, <1>6, <3>1 DEF Reported
    <2>3. QED
      BY <2>1, <2>2
  <1>18. QED
    BY <1>14, <1>15, <1>16, <1>17 DEF SslInv

\* check_deadline() in a call: it fires only when the timeout of the SSL call has passed.
LEMMA DeadlineStep ==
    ASSUME SslInv, CheckDeadline, UNCHANGED sslVars
    PROVE  SslInv'
  <1>1. /\ call # "none" /\ scall # "none" /\ kind = "tcp"
        /\ UNCHANGED <<kind, call, want, done, ec, left, late>>
        /\ UNCHANGED <<scall, swant, sdone, sec, sleft, rounds, io, saved, job, rest, moved>>
    BY DEF CheckDeadline, sslVars, SslInv, Layered
  <1>2. armed' = TRUE
    BY DEF CheckDeadline
  <1>3. armed' \in BOOLEAN
    BY <1>2, Zenon
  <1>4. QueueInv' /\ ~ late'
    <2>1. Next /\ ~ late'
      BY <1>1 DEF Next, RunOne, SslInv, SslTypes
    <2>2. QED
      BY <2>1, SocketQueue DEF SslInv
  <1>5. ready' \in Seq({"wait", "op"})
    BY <1>4, QueueHas
  <1>6. SslTypeOK' /\ moved' \in Seq(Nat)
    BY <1>1 DEF SslInv, SslTypes, SslTypeOK
  <1>7. CASE timer = 0
    <2>1. fired' = TRUE
      BY <1>7 DEF CheckDeadline
    <2>2. fired' \in BOOLEAN /\ fired'
      BY <2>1, Zenon
    <2>3. timer' = Infinite /\ sock' = "closed" /\ err' \in Outcomes
      BY <1>1, <1>7 DEF CheckDeadline, DeadlineActor, SslInv, SslTypes, TypeOK, Outcomes
    <2>4. Queued'
      <3>1. ready \in {<<"wait">>, <<"wait", "op">>}
        BY QueueFacts DEF CheckDeadline, SslInv, SslTypes, QueueInv
      <3>2. ready' = <<"op">>
        BY <1>1, <1>7, <3>1, PendingQueue, QueueFacts
           DEF CheckDeadline, DeadlineActor, SslInv, SslTypes
      <3>3. QED
        BY <3>2 DEF Queued
    <2>5. TypeOK'
      BY <1>1, <1>3, <1>5, <2>2, <2>3, TimeoutFacts DEF SslInv, SslTypes, TypeOK, Timeouts
    <2>6. Layered'
      BY <1>1, <2>3, LoopFacts DEF SslInv, Layered
    <2>7. SslTimerOwned'
      BY <2>2, <2>3 DEF SslTimerOwned
    <2>8. rounds > 0 /\ rounds \in Nat
      BY <1>1, SslAssumption DEF SslInv, SslTypes, SslTypeOK, Layered
    <2>9. Reported'
      BY <1>1, <2>2, <2>4, <2>8 DEF Reported
    <2>10. QED
      BY <1>4, <1>6, <2>5, <2>6, <2>7, <2>9 DEF SslInv, SslTypes
  <1>8. CASE timer # 0
    <2>1. UNCHANGED <<sock, fired, timer, err>>
      BY <1>8 DEF CheckDeadline
    <2>2. Queued' <=> Queued
      BY <1>8, QueuedSame DEF SslInv, SslTypes
    <2>3. TypeOK'
      BY <1>1, <1>3, <1>5, <2>1 DEF SslInv, SslTypes, TypeOK
    <2>4. Layered'
      BY <1>1, <2>1 DEF SslInv, Layered
    <2>5. SslTimerOwned'
      BY <1>1, <2>1 DEF SslInv, SslTimerOwned
    <2>6. Reported'
      BY <1>1, <2>1, <2>2 DEF SslInv, Reported
    <2>7. QED
      BY <1>4, <1>6, <2>3, <2>4, <2>5, <2>6 DEF SslInv, SslTypes
  <1>9. QED
    BY <1>7, <1>8

\* The timer goes off: its handler is queued.
LEMMA ExpiresStep ==
    ASSUME SslInv, TimerExpires, UNCHANGED sslVars
    PROVE  SslInv'
  <1>1. /\ UNCHANGED <<kind, sock, call, want, done, ec, err, timer, fired, left, late>>
        /\ UNCHANGED <<scall, swant, sdone, sec, sleft, rounds, io, saved, job, rest, moved>>
    BY DEF TimerExpires, sslVars
  <1>2. armed' = FALSE
    BY DEF TimerExpires
  <1>3. armed' \in BOOLEAN
    BY <1>2, Zenon
  <1>4. QueueInv' /\ ~ late'
    <2>1. Next /\ ~ late'
      BY <1>1 DEF Next, SslInv, SslTypes
    <2>2. QED
      BY <2>1, SocketQueue DEF SslInv
  <1>5. ready' \in Seq({"wait", "op"})
    BY <1>4, QueueHas
  <1>6. Queued' <=> Queued
    BY QueuedSame DEF SslInv, SslTypes
  <1>7. TypeOK'
    BY <1>1, <1>3, <1>5 DEF SslInv, SslTypes, TypeOK
  <1>8. SslTypeOK' /\ moved' \in Seq(Nat)
    BY <1>1 DEF SslInv, SslTypes, SslTypeOK
  <1>9. Layered'
    BY <1>1 DEF SslInv, Layered
  <1>10. SslTimerOwned'
    BY <1>1 DEF SslInv, SslTimerOwned
  <1>11. Reported'
    BY <1>1, <1>6 DEF SslInv, Reported
  <1>12. QED
    BY <1>4, <1>7, <1>8, <1>9, <1>10, <1>11 DEF SslInv, SslTypes

\* The network gives an operation its outcome.
LEMMA OutcomeStep ==
    ASSUME SslInv, NEW e \in Outcomes, Finish(e), done' \in 0..want, UNCHANGED sslVars
    PROVE  SslInv'
  <1>1. /\ err' = e /\ UNCHANGED <<kind, sock, call, want, ec, armed, timer, fired, left, late>>
        /\ UNCHANGED <<scall, swant, sdone, sec, sleft, rounds, io, saved, job, rest, moved>>
    BY DEF Finish, sslVars
  <1>2. call # "none" /\ ~ Queued /\ Queued'
    BY QueuedFinish DEF SslInv, SslTypes
  <1>3. QueueInv' /\ ~ late'
    <2>1. ready = IF armed THEN <<>> ELSE <<"wait">>
      BY <1>2, QueueFacts DEF SslInv, SslTypes, QueueInv, Queued
    <2>2. ready' = IF armed THEN <<"op">> ELSE <<"wait", "op">>
      BY <2>1, QueueFacts DEF Finish
    <2>3. QED
      BY <1>1, <1>2, <2>2 DEF SslInv, SslTypes, QueueInv
  <1>4. ready' \in Seq({"wait", "op"})
    BY <1>3, QueueHas
  <1>5. TypeOK'
    BY <1>1, <1>4 DEF SslInv, SslTypes, TypeOK
  <1>6. SslTypeOK' /\ moved' \in Seq(Nat)
    BY <1>1 DEF SslInv, SslTypes, SslTypeOK
  <1>7. Layered'
    BY <1>1 DEF SslInv, Layered
  <1>8. SslTimerOwned'
    BY <1>1 DEF SslInv, SslTimerOwned
  <1>9. Reported'
    BY <1>1, <1>2 DEF SslInv, Reported
  <1>10. QED
    BY <1>3, <1>5, <1>6, <1>7, <1>8, <1>9 DEF SslInv, SslTypes

\* A connection, one byte more, or an error.
LEMMA NetworkStep ==
    ASSUME SslInv, Network, UNCHANGED sslVars
    PROVE  SslInv'
  <1>1. done \in 0..want /\ want \in 0..MaxBytes /\ MaxBytes \in Nat
    BY TimedAssumption DEF SslInv, SslTypes, TypeOK
  <1>2. ASSUME NEW e \in {"ok", "refused", "timed_out"}, ConnectResult(e)
        PROVE  SslInv'
    BY <1>1, <1>2, OutcomeStep DEF ConnectResult, Outcomes
  <1>3. ASSUME Transfer(1)
        PROVE  SslInv'
    <2>1. Finish("ok")
      BY <1>3 DEF Transfer, SslInv, Layered, Whole
    <2>2. done' \in 0..want
      BY <1>1, <1>3 DEF Transfer
    <2>3. QED
      BY <2>1, <2>2, OutcomeStep DEF Outcomes
  <1>4. ASSUME NEW e \in {"broken_pipe", "eof", "timed_out"}, Fail(e)
        PROVE  SslInv'
    <2>1. Finish(e)
      BY <1>4 DEF Fail
    <2>2. done' \in 0..want
      BY <1>1, <1>4 DEF Fail
    <2>3. QED
      BY <2>1, <2>2, OutcomeStep DEF Outcomes
  <1>5. QED
    BY <1>2, <1>3, <1>4 DEF Network

\* An operation's handler runs: its expiration dies with it, the one of the call goes on.
LEMMA CompleteStep ==
    ASSUME SslInv, Complete, UNCHANGED sslVars
    PROVE  SslInv'
  <1>1. /\ call \in {"write_some", "read_some"} /\ scall # "none" /\ scall # "connect"
        /\ call' = "none" /\ ec' = IF fired THEN "timed_out" ELSE err
        /\ UNCHANGED <<kind, sock, want, done, err, fired, left, late>>
        /\ UNCHANGED <<scall, swant, sdone, sec, sleft, rounds, io, saved, job, rest, moved>>
    BY DEF Complete, sslVars, SslInv, Layered
  <1>2. armed' = (armed /\ left = Infinite)
    BY DEF Complete, Expiration
  <1>3. armed' \in BOOLEAN
    BY <1>2, Zenon
  <1>4. QueueInv' /\ ~ late'
    <2>1. Next /\ ~ late'
      BY <1>1 DEF Next, RunOne, SslInv, SslTypes
    <2>2. QED
      BY <2>1, SocketQueue DEF SslInv
  <1>5. ready' \in Seq({"wait", "op"}) /\ ~ Queued'
    BY <1>1, <1>4, QueueHas
  <1>6. Queued
    BY QueueFacts DEF Complete, SslInv, SslTypes, QueueInv, Queued
  <1>7. timer' = IF left = Infinite THEN timer ELSE Infinite
    BY DEF Complete, Expiration
  <1>8. timer' \in Timeouts
    BY <1>7, TimeoutFacts DEF SslInv, SslTypes, TypeOK, Timeouts
  <1>9. ec' \in Outcomes /\ (fired => ec' = "timed_out")
        /\ (ec' = "ok" => ~ fired /\ err = "ok")
    BY <1>1 DEF SslInv, SslTypes, TypeOK, Outcomes
  <1>10. TypeOK'
    BY <1>1, <1>3, <1>5, <1>8, <1>9 DEF SslInv, SslTypes, TypeOK, Timeouts
  <1>11. SslTypeOK' /\ moved' \in Seq(Nat)
    BY <1>1 DEF SslInv, SslTypes, SslTypeOK
  <1>12. Layered'
    BY <1>1 DEF SslInv, Layered
  <1>13. SslTimerOwned'
    <2>1. CASE scall = "shutdown"
      <3>1. timer' = Infinite
        BY <1>1, <1>7, <2>1 DEF SslInv, SslTimerOwned
      <3>2. QED
        BY <1>1, <2>1, <3>1 DEF SslTimerOwned
    <2>2. CASE scall # "shutdown"
      <3>1. scall \in Transfers
        BY <1>1, <2>2 DEF SslInv, SslTypes, SslTypeOK, Transfers
      <3>2. timer' = timer
        BY <1>1, <1>7, <3>1 DEF SslInv, Layered
      <3>3. QED
        BY <1>1, <2>2, <3>2 DEF SslInv, SslTimerOwned
    <2>3. QED
      BY <2>1, <2>2
  <1>14. Reported'
    <2>1. /\ ec' # "would_block" /\ (fired' => ec' = "timed_out")
          /\ ec' = "ok" => sock' = "open"
      BY <1>1, <1>6, <1>9 DEF SslInv, Reported, Outcomes
    <2>2. rounds' > 0 /\ rounds' \in Nat
      BY <1>1, SslAssumption DEF SslInv, SslTypes, SslTypeOK, Layered
    <2>3. QED
      BY <1>1, <1>5, <2>1, <2>2 DEF Reported
  <1>15. QED
    BY <1>4, <1>10, <1>11, <1>12, <1>13, <1>14 DEF SslInv, SslTypes

\* The constructor of the socket has connected, or throws.
LEMMA ConnectedStep ==
    ASSUME SslInv, SslConnected
    PROVE  SslInv'
  <1>1. /\ call = "connect" /\ scall = "connect" /\ job = "construct" /\ left = sleft
        /\ call' = "none" /\ scall' = "none" /\ ec' = IF fired THEN "timed_out" ELSE err
        /\ sec' = ec' /\ sock' \in {"open", "dead"}
        /\ job' = IF sock' = "open" THEN "construct" ELSE "none"
        /\ UNCHANGED <<kind, want, done, err, fired, left, late>>
        /\ UNCHANGED <<swant, sdone, sleft, rounds, saved, rest, moved>>
    BY DEF SslConnected, Connected, SslInv, Layered
  <1>2. armed' = (armed /\ left = Infinite) /\ io' = (sock' = "open")
    BY DEF SslConnected, Connected, Expiration
  <1>3. armed' \in BOOLEAN /\ io' \in BOOLEAN
    BY <1>2, Zenon
  <1>4. QueueInv' /\ ~ late'
    <2>1. Next /\ ~ late'
      BY <1>1 DEF SslConnected, Next, RunOne, SslInv, SslTypes
    <2>2. QED
      BY <2>1, SocketQueue DEF SslInv
  <1>5. ready' \in Seq({"wait", "op"}) /\ ~ Queued'
    BY <1>1, <1>4, QueueHas
  <1>6. timer' = IF left = Infinite THEN timer ELSE Infinite
    BY DEF SslConnected, Connected, Expiration
  <1>7. timer' = Infinite
    BY <1>1, <1>6 DEF SslInv, SslTimerOwned
  <1>8. ec' \in Outcomes /\ (fired => ec' = "timed_out")
    BY <1>1 DEF SslInv, SslTypes, TypeOK, Outcomes
  <1>9. TypeOK'
    BY <1>1, <1>3, <1>5, <1>7, <1>8, TimeoutFacts DEF SslInv, SslTypes, TypeOK, Timeouts
  <1>10. SslTypeOK' /\ moved' \in Seq(Nat)
    BY <1>1, <1>3, <1>8 DEF SslInv, SslTypes, SslTypeOK
  <1>11. Layered'
    BY <1>1, LoopFacts DEF SslInv, Layered, Transfers
  <1>12. SslTimerOwned'
    BY <1>1, <1>7 DEF SslTimerOwned
  <1>13. Reported'
    BY <1>1, <1>5, <1>8 DEF Reported, Outcomes, Transfers
  <1>14. QED
    BY <1>4, <1>9, <1>10, <1>11, <1>12, <1>13 DEF SslInv, SslTypes

(***************************************************************************)
(* The end of a call, and time                                             *)
(***************************************************************************)
\* A call returns: the timer goes off and the timeouts of the socket are what they were.
LEMMA ReturnStep ==
    ASSUME SslInv, NEW e \in Outcomes \cup {"truncated", "ssl_error"},
           NEW m \in 0..MaxPlain, SslReturn(e, m)
    PROVE  SslInv'
  <1>1. /\ scall \notin {"none", "connect"} /\ call = "none" /\ m <= swant
        /\ scall' = "none" /\ sdone' = m /\ sec' = e /\ saved' = FALSE
        /\ moved' = IF job \in DOMAIN Loops
                      THEN Counted(moved \o [i \in 1..m |-> i]) ELSE moved
        /\ UNCHANGED <<kind, sock, call, want, done, ec, err, fired, left, late,
                       swant, sleft, rounds, job, rest>>
    BY DEF SslReturn
  <1>2. saved' \in BOOLEAN
    BY <1>1, Zenon
  <1>3. m \in Nat /\ m \in 0..swant
    BY <1>1, SslAssumption DEF SslInv, SslTypes, SslTypeOK
  <1>4. moved' \in Seq(Nat) /\ Len(moved') <= MaxCount
    BY <1>1, <1>3, CountedFacts DEF SslInv, SslTypes, SslTypeOK
  <1>5. /\ QueueInv' /\ ~ late' /\ timer' = Infinite
        /\ armed' \in BOOLEAN /\ io' \in BOOLEAN
    <2>1. CASE scall = "shutdown"
      <3>1. UNCHANGED <<io, timer, armed, ready>>
        BY <2>1 DEF SslReturn
      <3>2. QueueInv' /\ ~ late'
        BY <1>1, <3>1 DEF SslInv, SslTypes, QueueInv
      <3>3. timer = Infinite
        BY <1>1, <2>1 DEF SslInv, SslTimerOwned
      <3>4. QED
        BY <3>1, <3>2, <3>3 DEF SslInv, SslTypes, TypeOK, SslTypeOK
    <2>2. CASE scall # "shutdown"
      <3>1. io' = saved /\ Expiration(sleft, Infinite) /\ ready' = WithCancelled(sleft, ready)
        BY <2>2 DEF SslReturn
      <3>2. armed' = (armed /\ sleft = Infinite)
        BY <3>1 DEF Expiration
      <3>3. armed' \in BOOLEAN
        BY <3>2, Zenon
      <3>4. timer' = Infinite
        BY <1>1, <2>2, <3>1 DEF SslInv, SslTimerOwned, Expiration
      <3>5. QueueInv' /\ ~ late'
        BY <1>1, <3>1, SettingQueue DEF SslInv, SslTypes
      <3>6. QED
        BY <3>1, <3>3, <3>4, <3>5 DEF SslInv, SslTypes, SslTypeOK
    <2>3. QED
      BY <2>1, <2>2
  <1>6. ready' \in Seq({"wait", "op"}) /\ ~ Queued'
    BY <1>1, <1>5, QueueHas
  <1>7. TypeOK'
    BY <1>1, <1>5, <1>6, TimeoutFacts DEF SslInv, SslTypes, TypeOK, Timeouts
  <1>8. SslTypeOK'
    BY <1>1, <1>2, <1>3, <1>4, <1>5 DEF SslInv, SslTypes, SslTypeOK
  <1>9. Layered'
    BY <1>1, LoopFacts DEF SslInv, Layered, Transfers
  <1>10. SslTimerOwned'
    BY <1>1, <1>5 DEF SslTimerOwned
  <1>11. Reported'
    BY <1>1, <1>6 DEF SslInv, Reported, Transfers
  <1>12. QED
    BY <1>4, <1>5, <1>7, <1>8, <1>9, <1>10, <1>11 DEF SslInv, SslTypes

\* All the clocks go on together.
LEMMA TickStep ==
    ASSUME SslInv, SslTick
    PROVE  SslInv'
  <1>1. /\ timer' = Less(timer)
        /\ left' = IF call # "none" THEN Less(left) ELSE left
        /\ sleft' = IF scall # "none" THEN Less(sleft) ELSE sleft
        /\ rest' = IF job # "none" THEN Less(rest) ELSE rest
        /\ UNCHANGED <<kind, sock, call, want, done, ec, err, ready, armed, fired, late,
                       scall, swant, sdone, sec, rounds, io, saved, job, moved>>
    BY DEF SslTick
  <1>2. timer \in Timeouts /\ left \in Timeouts /\ sleft \in Timeouts /\ rest \in Timeouts
    BY DEF SslInv, SslTypes, TypeOK, SslTypeOK, Timeouts
  <1>3. timer' \in Timeouts /\ left' \in Timeouts /\ sleft' \in Timeouts /\ rest' \in Timeouts
    BY <1>1, <1>2, TimeoutFacts
  <1>4. TypeOK'
    BY <1>1, <1>3 DEF SslInv, SslTypes, TypeOK, Timeouts
  <1>5. SslTypeOK' /\ moved' \in Seq(Nat)
    BY <1>1, <1>3 DEF SslInv, SslTypes, SslTypeOK
  <1>6. QueueInv' /\ ~ late'
    BY <1>1 DEF SslInv, SslTypes, QueueInv
  <1>7. Layered'
    BY <1>1, TimeoutFacts DEF SslInv, Layered, Transfers
  <1>8. SslTimerOwned'
    BY <1>1, TimeoutFacts DEF SslInv, SslTimerOwned
  <1>9. Reported'
    BY <1>1 DEF SslInv, Reported, Queued
  <1>10. QED
    BY <1>4, <1>5, <1>6, <1>7, <1>8, <1>9 DEF SslInv, SslTypes

(***************************************************************************)
(* Every step                                                              *)
(***************************************************************************)
\* Before the constructor.
LEMMA SslStart == SslInit => SslInv
  <1> SUFFICES ASSUME SslInit PROVE SslInv
    OBVIOUS
  <1>1. Init /\ kind = "tcp"
    BY DEF SslInit
  <1>2. TypeOK /\ QueueInv
    BY <1>1, TimerInit DEF TimerInv
  <1>3. io = FALSE /\ saved = FALSE
    BY DEF SslInit
  <1>4. io \in BOOLEAN /\ saved \in BOOLEAN
    BY <1>3, Zenon
  <1>5. moved = <<>> /\ moved \in Seq(Nat) /\ Len(moved) <= MaxCount
    BY SslAssumption DEF SslInit
  <1>6. SslTypeOK
    BY <1>4, <1>5, SslAssumption, TimeoutFacts DEF SslInit, SslTypeOK, Outcomes
  <1>7. /\ ~ late /\ ~ fired /\ sock = "none" /\ call = "none" /\ timer = Infinite
        /\ ready = <<>>
    BY <1>1 DEF Init
  <1>8. SslTypes
    BY <1>2, <1>5, <1>6, <1>7 DEF SslTypes
  <1>9. Layered
    BY <1>1, <1>7, LoopFacts DEF SslInit, Layered, Transfers
  <1>10. SslTimerOwned /\ Reported
    BY <1>7, QueueFacts DEF SslInit, SslTimerOwned, Reported, Queued, Transfers
  <1>11. QED
    BY <1>8, <1>9, <1>10 DEF SslInv

\* The steps that make a call.
LEMMA CallStarts ==
    ASSUME SslInv,
           \/ \E d \in Timeouts : Some("handshake", 0, d)
           \/ \E k \in {"write_some", "read_some"}, n \in 0..MaxPlain, d \in Timeouts : Some(k, n, d)
           \/ \E k \in DOMAIN Loops, n \in 1..MaxPlain, t \in Timeouts : SslLoop(k, n, FromNow(t))
           \/ Handshake \/ Again
    PROVE  \E k \in Transfers, n \in 0..MaxPlain, d \in Timeouts : Calling(k, n, d)
  <1> DEFINE Goal == \E k \in Transfers, n \in 0..MaxPlain, d \in Timeouts : Calling(k, n, d)
  <1>1. MaxPlain \in Nat /\ 0 \in 0..MaxPlain /\ "handshake" \in Transfers
        /\ {"write_some", "read_some"} \subseteq Transfers
    BY SslAssumption DEF Transfers
  <1>2. rest \in Timeouts /\ swant \in 0..MaxPlain
    BY DEF SslInv, SslTypes, SslTypeOK
  <1>3. ASSUME NEW d \in Timeouts, Some("handshake", 0, d)
        PROVE  Goal
    <2>1. SslCall("handshake", 0, d) /\ job' = "none" /\ rest' \in Timeouts /\ UNCHANGED moved
      BY <1>2, <1>3 DEF Some, Idle
    <2>2. QED
      BY <1>1, <2>1, LoopFacts DEF Calling
  <1>4. ASSUME NEW k \in {"write_some", "read_some"}, NEW n \in 0..MaxPlain, NEW d \in Timeouts,
               Some(k, n, d)
        PROVE  Goal
    <2>1. SslCall(k, n, d) /\ job' = "none" /\ rest' \in Timeouts /\ UNCHANGED moved
      BY <1>2, <1>4 DEF Some, Idle
    <2>2. QED
      BY <1>1, <2>1, LoopFacts DEF Calling
  <1>5. ASSUME NEW k \in DOMAIN Loops, NEW n \in 1..MaxPlain, NEW t \in Timeouts,
               SslLoop(k, n, FromNow(t))
        PROVE  Goal
    <2>1. SslCall(Loops[k], n, FromNow(t)) /\ job' = k /\ rest' = FromNow(t) /\ UNCHANGED moved
      BY <1>5 DEF SslLoop
    <2>2. n \in 0..MaxPlain /\ n > 0 /\ Loops[k] \in Transfers /\ FromNow(t) \in Timeouts
      BY <1>1, LoopFacts, TimeoutFacts
    <2>3. QED
      BY <2>1, <2>2 DEF Calling
  <1>6. ASSUME Handshake
        PROVE  Goal
    <2>1. SslCall("handshake", 0, rest) /\ job' = "handshake" /\ UNCHANGED <<rest, moved>>
      BY <1>6 DEF Handshake
    <2>2. QED
      BY <1>1, <1>2, <2>1, LoopFacts DEF Calling
  <1>7. ASSUME Again
        PROVE  Goal
    <2>1. SslCall(Loops[job], swant, rest) /\ job \in DOMAIN Loops /\ UNCHANGED <<job, rest, moved>>
      BY <1>7 DEF Again
    <2>2. swant > 0 /\ Loops[job] \in Transfers
      BY <1>1, <2>1, LoopFacts DEF SslInv, Layered
    <2>3. QED
      BY <1>2, <2>1, <2>2 DEF Calling
  <1>8. QED
    BY <1>3, <1>4, <1>5, <1>6, <1>7

\* The steps between calls.
LEMMA PauseSteps ==
    ASSUME SslInv, \/ Constructed \/ LoopEnds \/ SslClosed \/ SslDestroy
                   \/ \E b \in BOOLEAN : SetTimeoutMode(b)
    PROVE  SslInv'
  <1>1. /\ io \in BOOLEAN /\ saved \in BOOLEAN /\ rest \in Timeouts /\ 0 \in Timeouts
        /\ moved \in Seq(Nat) /\ Len(moved) <= MaxCount
        /\ <<>> \in Seq(Nat) /\ Len(<<>>) <= MaxCount
        /\ sock \in {"none", "open", "closed", "dead"} /\ (scall = "none" => call = "none")
    BY SslAssumption, TimeoutFacts DEF SslInv, SslTypes, TypeOK, SslTypeOK, Layered
  <1>2. CASE Constructed
    BY <1>1, <1>2, BetweenCalls DEF Constructed
  <1>3. CASE LoopEnds
    BY <1>1, <1>3, BetweenCalls DEF LoopEnds, vars
  <1>4. CASE SslClosed
    BY <1>1, <1>4, BetweenCalls DEF SslClosed
  <1>5. CASE SslDestroy
    BY <1>1, <1>5, BetweenCalls DEF SslDestroy, Destroy, Idle, sslVars
  <1>6. ASSUME NEW b \in BOOLEAN, SetTimeoutMode(b)
        PROVE  SslInv'
    BY <1>1, <1>6, BetweenCalls DEF SetTimeoutMode, Idle, vars
  <1>7. QED
    BY <1>2, <1>3, <1>4, <1>5, <1>6

\* Every step keeps the invariant.
LEMMA SslStep ==
    ASSUME SslInv, [SslNext]_allVars
    PROVE  SslInv'
  <1>1. ASSUME NEW d \in Timeouts \ {0}, SslConnect(d)
        PROVE  SslInv'
    BY <1>1, ConnectBegins
  <1>2. CASE SslTooShort \/ Shutdown
    BY <1>2, TooShortStep, ShutdownBegins
  <1>3. CASE Engine
    <2>1. ASSUME NEW k \in {"write_some", "read_some"}, Operate(k)
          PROVE  SslInv'
      BY <2>1, OperateStep
    <2>2. ASSUME NEW e \in Outcomes \cup {"truncated", "ssl_error"},
                 NEW m \in 0..MaxPlain, SslReturn(e, m)
          PROVE  SslInv'
      BY <2>2, ReturnStep
    <2>3. QED
      BY <1>3, <2>1, <2>2, DeadlineStep, CompleteStep, ConnectedStep DEF Engine
  <1>4. CASE Network /\ UNCHANGED sslVars
    BY <1>4, NetworkStep
  <1>5. CASE TimerExpires /\ UNCHANGED sslVars
    BY <1>5, ExpiresStep
  <1>6. CASE SslTick
    BY <1>6, TickStep
  <1>7. CASE (Dead /\ UNCHANGED sslVars) \/ UNCHANGED allVars
    <2>1. UNCHANGED <<vars, sslVars>>
      BY <1>7 DEF Dead, allVars
    <2>2. TypeOK' /\ QueueInv' /\ ~ late'
      BY <2>1 DEF vars, SslInv, SslTypes, TypeOK, QueueInv
    <2>3. SslTypeOK' /\ moved' \in Seq(Nat)
      BY <2>1 DEF sslVars, SslInv, SslTypes, SslTypeOK
    <2>4. Layered' /\ SslTimerOwned' /\ Reported'
      BY <2>1 DEF vars, sslVars, SslInv, Layered, SslTimerOwned, Reported, Queued
    <2>5. QED
      BY <2>2, <2>3, <2>4 DEF SslInv, SslTypes
  <1>8. ASSUME NEW k \in Transfers, NEW n \in 0..MaxPlain, NEW d \in Timeouts, Calling(k, n, d)
        PROVE  SslInv'
    BY <1>8, CallBegins
  <1>9. QED
    BY <1>1, <1>2, <1>3, <1>4, <1>5, <1>6, <1>7, <1>8, CallStarts, PauseSteps
       DEF SslNext, Routine

\* Types, timer, operations and calls of the SSL stream, for every sequence of calls.
THEOREM SslInvariant == SslSpec => []SslInv
  BY SslStart, SslStep, PTL DEF SslSpec

\* The variables of the SSL stream keep their types: what a call reports to have moved
\* fits into its buffers.
THEOREM SslTypesHold == SslSpec => []SslTypeOK
  BY SslInvariant, PTL DEF SslInv, SslTypes

\* The timer runs with what is left of the SSL call, whatever operation is in progress,
\* and is off between calls: no operation of the engine sets or stops it.
THEOREM SslTimerHasOwner == SslSpec => []SslTimerOwned
  BY SslInvariant, PTL DEF SslInv

(***************************************************************************)
(* The refinement: every step is a step of TimedStream, or leaves what the *)
(* caller of the SSL stream sees alone.                                    *)
(***************************************************************************)
\* Initial states are initial states of TimedStream.
LEMMA SslInitial == SslInit => SslCalls!StreamInit
  <1> SUFFICES ASSUME SslInit PROVE SslCalls!StreamInit
    OBVIOUS
  <1>1. ~ (fired /\ rounds > 0)
    BY DEF SslInit, Init
  <1>2. QED
    BY <1>1 DEF SslInit, Init, SslCalls!StreamInit, Infinite, SslCalls!Infinite

\* A call begins.
LEMMA SslBegins ==
    ASSUME NEW k \in {"connect", "handshake", "write_some", "read_some", "shutdown"},
           NEW n \in 0..MaxPlain, NEW d \in Timeouts,
           scall = "none", sock # "dead", scall' = k, swant' = n, sdone' = 0, sleft' = d,
           ~ (fired' /\ rounds' > 0), UNCHANGED <<kind, sock, sec>>
    PROVE  SslCalls!StreamNext
  <1>1. k \in SslCalls!Calls /\ d \in SslCalls!Timeouts
    BY DEF SslCalls!Calls, Timeouts, Infinite, SslCalls!Timeouts, SslCalls!Infinite
  <1>2. SslCalls!Begin(k, n, d)
    BY DEF SslCalls!Begin
  <1>3. QED
    BY <1>1, <1>2 DEF SslCalls!StreamNext

\* So does every transfer.
LEMMA SslCallMapped ==
    ASSUME SslInv, NEW k \in Transfers, NEW n \in 0..MaxPlain, NEW d \in Timeouts,
           Calling(k, n, d)
    PROVE  SslCalls!StreamNext
  <1>1. /\ scall = "none" /\ sock # "dead" /\ scall' = k /\ swant' = n /\ sdone' = 0
        /\ sleft' = d /\ UNCHANGED <<kind, sock, sec>>
        /\ k \in {"connect", "handshake", "write_some", "read_some", "shutdown"}
    BY DEF Calling, SslCall, Transfers
  <1>2. ~ (fired' /\ rounds' > 0)
    BY DEF Calling, SslCall
  <1>3. QED
    BY <1>1, <1>2, SslBegins

\* A call returns: a deadline that fired is what the engine makes of its last operation;
\* a write succeeds on an open socket only, as its last operation did.
LEMMA SslReturns ==
    ASSUME SslInv, NEW e \in Outcomes \cup {"truncated", "ssl_error"},
           NEW m \in 0..MaxPlain, SslReturn(e, m)
    PROVE  SslCalls!StreamNext
  <1>1. /\ scall \notin {"none", "connect"} /\ call = "none" /\ EngineResult(e, m) /\ m <= swant
        /\ scall' = "none" /\ sdone' = m /\ sec' = e
        /\ UNCHANGED <<kind, sock, swant, sleft, fired, rounds>>
    BY DEF SslReturn
  <1>2. /\ swant \in Nat /\ m \in Nat /\ rounds \in Nat /\ sdone = 0
        /\ scall \in {"handshake", "write_some", "read_some", "shutdown"}
        /\ ec \in Outcomes \cup {"would_block"}
    <2>1. swant \in Nat /\ m \in Nat /\ rounds \in Nat
      BY SslAssumption DEF SslInv, SslTypes, SslTypeOK
    <2>2. sdone = 0
      BY <1>1 DEF SslInv, Layered
    <2>3. scall \in {"handshake", "write_some", "read_some", "shutdown"}
      BY <1>1 DEF SslInv, SslTypes, SslTypeOK
    <2>4. ec \in Outcomes \cup {"would_block"}
      BY DEF SslInv, SslTypes, TypeOK
    <2>5. QED
      BY <2>1, <2>2, <2>3, <2>4
  <1>3. sdone' \in sdone..swant
    BY <1>1, <1>2
  <1>4. CASE fired /\ rounds > 0
    <2>1. e = "timed_out"
      BY <1>1, <1>4 DEF EngineResult, SslInv, Reported
    <2>2. SslCalls!Return
      BY <1>1, <1>3, <1>4, <2>1 DEF SslCalls!Return
    <2>3. QED
      BY <2>2 DEF SslCalls!StreamNext
  <1>5. CASE ~ (fired /\ rounds > 0)
    <2>1. e \in SslCalls!Errors \/ (e = "ok" /\ SslCalls!Enough(m) /\ SslCalls!Writable)
      <3>1. CASE rounds > 0 /\ ec # "ok"
        <4>1. ec \in Outcomes \ {"ok"}
          BY <1>1, <1>2, <1>5, <3>1 DEF SslInv, Reported
        <4>2. QED
          BY <1>1, <3>1, <4>1 DEF EngineResult, Outcomes, SslCalls!Errors
      <3>2. CASE ~ (rounds > 0 /\ ec # "ok") /\ e = "ok"
        <4>1. (rounds > 0 \/ Unaided) /\ (m > 0 \/ swant = 0)
          BY <1>1, <3>2 DEF EngineResult
        <4>2. (scall = "write_some" /\ swant > 0) => sock = "open"
          BY <1>1, <1>2, <3>2, <4>1 DEF SslInv, Reported, Unaided, Empty
        <4>3. SslCalls!Enough(m) /\ SslCalls!Writable
          BY <1>2, <4>1, <4>2 DEF SslCalls!Enough, SslCalls!Writable
        <4>4. QED
          BY <3>2, <4>3
      <3>3. CASE ~ (rounds > 0 /\ ec # "ok") /\ e # "ok"
        BY <1>1, <3>3 DEF EngineResult, SslCalls!Errors
      <3>4. QED
        BY <3>1, <3>2, <3>3
    <2>2. SslCalls!Return
      BY <1>1, <1>3, <1>5, <2>1 DEF SslCalls!Return
    <2>3. QED
      BY <2>2 DEF SslCalls!StreamNext
  <1>6. QED
    BY <1>4, <1>5

\* The constructor of the socket returns or throws.
LEMMA SslConnectReturns ==
    ASSUME SslInv, SslConnected
    PROVE  SslCalls!StreamNext
  <1>1. /\ scall = "connect" /\ scall' = "none" /\ sec' = IF fired THEN "timed_out" ELSE err
        /\ sock' \in IF sec' = "ok" THEN {"open", "dead"} ELSE {"dead"}
        /\ UNCHANGED <<kind, swant, sdone, sleft, fired, rounds>>
    BY DEF SslConnected, Connected, SslInv, Layered
  <1>2. rounds > 0 /\ sdone \in sdone..swant
    BY <1>1, SslAssumption DEF SslInv, SslTypes, SslTypeOK, Layered
  <1>3. ~ fired => sec' \in SslCalls!Errors \/ sec' = "ok"
    BY <1>1 DEF SslInv, SslTypes, TypeOK, Outcomes, SslCalls!Errors
  <1>4. SslCalls!Enough(sdone') /\ SslCalls!Writable
    BY <1>1 DEF SslCalls!Enough, SslCalls!Writable
  <1>5. SslCalls!Return
    BY <1>1, <1>2, <1>3, <1>4 DEF SslCalls!Return
  <1>6. QED
    BY <1>5 DEF SslCalls!StreamNext

\* The steps of the socket underneath: a deadline that is noticed is the one of the call;
\* an operation that begins resets none, and what else happens to it is not seen.
LEMMA SslOperations ==
    ASSUME SslInv,
           \/ \E k \in {"write_some", "read_some"} : Operate(k)
           \/ (CheckDeadline \/ Complete \/ Network \/ TimerExpires) /\ UNCHANGED sslVars
    PROVE  [SslCalls!StreamNext]_(SslCalls!streamVars)
  <1>1. ASSUME NEW k \in {"write_some", "read_some"}, Operate(k)
        PROVE  UNCHANGED SslCalls!streamVars
    <2>1. /\ scall \notin {"none", "connect"} /\ call = "none" /\ (rounds = 0 \/ ec = "ok")
          /\ ~ fired' /\ UNCHANGED <<kind, sock, scall, swant, sdone, sec, sleft>>
      BY <1>1 DEF Operate, IO, Start
    <2>2. ~ (fired /\ rounds > 0)
      BY <2>1 DEF SslInv, Reported
    <2>3. (fired /\ rounds > 0)' = (fired /\ rounds > 0)
      BY <2>1, <2>2
    <2>4. QED
      BY <2>1, <2>3 DEF SslCalls!streamVars
  <1>2. ASSUME CheckDeadline, UNCHANGED sslVars, timer = 0
        PROVE  SslCalls!StreamNext
    <2>1. /\ call # "none" /\ scall # "none" /\ kind = "tcp"
          /\ UNCHANGED <<kind, scall, swant, sdone, sec, sleft, rounds>>
      BY <1>2 DEF CheckDeadline, sslVars, SslInv, Layered
    <2>2. fired' /\ sock' = "closed"
      BY <1>2, <2>1 DEF CheckDeadline, DeadlineActor
    <2>3. ~ fired /\ sleft = 0
      BY <1>2, <2>1, TimeoutFacts DEF SslInv, SslTimerOwned, Layered
    <2>4. rounds > 0
      BY <2>1 DEF SslInv, Layered
    <2>5. SslCalls!Expire
      BY <2>1, <2>2, <2>3, <2>4 DEF SslCalls!Expire
    <2>6. QED
      BY <2>5 DEF SslCalls!StreamNext
  <1>3. ASSUME UNCHANGED sslVars, Complete \/ Network \/ TimerExpires \/ (CheckDeadline /\ timer # 0)
        PROVE  UNCHANGED SslCalls!streamVars
    <2>1. UNCHANGED <<kind, sock, fired>>
      BY <1>3 DEF Complete, Network, ConnectResult, Transfer, Fail, Finish, TimerExpires,
                  CheckDeadline
    <2>2. UNCHANGED <<scall, swant, sdone, sec, sleft, rounds>>
      BY <1>3 DEF sslVars
    <2>3. QED
      BY <2>1, <2>2 DEF SslCalls!streamVars
  <1>4. QED
    BY <1>1, <1>2, <1>3

\* The steps between calls dispose of the socket, or leave it alone.
LEMMA SslPauses ==
    ASSUME SslInv, \/ Constructed \/ LoopEnds \/ SslClosed \/ SslDestroy
                   \/ \E b \in BOOLEAN : SetTimeoutMode(b)
    PROVE  [SslCalls!StreamNext]_(SslCalls!streamVars)
  <1>1. /\ scall = "none" /\ UNCHANGED <<kind, scall, swant, sdone, sec, sleft, fired, rounds>>
        /\ \/ sock' = sock
           \/ sock \in {"open", "shut", "closed"} /\ sock' \in {"closed", "dead"}
    <2>1. CASE Constructed
      BY <2>1 DEF Constructed, SslInv, Layered
    <2>2. CASE LoopEnds
      BY <2>2 DEF LoopEnds, vars
    <2>3. CASE SslClosed
      BY <2>3 DEF SslClosed, SslInv, Layered
    <2>4. CASE SslDestroy
      BY <2>4 DEF SslDestroy, Destroy, Idle, sslVars
    <2>5. CASE \E b \in BOOLEAN : SetTimeoutMode(b)
      BY <2>5 DEF SetTimeoutMode, Idle, vars
    <2>6. QED
      BY <2>1, <2>2, <2>3, <2>4, <2>5
  <1>2. CASE sock' = sock
    BY <1>1, <1>2 DEF SslCalls!streamVars
  <1>3. CASE sock \in {"open", "shut", "closed"} /\ sock' \in {"closed", "dead"}
    <2>1. SslCalls!Dispose
      BY <1>1, <1>3 DEF SslCalls!Dispose
    <2>2. QED
      BY <2>1 DEF SslCalls!StreamNext
  <1>4. QED
    BY <1>1, <1>2, <1>3

\* A step of SslStream is a step of TimedStream, or changes none of its variables.
LEMMA SslStreamStep ==
    ASSUME SslInv, [SslNext]_allVars
    PROVE  [SslCalls!StreamNext]_(SslCalls!streamVars)
  <1>1. 0 \in 0..MaxPlain
    BY SslAssumption
  <1>2. ASSUME NEW d \in Timeouts \ {0}, SslConnect(d)
        PROVE  SslCalls!StreamNext
    <2>1. /\ scall = "none" /\ sock # "dead" /\ scall' = "connect" /\ swant' = 0 /\ sdone' = 0
          /\ sleft' = d /\ UNCHANGED <<kind, sock, sec>> /\ ~ fired'
      BY <1>2 DEF SslConnect, Idle, Connect, Start
    <2>2. QED
      BY <1>1, <2>1, SslBegins
  <1>3. ASSUME Shutdown
        PROVE  SslCalls!StreamNext
    <2>1. /\ scall = "none" /\ sock # "dead" /\ scall' = "shutdown" /\ swant' = 0 /\ sdone' = 0
          /\ sleft' = 0 /\ UNCHANGED <<kind, sock, sec>> /\ rounds' = 0
      BY <1>3 DEF Shutdown, Idle, vars
    <2>2. ~ (fired' /\ rounds' > 0)
      BY <2>1
    <2>3. QED
      BY <1>1, <2>1, <2>2, TimeoutFacts, SslBegins
  <1>4. ASSUME NEW k \in Transfers, NEW n \in 0..MaxPlain, NEW d \in Timeouts, Calling(k, n, d)
        PROVE  SslCalls!StreamNext
    BY <1>4, SslCallMapped
  <1>5. ASSUME SslTooShort
        PROVE  SslCalls!StreamNext
    <2>1. /\ scall = "none" /\ sock' \in {sock, "dead"} /\ ~ fired'
          /\ sec' = "timed_out" /\ UNCHANGED <<kind, scall, swant, sdone, sleft>>
      BY <1>5 DEF SslTooShort, Idle
    <2>2. SslCalls!Refuse
      BY <2>1 DEF SslCalls!Refuse
    <2>3. QED
      BY <2>2 DEF SslCalls!StreamNext
  <1>6. ASSUME Engine
        PROVE  [SslCalls!StreamNext]_(SslCalls!streamVars)
    <2>1. ASSUME NEW e \in Outcomes \cup {"truncated", "ssl_error"},
                 NEW m \in 0..MaxPlain, SslReturn(e, m)
          PROVE  SslCalls!StreamNext
      BY <2>1, SslReturns
    <2>2. QED
      BY <1>6, <2>1, SslOperations, SslConnectReturns DEF Engine
  <1>7. ASSUME SslTick
        PROVE  [SslCalls!StreamNext]_(SslCalls!streamVars)
    <2>1. /\ sleft' = IF scall # "none" THEN Less(sleft) ELSE sleft
          /\ UNCHANGED <<kind, sock, scall, swant, sdone, sec, fired, rounds>>
      BY <1>7 DEF SslTick
    <2>2. CASE scall # "none" /\ sleft \in 1..MaxTimeout
      <3>1. SslCalls!Pass
        BY <2>1, <2>2, TimeoutFacts DEF SslCalls!Pass
      <3>2. QED
        BY <3>1 DEF SslCalls!StreamNext
    <2>3. CASE ~ (scall # "none" /\ sleft \in 1..MaxTimeout)
      <3>1. sleft' = sleft
        BY <2>1, <2>3, TimeoutFacts DEF SslInv, SslTypes, SslTypeOK
      <3>2. QED
        BY <2>1, <3>1 DEF SslCalls!streamVars
    <2>4. QED
      BY <2>2, <2>3
  <1>8. ASSUME (Dead /\ UNCHANGED sslVars) \/ UNCHANGED allVars
        PROVE  UNCHANGED SslCalls!streamVars
    BY <1>8 DEF Dead, allVars, vars, sslVars, SslCalls!streamVars
  <1>9. QED
    BY <1>2, <1>3, <1>4, <1>5, <1>6, <1>7, <1>8, CallStarts, SslPauses, SslOperations
       DEF SslNext, Routine

\* The SSL stream implements calls with a timeout: over all the operations of a call a
\* deadline is noticed once, not early and for the right call, and is reported; what
\* begins within the call never hides it, and a success is one.
THEOREM SslImplementation == SslSpec => SslImplementsStream
  <1>1. SslInit => SslInv
    BY SslStart
  <1>2. SslInv /\ [SslNext]_allVars => SslInv'
    BY SslStep
  <1>3. SslInit => SslCalls!StreamInit
    BY SslInitial
  <1>4. SslInv /\ [SslNext]_allVars => [SslCalls!StreamNext]_(SslCalls!streamVars)
    BY SslStreamStep
  <1>5. QED
    BY <1>1, <1>2, <1>3, <1>4, PTL DEF SslSpec, SslImplementsStream, SslCalls!StreamSpec

=============================================================================
