---------------------------- MODULE TimedSocket -----------------------------
(***************************************************************************)
(* The timed objects: detail/timed_base.hpp and what derives from it, the  *)
(* TCP socket (stream/base_socket, stream/stream_socket), the UDP socket   *)
(* (stream/dgram_socket) and the resolver (resolver/resolver).  One thread *)
(* owns the object; its blocking calls start an asynchronous operation and *)
(* run the object's own io_service, one handler at a time, until the       *)
(* operation's handler has set ec.                                         *)
(*                                                                         *)
(* The io_service is the queue `ready` of handlers that can run: "wait" is *)
(* the handler of the timer, check_deadline(); "op" the one of the         *)
(* operation.  Setting the timer cancels its pending wait, which queues    *)
(* the handler; so check_deadline() also runs when no deadline has passed, *)
(* and may run in a later call than the one it was queued for.             *)
(* Times are small numbers of ticks; 0 is a deadline that has passed.      *)
(***************************************************************************)
EXTENDS Integers, Sequences

CONSTANTS
    MaxTimeout,     \* longest finite timeout, in ticks
    MaxBytes        \* longest buffer

ASSUME TimedAssumption == MaxTimeout \in Nat \ {0} /\ MaxBytes \in Nat \ {0}

VARIABLES
    kind,       \* "tcp", "udp" or "resolver"
    sock,       \* "none" before the constructor, "dead" after the destructor;
                \* "shut" is shut down in both directions, but open
    call,       \* the call in progress
    want,       \* size of its buffers
    done,       \* bytes, or endpoints, that the current or last call got
    ec,         \* what the call reports: the caller's error_code, or the code of an
                \* exception that scope_expire() throws
    err,        \* the error the operation's handler will get
    ready,      \* handlers the io_service can run, in order
    armed,      \* the timer's async_wait() is pending
    timer,      \* time until expires_at()
    fired,      \* deadline_fired_
    left,       \* history: what is left of the timeout of the current or last call
    late        \* history: that call began after its deadline

vars == <<kind, sock, call, want, done, ec, err, ready, armed, timer, fired, left, late>>

Infinite == MaxTimeout + 1      \* kInfiniteDuration, which never passes

Timeouts == 0..Infinite         \* until the given deadline, or io_timeout()

Sends == {"send", "write_some"}
Receives == {"receive", "read_some"}
Calls == {"connect", "resolve"} \cup Sends \cup Receives

\* async_write() and async_read() go on until the buffers are full.
Whole(k) == k \in {"send", "receive"}

\* A datagram socket has no read_some() and write_some().
Offers(k) == kind = "tcp" \/ (kind = "udp" /\ Whole(k))

Pending == call # "none" /\ \A i \in DOMAIN ready : ready[i] # "op"

Init ==
    /\ kind \in {"tcp", "udp", "resolver"}
    /\ sock = IF kind = "resolver" THEN "open" ELSE "none"
    /\ call = "none"
    /\ want = 0 /\ done = 0
    /\ ec = "ok" /\ err = "ok"
    /\ ready = <<>> /\ armed = TRUE
    /\ timer = Infinite /\ fired = FALSE /\ left = Infinite /\ late = FALSE

(***************************************************************************)
(* timed_base                                                              *)
(***************************************************************************)
\* scope_expire(t), with d = t, and ~expiration(), with d = Infinite: the timer
\* is set to d, unless the timeout t of the call is infinite.
Expiration(t, d) ==
    /\ timer' = IF t = Infinite THEN timer ELSE d
    /\ armed' = (armed /\ t = Infinite)

\* Setting the timer cancels a pending wait: its handler joins the queue q.
WithCancelled(t, q) == IF armed /\ t # Infinite THEN Append(q, "wait") ELSE q

\* A socket is closed, which aborts its pending operation; q is the rest of the
\* queue.  Cancelling the resolver aborts a query that has not started and leaves
\* alone one that runs.
DeadlineActor(q) ==
    IF kind = "resolver"
      THEN UNCHANGED <<sock, err>> /\ ready' = q
      ELSE /\ sock' = "closed"
           /\ err' = IF Pending THEN "aborted" ELSE err
           /\ ready' = IF Pending THEN Append(q, "op") ELSE q

\* Mutant: the wait is not posted again.
CheckDeadline_NoRepost ==
    /\ call # "none" /\ ready # <<>> /\ Head(ready) = "wait"
    /\ IF timer = 0
         THEN DeadlineActor(Tail(ready)) /\ fired' = TRUE /\ timer' = Infinite
         ELSE /\ UNCHANGED <<sock, fired, timer, err>>
              /\ ready' = Tail(ready)
    /\ armed' = FALSE
    /\ UNCHANGED <<kind, call, want, done, ec, left, late>>

\* Mutant: the handler of a cancelled wait is taken for a deadline.
CheckDeadline_NoTest ==
    /\ call # "none" /\ ready # <<>> /\ Head(ready) = "wait"
    /\ DeadlineActor(Tail(ready)) /\ fired' = TRUE /\ timer' = Infinite
    /\ armed' = TRUE
    /\ UNCHANGED <<kind, call, want, done, ec, left, late>>

\* The handler of the timer; the wait is posted again whether or not the deadline
\* has passed.
CheckDeadline ==
    /\ call # "none" /\ ready # <<>> /\ Head(ready) = "wait"
    /\ IF timer = 0
         THEN DeadlineActor(Tail(ready)) /\ fired' = TRUE /\ timer' = Infinite
         ELSE /\ UNCHANGED <<sock, fired, timer, err>>
              /\ ready' = Tail(ready)
    /\ armed' = TRUE
    /\ UNCHANGED <<kind, call, want, done, ec, left, late>>

TimerExpires ==
    /\ armed /\ timer = 0
    /\ armed' = FALSE
    /\ ready' = Append(ready, "wait")
    /\ UNCHANGED <<kind, sock, call, want, done, ec, err, timer, fired, left, late>>

Tick ==
    /\ call # "none" /\ left \in 1..MaxTimeout
    /\ left' = left - 1
    /\ timer' = IF timer \in 1..MaxTimeout THEN timer - 1 ELSE timer
    /\ UNCHANGED <<kind, sock, call, want, done, ec, err, ready, armed, fired, late>>

(***************************************************************************)
(* The constructor and the blocking calls                                  *)
(***************************************************************************)
Start(k, n, d) ==
    /\ call = "none"
    /\ call' = k /\ want' = n /\ done' = 0
    /\ ec' = "would_block" /\ fired' = FALSE /\ left' = d /\ late' = (d = 0)
    /\ UNCHANGED <<kind, sock>>

Connect(d) ==
    /\ sock = "none"
    /\ Start("connect", 0, d)
    /\ Expiration(d, d)
    /\ ready' = WithCancelled(d, ready)
    /\ UNCHANGED err

\* An operation completes at once on a closed socket; so does one that has no bytes
\* to move on a stream, with success, whether the socket is closed or not.
Nothing(n) == kind = "tcp" /\ n = 0
AtOnce(n) == sock = "closed" \/ Nothing(n)

\* Mutant: the operation is started before the expiration is set.
IO_SetsTimerLast(k, n, d) ==
    /\ sock \in {"open", "shut", "closed"} /\ Offers(k)
    /\ Start(k, n, d)
    /\ err' = IF Nothing(n) THEN "ok" ELSE IF AtOnce(n) THEN "bad_descriptor" ELSE err
    /\ Expiration(d, d)
    /\ ready' = IF AtOnce(n) THEN WithCancelled(d, Append(ready, "op"))
                             ELSE WithCancelled(d, ready)

IO(k, n, d) ==
    /\ sock \in {"open", "shut", "closed"} /\ Offers(k)
    /\ Start(k, n, d)
    /\ err' = IF Nothing(n) THEN "ok" ELSE IF AtOnce(n) THEN "bad_descriptor" ELSE err
    /\ Expiration(d, d)
    /\ ready' = IF AtOnce(n) THEN Append(WithCancelled(d, ready), "op")
                             ELSE WithCancelled(d, ready)

Resolve(d) ==
    /\ kind = "resolver" /\ sock = "open"
    /\ Start("resolve", MaxBytes, d)
    /\ Expiration(d, d)
    /\ ready' = WithCancelled(d, ready)
    /\ UNCHANGED err

\* A duration below kDurationResolution (a deadline that has passed is accepted)
\* makes scope_expire() throw timed_out, out of the overloads with an error_code
\* (which stays would_block) as well, and out of the constructor.  The socket is left
\* as it was.  The exception leaves a delegating constructor, so that ~expiration()
\* runs and sets the timer.
TooShort ==
    /\ call = "none" /\ sock # "dead"
    /\ ec' = "timed_out" /\ fired' = FALSE /\ done' = 0 /\ late' = FALSE
    /\ sock' = IF sock = "none" THEN "dead" ELSE sock
    /\ Expiration(0, Infinite)
    /\ ready' = WithCancelled(0, ready)
    /\ UNCHANGED <<kind, call, want, err, left>>

\* Mutant: the expiration outlives the call.
Complete_KeepsTimer ==
    /\ call \notin {"none", "connect"} /\ ready # <<>> /\ Head(ready) = "op"
    /\ ec' = IF fired THEN "timed_out" ELSE err
    /\ ready' = Tail(ready)
    /\ call' = "none"
    /\ UNCHANGED <<kind, sock, want, done, err, armed, timer, fired, left, late>>

\* Mutant: deadline_fired_ is not tested.
Complete_NotTimedOut ==
    /\ call \notin {"none", "connect"} /\ ready # <<>> /\ Head(ready) = "op"
    /\ ec' = err
    /\ Expiration(left, Infinite)
    /\ ready' = WithCancelled(left, Tail(ready))
    /\ call' = "none"
    /\ UNCHANGED <<kind, sock, want, done, err, fired, left, late>>

\* The operation's handler: ec is set and the expiration dies with it; the
\* loop over run_one() ends.
Complete ==
    /\ call \notin {"none", "connect"} /\ ready # <<>> /\ Head(ready) = "op"
    /\ ec' = IF fired THEN "timed_out" ELSE err
    /\ Expiration(left, Infinite)
    /\ ready' = WithCancelled(left, Tail(ready))
    /\ call' = "none"
    /\ UNCHANGED <<kind, sock, want, done, err, fired, left, late>>

\* The constructor throws when it could not connect or set an option.
Connected ==
    /\ call = "connect" /\ ready # <<>> /\ Head(ready) = "op"
    /\ ec' = IF fired THEN "timed_out" ELSE err
    /\ sock' \in IF ec' = "ok" THEN {"open", "dead"} ELSE {"dead"}
    /\ Expiration(left, Infinite)
    /\ ready' = WithCancelled(left, Tail(ready))
    /\ call' = "none"
    /\ UNCHANGED <<kind, want, done, err, fired, left, late>>

(***************************************************************************)
(* stream_socket::close(): after a successful shutdown it returns; only if *)
(* the socket was no longer connected it goes on to close it.  A datagram  *)
(* socket has the close() of base_socket.                                  *)
(***************************************************************************)
Close ==
    /\ call = "none" /\ sock \in {"open", "shut"} /\ kind # "resolver"
    /\ sock' \in IF kind = "tcp" THEN {"shut", "closed"} ELSE {"closed"}
    /\ UNCHANGED <<kind, call, want, done, ec, err, ready, armed, timer, fired, left, late>>

Destroy ==
    /\ call = "none" /\ sock \in {"open", "shut", "closed"}
    /\ sock' = "dead"
    /\ UNCHANGED <<kind, call, want, done, ec, err, ready, armed, timer, fired, left, late>>

Dead == sock = "dead" /\ UNCHANGED vars

(***************************************************************************)
(* The kernel, the peer and the name server                                *)
(***************************************************************************)
Finish(e) ==
    /\ Pending
    /\ err' = e /\ ready' = Append(ready, "op")
    /\ UNCHANGED <<kind, sock, call, want, ec, armed, timer, fired, left, late>>

ConnectResult(e) ==
    /\ call = "connect" /\ Finish(e)
    /\ UNCHANGED done

\* Mutant: a whole transfer starts again at the beginning of the buffers.
Transfer_Restarts(m) ==
    /\ kind = "tcp" /\ (call \in Receives \/ (call \in Sends /\ sock = "open"))
    /\ Pending /\ m <= want
    /\ done' = done + m
    /\ IF Whole(call) /\ done' < want
         THEN UNCHANGED <<kind, sock, call, want, ec, err, ready, armed, timer, fired, left, late>>
         ELSE Finish("ok")

\* Mutant: send() and receive() start async_write_some() and async_read_some().
Transfer_Short(m) ==
    /\ kind = "tcp" /\ (call \in Receives \/ (call \in Sends /\ sock = "open"))
    /\ Pending /\ m <= want - done
    /\ done' = done + m
    /\ Finish("ok")

\* m bytes are moved.  A whole transfer that is not complete stays pending.
Transfer(m) ==
    /\ kind = "tcp" /\ (call \in Receives \/ (call \in Sends /\ sock = "open"))
    /\ Pending /\ m <= want - done
    /\ done' = done + m
    /\ IF Whole(call) /\ done' < want
         THEN UNCHANGED <<kind, sock, call, want, ec, err, ready, armed, timer, fired, left, late>>
         ELSE Finish("ok")

\* One datagram is sent whole; one is received, cut to the size of the buffers.
Datagram(m) ==
    /\ kind = "udp" /\ call \in Sends \cup Receives
    /\ m <= want /\ (call \in Sends => m = want)
    /\ done' = m
    /\ Finish("ok")

\* The connection breaks, or the peer has closed it; nobody listens at the port.  The
\* kernel gives a connection up with timed_out (ETIMEDOUT: keep_alive is on), which
\* is passed on like any other error and leaves the socket open.
Fail(e) ==
    /\ call \in Sends \cup Receives
    /\ e \in IF kind = "udp" THEN {"refused"}
              ELSE {"timed_out", IF call \in Sends THEN "broken_pipe" ELSE "eof"}
    /\ Finish(e)
    /\ UNCHANGED done

\* The query ends with endpoints or an error, perhaps after it was cancelled.
Answer(e, m) ==
    /\ call = "resolve" /\ m <= want
    /\ e = "ok" <=> m > 0
    /\ e = "aborted" => fired
    /\ done' = m
    /\ Finish(e)

-----------------------------------------------------------------------------
RunOne == CheckDeadline \/ Complete \/ Connected

Next ==
    \/ \E d \in Timeouts \ {0} : Connect(d)
    \/ \E k \in Sends \cup Receives, n \in 0..MaxBytes, d \in Timeouts : IO(k, n, d)
    \/ \E d \in Timeouts : Resolve(d)
    \/ TooShort \/ RunOne
    \/ Close \/ Destroy \/ Dead
    \/ \E e \in {"ok", "refused", "timed_out"} : ConnectResult(e)
    \/ \E m \in 1..MaxBytes : Transfer(m)
    \/ \E m \in 0..MaxBytes : Datagram(m)
    \/ \E e \in {"ok", "not_found", "aborted"}, m \in 0..MaxBytes : Answer(e, m)
    \/ \E e \in {"refused", "broken_pipe", "eof", "timed_out"} : Fail(e)
    \/ TimerExpires \/ Tick

Spec == Init /\ [][Next]_vars

\* A cancelled query ends, for getaddrinfo() returns in the end.
LateAnswer ==
    fired /\ \E e \in {"ok", "not_found", "aborted"}, m \in 0..MaxBytes : Answer(e, m)

\* The thread runs, time passes and timers go off; the peer owes nothing.
Fairness ==
    WF_vars(RunOne) /\ WF_vars(TimerExpires) /\ WF_vars(Tick) /\ WF_vars(LateAnswer)

FairSpec == Spec /\ Fairness

-----------------------------------------------------------------------------
Outcomes == {"ok", "refused", "broken_pipe", "eof", "timed_out", "aborted",
             "bad_descriptor", "not_found"}

Waits == {i \in DOMAIN ready : ready[i] = "wait"}

TypeOK ==
    /\ kind \in {"tcp", "udp", "resolver"}
    /\ sock \in {"none", "open", "shut", "closed", "dead"}
    /\ call \in Calls \cup {"none"}
    /\ want \in 0..MaxBytes /\ done \in 0..want
    /\ ec \in Outcomes \cup {"would_block"} /\ err \in Outcomes
    /\ ready \in Seq({"wait", "op"})
    /\ armed \in BOOLEAN /\ fired \in BOOLEAN /\ late \in BOOLEAN
    /\ timer \in 0..Infinite /\ left \in 0..Infinite

\* The timer always belongs to the call in progress: it runs with the call's
\* timeout until the deadline fires, and between calls it is off, whatever
\* handlers are still queued.
TimerOwned == timer = IF call = "none" \/ fired THEN Infinite ELSE left

\* check_deadline() is posted exactly once, pending or queued, so that no
\* deadline goes unnoticed and run_one() always has something to wait for.
WaitPosted == IF armed THEN Waits = {} ELSE \E i \in DOMAIN ready : Waits = {i}

\* A deadline fires only after the whole timeout of the very call it ends; a
\* handler left over from an earlier call closes nothing.
NoEarlyTimeout == fired => left = 0

\* A call that begins after its deadline is ended by it, however fast the peer is,
\* whatever handlers are queued and though it has nothing to move: so a sequence of
\* calls with one deadline ends.
LateCallsFail == (call = "none" /\ late) => fired /\ ec = "timed_out"

\* A call whose deadline fired reports timed_out, whatever the operation has met in
\* the meantime, and has closed its socket, so that a pool refuses the session.  The
\* converse does not hold: a duration that is too short and the kernel's time-out are
\* reported as timed_out too, and leave the socket open.
TimeoutCloses ==
    (call = "none" /\ fired) =>
        ec = "timed_out" /\ (kind = "resolver" \/ sock \in {"closed", "dead"})

\* Every call with a finite timeout returns, however silent the peer is.
CallsEnd == (call # "none" /\ left # Infinite) ~> call = "none"

(***************************************************************************)
(* The objects implement the calls with a timeout of TimedStream.          *)
(***************************************************************************)
Stream == INSTANCE TimedStream WITH expired <- fired

\* Seen through its calls alone, without timer and queue, the object is one whose
\* deadlines are noticed once, not early and for the right call, are reported
\* whatever else happened, and whose successful calls did all they were to do.
ImplementsStream == Stream!StreamSpec

(***************************************************************************)
(* What the documentation says and the code does not do.                   *)
(***************************************************************************)
\* stream_socket.hpp: close() closes the socket, so that is_open() is false.
CloseCloses == [][Close => sock' \notin {"open", "shut"}]_vars

=============================================================================
