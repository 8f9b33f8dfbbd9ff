----------------------------- MODULE SslStream ------------------------------
(***************************************************************************)
(* ssl::stream_socket over a TCP socket (stream/ssl_stream_socket).  The   *)
(* SSL engine turns one call into several operations on the socket         *)
(* underneath, the TimedSocket that this module extends.  For the time of  *)
(* a call the I/O timeouts of that socket are switched off, and a single   *)
(* expiration on its timer spans all the operations.                       *)
(*                                                                         *)
(* The variables of TimedSocket describe the operation of the engine in    *)
(* progress; the ones below, the call of the SSL stream it belongs to.     *)
(***************************************************************************)
EXTENDS TimedSocket

CONSTANTS
    IoTimeout,      \* io_operation_timeout_, in ticks
    MaxPlain,       \* longest buffer of a call
    MaxRounds,      \* bound: operations on the socket in one call
    MaxCount        \* bound: bytes of one send() or receive() that are counted

ASSUME SslAssumption ==
    /\ IoTimeout \in 1..MaxTimeout /\ MaxPlain \in Nat \ {0}
    /\ MaxRounds \in Nat \ {0} /\ MaxCount \in Nat /\ MaxCount > MaxPlain

VARIABLES
    scall,      \* the call in progress
    swant,      \* size of its buffers
    sdone,      \* what it returned
    sec,        \* what it reports, or throws
    sleft,      \* history: what is left of its timeout
    rounds,     \* operations on the socket so far
    io,         \* io_timeouted_
    saved,      \* orig_io_timeout_mode
    job,        \* the function that makes the calls, if it makes several
    rest,       \* what is left until its deadline
    moved       \* positions of the buffers that send() or receive() has moved

sslVars == <<scall, swant, sdone, sec, sleft, rounds, io, saved, job, rest, moved>>
allVars == <<vars, sslVars>>

Loops == [send |-> "write_some", receive |-> "read_some"]

SslInit ==
    /\ Init /\ kind = "tcp"
    /\ scall = "none" /\ swant = 0 /\ sdone = 0 /\ sec = "ok"
    /\ sleft = Infinite /\ rounds = 0
    /\ io = FALSE /\ saved = FALSE
    /\ job = "none" /\ rest = 0 /\ moved = <<>>

\* clock_type::now() + t: kInfiniteDuration overflows into the distant past.
FromNow(t) == IF t = Infinite THEN 0 ELSE t

Idle == scall = "none" /\ job = "none" /\ call = "none"

(***************************************************************************)
(* Calls with one expiration: handshake(), write_some(), read_some()       *)
(***************************************************************************)
\* Mutant: the count of the last call is kept.
SslCall_KeepsCount(k, n, d) ==
    /\ scall = "none" /\ call = "none" /\ sock \in {"open", "shut", "closed"}
    /\ scall' = k /\ swant' = n /\ sdone' = sdone /\ sleft' = d /\ rounds' = 0
    /\ io' = FALSE /\ saved' = io
    /\ fired' = FALSE
    /\ Expiration(d, d)
    /\ ready' = WithCancelled(d, ready)
    /\ UNCHANGED <<kind, sock, call, want, done, ec, err, left, late, sec>>

\* Mutant: the timeouts of the socket stay on.
SslCall_TimeoutsOn(k, n, d) ==
    /\ scall = "none" /\ call = "none" /\ sock \in {"open", "shut", "closed"}
    /\ scall' = k /\ swant' = n /\ sdone' = 0 /\ sleft' = d /\ rounds' = 0
    /\ io' = io /\ saved' = io
    /\ fired' = FALSE
    /\ Expiration(d, d)
    /\ ready' = WithCancelled(d, ready)
    /\ UNCHANGED <<kind, sock, call, want, done, ec, err, left, late, sec>>

SslCall(k, n, d) ==
    /\ scall = "none" /\ call = "none" /\ sock \in {"open", "shut", "closed"}
    /\ scall' = k /\ swant' = n /\ sdone' = 0 /\ sleft' = d /\ rounds' = 0
    /\ io' = FALSE /\ saved' = io
    /\ fired' = FALSE
    /\ Expiration(d, d)
    /\ ready' = WithCancelled(d, ready)
    /\ UNCHANGED <<kind, sock, call, want, done, ec, err, left, late, sec>>

Some(k, n, d) ==
    /\ Idle
    /\ SslCall(k, n, d)
    /\ UNCHANGED <<job, rest, moved>>

\* scope_expire() throws timed_out for a duration that is too short, after the
\* timeouts of the socket were switched off; out of the constructor, too.
SslTooShort ==
    /\ Idle /\ sock # "dead"
    /\ sec' = "timed_out" /\ io' = FALSE /\ fired' = FALSE /\ rounds' = 0
    /\ sock' = IF sock = "none" THEN "dead" ELSE sock
    /\ Expiration(0, Infinite)
    /\ ready' = WithCancelled(0, ready)
    /\ UNCHANGED <<kind, call, want, done, ec, err, left, late,
                   scall, swant, sdone, sleft, saved, job, rest, moved>>

\* The engine has nothing to do for a buffer of size zero.
Empty == scall \in {"write_some", "read_some"} /\ swant = 0

\* Mutant: the engine goes on after an error.
Operate_AfterError(k) ==
    /\ scall \notin {"none", "connect"} /\ ~ Empty /\ rounds < MaxRounds
    /\ IO(k, 1, IF io THEN IoTimeout ELSE Infinite)
    /\ rounds' = rounds + 1
    /\ UNCHANGED <<scall, swant, sdone, sec, sleft, io, saved, job, rest, moved>>

\* Mutant: the operations never have a timeout.
Operate_Untimed(k) ==
    /\ scall \notin {"none", "connect"} /\ ~ Empty /\ rounds < MaxRounds
    /\ rounds = 0 \/ ec = "ok"
    /\ IO(k, 1, Infinite)
    /\ rounds' = rounds + 1
    /\ UNCHANGED <<scall, swant, sdone, sec, sleft, io, saved, job, rest, moved>>

\* The engine reads or writes; with the timeouts on, each operation has its own.
Operate(k) ==
    /\ scall \notin {"none", "connect"} /\ ~ Empty /\ rounds < MaxRounds
    /\ rounds = 0 \/ ec = "ok"
    /\ IO(k, 1, IF io THEN IoTimeout ELSE Infinite)
    /\ rounds' = rounds + 1
    /\ UNCHANGED <<scall, swant, sdone, sec, sleft, io, saved, job, rest, moved>>

\* Without an operation on the socket the engine succeeds only with what it holds
\* already, or in a handshake() or shutdown() that repeats an earlier one.
Unaided ==
    Empty \/ scall \in {"read_some", "shutdown"} \/ (scall = "handshake" /\ job = "none")

\* What the engine makes of its last operation: it may be done, or find fault with
\* what it read, or pass an error on.  The last write of write_some() may fail after
\* the bytes have been counted.
EngineResult(e, m) ==
    IF rounds > 0 /\ ec # "ok"
      THEN /\ e = IF ec = "eof" THEN "truncated" ELSE ec
           /\ m = 0 \/ scall = "write_some"
      ELSE \/ e \in {"ssl_error", "eof"} /\ m = 0 /\ ~ Empty
           \/ e = "ok" /\ (rounds > 0 \/ Unaided) /\ (m > 0 \/ swant = 0)

Counted(s) == IF Len(s) > MaxCount THEN SubSeq(s, 1, MaxCount) ELSE s

SslReturn(e, m) ==
    /\ scall \notin {"none", "connect"} /\ call = "none"
    /\ EngineResult(e, m) /\ m <= swant
    /\ scall' = "none" /\ sdone' = m /\ sec' = e
    /\ IF scall = "shutdown"
         THEN UNCHANGED <<io, timer, armed, ready>>
         ELSE /\ io' = saved
              /\ Expiration(sleft, Infinite)
              /\ ready' = WithCancelled(sleft, ready)
    /\ moved' = IF job \in DOMAIN Loops
                  THEN Counted(moved \o [i \in 1..m |-> i]) ELSE moved
    /\ saved' = FALSE
    /\ UNCHANGED <<kind, sock, call, want, done, ec, err, fired, left, late,
                   swant, sleft, rounds, job, rest>>

(***************************************************************************)
(* The constructor connects and shakes hands until one deadline            *)
(***************************************************************************)
SslConnect(d) ==
    /\ Idle
    /\ Connect(d)
    /\ scall' = "connect" /\ swant' = 0 /\ sdone' = 0 /\ sleft' = d /\ rounds' = 1
    /\ job' = "construct" /\ rest' = FromNow(d)
    /\ UNCHANGED <<sec, io, saved, moved>>

\* base_socket() switches its timeouts on at the end.
SslConnected ==
    /\ Connected
    /\ scall' = "none" /\ sec' = ec'
    /\ io' = (sock' = "open")
    /\ job' = IF sock' = "open" THEN job ELSE "none"
    /\ UNCHANGED <<swant, sdone, sleft, rounds, saved, rest, moved>>

Handshake ==
    /\ job = "construct"
    /\ SslCall("handshake", 0, rest)
    /\ job' = "handshake"
    /\ UNCHANGED <<rest, moved>>

\* Without rfc2818_handshake the caller does it; the name may be refused.  The
\* constructor throws if it fails, and the socket is destroyed.
Constructed ==
    /\ scall = "none" /\ job \in {"construct", "handshake"}
    /\ sock' \in IF job = "construct" THEN {sock, "dead"}
                ELSE IF sec = "ok" THEN {sock} ELSE {"dead"}
    /\ job' = "none" /\ rest' = 0
    /\ UNCHANGED <<kind, call, want, done, ec, err, ready, armed, timer, fired, left, late,
                   scall, swant, sdone, sec, sleft, rounds, io, saved, moved>>

(***************************************************************************)
(* send() and receive() repeat a call with the same buffers                *)
(***************************************************************************)
SslLoop(k, n, d) ==
    /\ Idle
    /\ SslCall(Loops[k], n, d)
    /\ job' = k /\ rest' = d
    /\ UNCHANGED moved

\* Mutant: the deadline is taken for a timeout of each call.
Again_FreshTimeout ==
    /\ job \in DOMAIN Loops /\ sec = "ok" /\ Len(moved) # swant
    /\ SslCall(Loops[job], swant, MaxTimeout)
    /\ UNCHANGED <<job, rest, moved>>

Again ==
    /\ job \in DOMAIN Loops /\ sec = "ok" /\ Len(moved) # swant
    /\ SslCall(Loops[job], swant, rest)
    /\ UNCHANGED <<job, rest, moved>>

LoopEnds ==
    /\ job \in DOMAIN Loops /\ scall = "none" /\ (sec # "ok" \/ Len(moved) = swant)
    /\ job' = "none" /\ rest' = 0 /\ moved' = <<>>
    /\ UNCHANGED <<vars, scall, swant, sdone, sec, sleft, rounds, io, saved>>

(***************************************************************************)
(* close(): SSL shutdown with the timeouts of the socket, then close       *)
(***************************************************************************)
Shutdown ==
    /\ Idle /\ sock \in {"open", "shut", "closed"}
    /\ scall' = "shutdown" /\ swant' = 0 /\ sdone' = 0 /\ sleft' = 0 /\ rounds' = 0
    /\ job' = "close"
    /\ UNCHANGED <<vars, sec, io, saved, rest, moved>>

\* A missing close_notify is no error if it is reported in the category of SSL, as
\* it is before OpenSSL 1.1; later ones report it in another category, and the socket
\* stays open as it does after any other error.
SslClosed ==
    /\ job = "close" /\ scall = "none"
    /\ sock' \in CASE sec = "ok"        -> {"closed"}
                  [] sec = "truncated" -> {"closed", sock}
                  [] OTHER             -> {sock}
    /\ job' = "none"
    /\ UNCHANGED <<kind, call, want, done, ec, err, ready, armed, timer, fired, left, late,
                   scall, swant, sdone, sec, sleft, rounds, io, saved, rest, moved>>

\* io_timeout_enabled(), between calls.
SetTimeoutMode(b) ==
    /\ Idle /\ sock \in {"open", "shut", "closed"} /\ io # b
    /\ io' = b
    /\ UNCHANGED <<vars, scall, swant, sdone, sec, sleft, rounds, saved, job, rest, moved>>

SslDestroy ==
    /\ Idle /\ Destroy
    /\ UNCHANGED sslVars

-----------------------------------------------------------------------------
\* Each of the running clocks goes on.
Less(t) == IF t \in 1..MaxTimeout THEN t - 1 ELSE t

SslTick ==
    /\ ~ Idle
    /\ timer' = Less(timer)
    /\ left' = IF call # "none" THEN Less(left) ELSE left
    /\ sleft' = IF scall # "none" THEN Less(sleft) ELSE sleft
    /\ rest' = IF job # "none" THEN Less(rest) ELSE rest
    /\ UNCHANGED <<kind, sock, call, want, done, ec, err, ready, armed, fired, late,
                   scall, swant, sdone, sec, rounds, io, saved, job, moved>>

Network ==
    \/ \E e \in {"ok", "refused", "timed_out"} : ConnectResult(e)
    \/ Transfer(1)
    \/ \E e \in {"broken_pipe", "eof", "timed_out"} : Fail(e)

\* What the owner's thread does by itself once a call has begun.
Engine ==
    \/ (CheckDeadline \/ Complete) /\ UNCHANGED sslVars
    \/ SslConnected
    \/ \E k \in {"write_some", "read_some"} : Operate(k)
    \/ \E e \in Outcomes \cup {"truncated", "ssl_error"}, m \in 0..MaxPlain :
         SslReturn(e, m)

Routine == Handshake \/ Constructed \/ Again \/ LoopEnds \/ SslClosed

SslNext ==
    \/ \E d \in Timeouts \ {0} : SslConnect(d)
    \/ \E d \in Timeouts : Some("handshake", 0, d)
    \/ \E k \in {"write_some", "read_some"}, n \in 0..MaxPlain, d \in Timeouts : Some(k, n, d)
    \/ \E k \in DOMAIN Loops, n \in 1..MaxPlain, t \in Timeouts : SslLoop(k, n, FromNow(t))
    \/ SslTooShort \/ Shutdown \/ SslDestroy
    \/ \E b \in BOOLEAN : SetTimeoutMode(b)
    \/ Engine \/ Routine
    \/ Network /\ UNCHANGED sslVars
    \/ TimerExpires /\ UNCHANGED sslVars
    \/ SslTick
    \/ Dead /\ UNCHANGED sslVars

SslSpec == SslInit /\ [][SslNext]_allVars

\* The thread runs, time passes and timers go off; the peer owes nothing.  What the
\* engine holds is finite, so that reading again and again reaches the socket.
SslFairSpec ==
    /\ SslSpec
    /\ SF_allVars(Operate("read_some"))
    /\ WF_allVars(Engine) /\ WF_allVars(Routine)
    /\ WF_allVars(TimerExpires /\ UNCHANGED sslVars) /\ WF_allVars(SslTick)

-----------------------------------------------------------------------------
SslTypeOK ==
    /\ scall \in {"none", "connect", "handshake", "write_some", "read_some", "shutdown"}
    /\ swant \in 0..MaxPlain /\ sdone \in 0..swant
    /\ sec \in Outcomes \cup {"truncated", "ssl_error"}
    /\ sleft \in Timeouts /\ rest \in Timeouts /\ rounds \in 0..MaxRounds
    /\ io \in BOOLEAN /\ saved \in BOOLEAN
    /\ job \in DOMAIN Loops \cup {"none", "construct", "handshake", "close"}
    /\ Len(moved) <= MaxCount

\* One expiration governs all the operations of a call: the timer runs with what is
\* left of the call's own timeout, whatever operation is in progress, and is off
\* between calls.
SslTimerOwned ==
    timer = IF fired \/ scall = "none" \/ (scall = "shutdown" /\ call = "none") THEN Infinite
            ELSE IF scall = "shutdown" THEN left ELSE sleft

\* Like a plain socket, the SSL stream is one whose deadlines are noticed once, not
\* early and for the right call, and are reported: an operation that begins within
\* the call and resets deadline_fired_ never hides a deadline that was noticed.
SslCalls == INSTANCE TimedStream WITH
    MaxBytes <- MaxPlain, call <- scall, want <- swant, done <- sdone, ec <- sec,
    left <- sleft, expired <- fired /\ rounds > 0

SslImplementsStream == SslCalls!StreamSpec

\* send() and receive() with a deadline, and the constructor with a timeout, return
\* however silent the peer is, although they consist of many operations, none of
\* which has a timeout.
SslJobsEnd ==
    /\ job \in DOMAIN Loops ~> job = "none"
    /\ (job \in {"construct", "handshake"} /\ sleft # Infinite) ~> job = "none"

\* close() returns if the I/O timeouts are on, although the peer never answers
\* the close_notify.
SslCloseEnds == (job = "close" /\ io) ~> job = "none"

(***************************************************************************)
(* What the documentation says and the code does not do.                   *)
(***************************************************************************)
\* ssl_stream_socket.hpp: send() blocks until all of the data in the supplied buffers
\* has been written, or an error or timeout occurred.
SendWritesAll ==
    [][(job = "send" /\ job' = "none" /\ sec = "ok")
         => moved = [i \in 1..swant |-> i]]_allVars

=============================================================================
