---------------------------- MODULE TimedStream -----------------------------
(***************************************************************************)
(* What a timed object promises the code that calls it: a call with a      *)
(* timeout.  There is no timer, no queue of handlers and no SSL engine     *)
(* here.  TimedSocket (TCP, UDP and the resolver) and SslStream implement  *)
(* this module; HttpSocket is built on it, as http::base_socket<Stream> is *)
(* on any stream with write_some() and read_some().                        *)
(* Times are small numbers of ticks, 0 is a deadline that has passed.      *)
(***************************************************************************)
EXTENDS Integers

CONSTANTS
    MaxTimeout,     \* longest finite timeout, in ticks
    MaxBytes        \* longest buffer

VARIABLES
    kind,       \* "tcp", "udp" or "resolver"
    sock,       \* "none" before the constructor, "dead" after the destructor;
                \* "shut" is shut down in both directions, but open
    call,       \* the call in progress
    want,       \* size of its buffers
    done,       \* bytes (or endpoints) of the current or last call
    ec,         \* what the call reports, or throws
    left,       \* what is left of the timeout of the current or last call
    expired     \* its deadline was noticed

streamVars == <<kind, sock, call, want, done, ec, left, expired>>

Infinite == MaxTimeout + 1      \* kInfiniteDuration, which never passes

Timeouts == 0..Infinite

Calls == {"connect", "handshake", "send", "receive", "write_some", "read_some",
          "resolve", "shutdown"}

\* timed_out is among them, for the kernel gives up a connection with that error.
Errors == {"refused", "broken_pipe", "eof", "timed_out", "truncated", "ssl_error",
           "aborted", "bad_descriptor", "not_found"}

\* What a call has transferred when it reports success: the whole buffers, or
\* something, unless there was nothing to transfer.  A datagram may be empty.
Enough(n) ==
    CASE call = "send" \/ (call = "receive" /\ kind = "tcp") -> n = want
      [] call \in {"write_some", "read_some", "resolve"}     -> n > 0 \/ want = 0
      [] OTHER                                               -> TRUE

\* Nothing is written to a socket that is shut down or closed.
Writable == (call \in {"send", "write_some"} /\ want > 0) => sock = "open"

StreamInit ==
    /\ kind \in {"tcp", "udp", "resolver"}
    /\ sock = IF kind = "resolver" THEN "open" ELSE "none"
    /\ call = "none" /\ want = 0 /\ done = 0
    /\ ec = "ok" /\ left = Infinite /\ expired = FALSE

(***************************************************************************)
(* The caller's steps                                                      *)
(***************************************************************************)
Begin(k, n, d) ==
    /\ call = "none" /\ sock # "dead"
    /\ call' = k /\ want' = n /\ done' = 0
    /\ ec' \in {ec, "would_block"} /\ left' = d /\ expired' = FALSE
    /\ UNCHANGED <<kind, sock>>

\* A timeout that is too short to be measured throws before anything starts, and
\* closes nothing.
Refuse ==
    /\ call = "none"
    /\ done' \in {0, done} /\ ec' = "timed_out" /\ expired' = FALSE
    /\ sock' \in {sock, "dead"}
    /\ UNCHANGED <<kind, call, want, left>>

\* Between calls the caller may shut the object down, close or destroy it.
Dispose ==
    /\ call = "none" /\ sock \in {"open", "shut", "closed"}
    /\ sock' \in {"shut", "closed", "dead"}
    /\ UNCHANGED <<kind, call, want, done, ec, left, expired>>

(***************************************************************************)
(* Steps of a call                                                         *)
(***************************************************************************)
\* A resolver that is cancelled may still answer; a closed socket moves nothing.
Progress ==
    /\ call # "none" /\ (expired => kind = "resolver")
    /\ done' \in done..want
    /\ UNCHANGED <<kind, sock, call, want, ec, left, expired>>

Pass ==
    /\ call # "none" /\ left \in 1..MaxTimeout
    /\ left' = left - 1
    /\ UNCHANGED <<kind, sock, call, want, done, ec, expired>>

\* The deadline is noticed at most once, never early, and closes a socket.
Expire ==
    /\ call # "none" /\ left = 0 /\ ~expired
    /\ expired' = TRUE
    /\ sock' = IF kind = "resolver" THEN sock ELSE "closed"
    /\ UNCHANGED <<kind, call, want, done, ec, left>>

\* A deadline that was noticed is reported, whatever else happened; success is
\* reported only of a call that did what it was to do.
Return ==
    /\ call # "none"
    /\ call' = "none"
    /\ done' \in done..want
    /\ IF expired THEN ec' = "timed_out"
                  ELSE ec' \in Errors \/ (ec' = "ok" /\ Enough(done') /\ Writable)
    /\ sock' \in IF call = "connect" THEN (IF ec' = "ok" THEN {"open", "dead"} ELSE {"dead"})
                                     ELSE {sock}
    /\ UNCHANGED <<kind, want, left, expired>>

StreamNext ==
    \/ \E k \in Calls, n \in 0..MaxBytes, d \in Timeouts : Begin(k, n, d)
    \/ Refuse \/ Dispose
    \/ Progress \/ Pass \/ Expire \/ Return

StreamSpec == StreamInit /\ [][StreamNext]_streamVars

=============================================================================
