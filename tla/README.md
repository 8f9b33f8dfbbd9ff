# stream-client: TLA+ models and proofs

stream-client is a header-only C++ library of blocking network clients with timeouts. This
directory models it in TLA+, checks the models with TLC and proves much of what TLC checks with
TLAPS. Paths below are relative to `src/include/stream-client/`.

## 1. The system

| part | state | operations that change it |
|---|---|---|
| connection pool (`connector/connection_pool.hpp`, `.ipp`) | `sesson_pool_`, `pool_mutex_`, `pool_cv_`, `watch_pool_`, the watcher's locals | `get_session`, `try_get_session`, `return_session`, `is_connected`, `watch_pool_routine`, constructor, destructor |
| strategies (`connector/pool_strategy.hpp`, `.ipp`) | `current_delay_ms_`, `wait_until_`, threads of one `refill` | greedy and conservative `refill` |
| connector (`connector/connector.hpp`, `.ipp`) | `endpoints_`, `resolve_done_`, `resolve_needed_`, `resolve_error_`, two mutexes with condition variables | `new_session`, `resolve_routine`, `notify_resolve_*`, `update_endpoints`, destructor |
| timed base (`detail/timed_base.hpp`) | the timer, `deadline_fired_`, the object's own `io_service` | `scope_expire`, `~expiration`, `check_deadline` |
| base and TCP socket (`stream/base_socket`, `stream/stream_socket`) | the socket, the caller's `ec` | constructor, `send`, `receive`, `write_some`, `read_some`, `close`, `deadline_actor` |
| UDP socket (`stream/dgram_socket`) | as above | `send`, `receive` |
| resolver (`resolver/resolver`) | the timer, the pending query | `resolve` |
| SSL stream (`stream/ssl_stream_socket`) | the SSL engine on top of a socket, `io_timeouted_` of that socket | constructor, `handshake`, `send`, `receive`, `write_some`, `read_some`, `close`, `io_timeout_enabled` |
| HTTP (`stream/http_socket`) | `buffer_`, the serializer, the parser | `perform`, `send_request`, `recv_response` |
| static allocator (`stream/detail/static_allocator.hpp`) | a block of memory, a position, two counts | `construct`, `share`, `destroy`, `alloc`, `dealloc` |
| logger (`logger.hpp`, `impl/logger.ipp`) | one global `shared_ptr`, the level of each logger | `set_logger`, `set_log_level`, `get_log_level`, `log_message`, the `STREAM_LOG` macros |

**How they interact.** Client threads take sessions (sockets) from the pool and give them back.
The pool's watcher thread drops sessions that idled too long and calls `refill`, which starts
threads that call `new_session` of the connector. The connector waits for endpoints from its own
resolver thread, connects a socket and, after a failure, asks that thread to resolve again. A
socket belongs to one thread at a time; each blocking call of it runs the object's `io_service`
until the handler of the operation has run. An SSL stream turns each of its calls into several
calls of the socket underneath; an HTTP client works with the calls of either. Every thread logs
through one global logger.

**What is hard about it.** Notifications are sent after the mutex is released. The number of
vacant places is computed outside the mutex and used while clients go on. Timed locks may fail
and drop what they were about to store. The resolver keeps a mutex during name resolution.
Handlers of cancelled waits run in a later call than the one they were made for, and a deadline
may fire when the operation is complete but its handler has not run. One deadline spans many
operations of an SSL or HTTP call. Bytes of one response may be under way when the next request
is sent. Destructors join threads that may be anywhere in their loops. `PROJECT.json` lists these
hazards with their lines.

## 2. The modules

| module | what it is |
|---|---|
| `PoolStrategy` | attempts and delays of the two strategies, as operators |
| `SessionPool` | abstract: a set of sessions, without mutex, condition variable or threads of its own |
| `ConnectionPool` | pool, watcher, adders of `refill`, clients, destructor |
| `PoolAsSet` | the mapping of `ConnectionPool` to `SessionPool` |
| `ConnectionPoolProofs` | types, mutual exclusion, what each label implies; the theorems about them |
| `ConnectionPoolSafety` | the bound on connections and the absence of lost wake-ups |
| `ConnectionPoolOwners` | the single owner of a session, the order of the list; that `ConnectionPool` implements `SessionPool` |
| `Connector` | `new_session` callers, resolver thread, destructor, a name whose addresses change |
| `ConnectorProofs` | the theorems about it |
| `TimedStream` | abstract: a call with a timeout, without timer, queue or engine |
| `TimedSocket` | timer, handler queue, TCP and UDP transfers, `close`, the resolver's query |
| `TimedSocketProofs` | the theorems about the timer and the queue; that `TimedSocket` implements `TimedStream` |
| `SslStream` | the SSL stream, on top of `TimedSocket`, which it extends |
| `SslStreamProofs` | the theorems about its timer; that `SslStream` implements `TimedStream` |
| `HttpSocket` | the HTTP client and a server, on top of `TimedStream`, which it extends |
| `HttpSocketProofs` | the theorems about the buffer and about whole and own responses |
| `StaticPool` | the memory behind `static_allocator`, with its proofs |
| `Logger` | the global logger and the threads that use it |
| `MCConnectionPool`, `MCConnector` | symmetry sets for TLC |

The composition is by calls: `TimedSocket` and `SslStream` are both proved to implement
`TimedStream`, and `HttpSocket` uses nothing else of its stream, as `http::base_socket<Stream>`
does.

Definitions under a comment that begins with `Mutant:` are wrong on purpose. Nothing refers to
them; each is put in place of the definition that follows it to make sure that a property
notices.

**Threads and mutexes.** The control of a thread is a label, and whether a mutex is held follows
from the labels (`Locked`, `DoneLocked`, `NeededLocked`). A timed lock times out only while
another thread holds the mutex. A condition variable is the label `"sleep"`: `notify_one` moves
one sleeper to `"woken"`, `notify_all` all of them; a deadline moves it to `"expired"`, after
which the predicate is evaluated once more. Wake-ups may be spurious.

**Time.** Clients' deadlines are arbitrary, so that a wait on the pool may expire at any moment. The
age of a pooled session and the rest of the back-off are small numbers relative to now. In
`Connector` a caller is or is not past its deadline. In the sockets a timeout is a number of
ticks; `Infinite` is `kInfiniteDuration`, and 0 a time point that has passed.

**ConnectionPool.** `pc` and `hand` say where a thread is and which session it owns; `pool` is the
list with ages. `CallGet`, `Lock`, `Found`, `Sleep`, `Relock`, `NotFound` are the steps of the getters
and of `is_connected`; `CallReturn`, `ReturnLock`, `AppendSession`, `NotifyOne` those of
`return_session`, for clients and adders. `WatchTop` to `WatchSleep` are the watcher. Connecting is
a step that yields a session nobody owns, or fails. The scan is a step per session, under a clock
that stands still, because the code reads `now` once.

**SessionPool.** A call begins (`Begin`), acts at one instant and ends. `Take`, `Probe` and `Fail` act and
end; `return_session` acts in `Put`, if it gets the mutex, and ends in `Return`. Sessions come
(`Arrive`) and go (`Evict`) by themselves. The promise is in `Fail`: `not_found` is said only at an
instant when the pool is empty. In `PoolAsSet` the list becomes the set of its sessions, and adders and
watcher disappear.

**Connector.** `dns` is the set of addresses where the servers listen; `Move` changes it at any
time, and `Answer` copies what the resolver saw, which may be stale when it is stored. An attempt
to connect succeeds only at an address of `dns`. `owed` is a history variable: it remembers that a
caller asked for a resolution since the last one started.

**TimedStream.** `Begin`, `Progress`, `Pass`, `Expire`, `Return` are the life of one call; `Refuse` and
`Dispose` lie between calls. The promise is in `Expire` (at most once, never early, it closes a
socket) and `Return` (a deadline that was noticed is reported; success is reported only of a call
that did all it was to do, see `Enough`). `timed_out` may also be reported without a deadline
that was noticed: `Refuse` throws it for a duration that is too short, and the kernel may give up
on a connection by itself (`keep_alive` is on).

**TimedSocket.** `kind` chooses a TCP socket, a UDP socket or a resolver. `ready` is the queue of the
`io_service`, with the handler of the timer (`"wait"`) and of the operation (`"op"`). Setting the
timer queues the handler of the wait it cancels. A call is over when its `"op"` has run; `ec` is
what it reports, in the caller's `error_code` or as the code of an exception. An operation
without bytes on a stream completes at once, on a closed socket too. A resolver that is
cancelled does not end a query that is running; its answer comes late. `left` is a history variable with what is left of the timeout of the call, `late` says that the call began
after its deadline. Assumed of asio: it moves handlers and does not copy them (a copy of
`expiration` would reset the timer when it dies), it runs handlers in the order in which they
became ready, and it delivers no `try_again` to a handler, so that the loops
`while (ec == try_again)` run once.

**SslStream.** The variables of `TimedSocket` describe the operation in progress on the socket, those
with an `s` the call of the SSL stream it belongs to. `SslCall` switches the socket's timeouts off
and sets one expiration; `Operate` is an operation of the engine, `SslReturn` the end of the call.
`job` is a function that makes several calls: the constructor, `send`, `receive`, `close`. The engine
is external: how many operations it needs and what it makes of them is a choice (`EngineResult`).
A call without bytes, a `handshake` after the constructor's own and a second `shutdown` need none.
`moved` holds the positions of the buffers that `send` and `receive` have moved. `FromNow` is
`clock_type::now() + timeout`, which overflows for `kInfiniteDuration`.

**HttpSocket.** `Perform`, `SendMore`, `Wrote` are `perform` and `send_request`; `ReceiveMore`, `Read`,
`Parse`, `ParseEof` are `recv_response`. A byte of a response carries the number of its request and
its part (of a line, the end of the header and how the body ends, the body, its end), which is all
that the parser's control depends on. A body has a length, comes in chunks or goes on until the
end of the stream. The parser keeps an incomplete header in the buffer, and of a chunked body an
incomplete line: a chunk's header or extension, or a trailer. It may find fault with any bytes. The server
answers what it has heard, in order, and may stop or hang up anywhere. `taken` and `clean` are
history variables.

**Logger.** Copying the global `shared_ptr` is two steps, to read the pointer and to raise the count;
assigning it is a swap, then the release of the old one. That is how the standard library does it
when it is not atomic. The parameter `new_logger` keeps a share of its own until the function
returns.

**StaticPool.** Blocks are kept in a history variable with place and size.

## 3. What is checked

Runs that pass:

| run | properties | bounds |
|---|---|---|
| `pool_greedy` | `TypeOK`, `ConnectionBound`, `OneOwner`, `OldestFirst`, `QuietWhenGone`, `NoLostWakeup`, `ImplementsSet` | 2 clients, size 2, 5 sessions |
| `pool_conservative` | `TypeOK`, `ConnectionBound`, `QuietWhenGone`, `ImplementsSet` | 1 client that also calls `is_connected`, size 4, 6 sessions |
| `pool_live` | `SleeperServed`, `PoolRefills`, `DestructorReturns` | 1 client, size 1, conservative |
| `connector_safety` | `TypeOK`, `NullHasError`, `EndpointsReady`, `RequestKept` | 2 callers, 2 addresses |
| `connector_live` | `RequestServed`, `CallReturns`, `EndpointsCatchUp`, `DestructorReturns` | 1 caller, 2 addresses |
| `socket` | `TypeOK`, `TimerOwned`, `WaitPosted`, `NoEarlyTimeout`, `LateCallsFail`, `TimeoutCloses`, `CallsEnd`, `ImplementsStream` | TCP, UDP and resolver; timeouts up to 3, buffers up to 3 |
| `ssl` | `SslTypeOK`, `SslTimerOwned`, `SslImplementsStream`, `SslJobsEnd`, `SslCloseEnds` | timeouts up to 2, buffers up to 2, 2 operations a call, I/O timeout 1 |
| `http` | `HttpTypeOK`, `OwnResponse`, `WholeResponse`, `RoomToRead`, `PerformEnds` | 2 requests of 2 bytes, `kHeaderLimit` 2, `kBodyLimit` 1, reads up to 2, timeouts up to 1 |

- `ConnectionBound`: pool and clients own at most `size + number of clients` connections, although
  the watcher works with a count that is out of date.
- `NoLostWakeup`: while a getter sleeps, each pooled session has a thread of its own that will take
  it or wake a sleeper. `SleeperServed` is the liveness it is there for. Both are about pools whose
  clients do not call `is_connected`.
- `OneOwner`, `OldestFirst`: sessions are neither duplicated nor pooled when closed, and a getter
  gets the one that idled longest.
- `ImplementsSet`: seen through their calls alone, clients share a set of open sessions. A call that
  fails takes nothing, `not_found` is said of an empty pool only, and a session put back is there
  from one instant on, before `return_session` notifies and ends.
- `PoolRefills`: an empty pool gets a session if connecting succeeds now and then.
- `RequestKept`, `RequestServed`: a request for a resolution made while one is going on is not
  cleared by it. `EndpointsCatchUp`: when the servers stop moving and callers keep failing, the
  connector ends up with the right endpoints.
- `NullHasError`, `EndpointsReady`: a null session always comes with an error, and nobody passes
  the wait without endpoints.
- `TimerOwned`, `WaitPosted`, `NoEarlyTimeout`, `TimeoutCloses`, `CallsEnd`: each deadline belongs to
  the call in progress, fires once, not early and in time, and a call whose deadline fired reports
  `timed_out` and has closed its socket, even if its operation was complete. (A call that reports
  `timed_out` need not have closed it: section 4.) `LateCallsFail`: a call that begins after its deadline times out, even if the peer's
  bytes are already there, because the cancelled wait is queued before the operation starts.
- `ImplementsStream`, `SslImplementsStream`: seen through their calls alone, the objects do what
  `TimedStream` promises. For SSL this includes that an operation, which resets `deadline_fired_`
  when it begins, never hides a deadline that was noticed in the same call.
- `SslTimerOwned`, `SslJobsEnd`, `SslCloseEnds`: one expiration governs all operations of a call;
  `send`, `receive`, the constructor and `close` return though the peer is silent. The operations
  of `close` each have a timeout of their own, and `MaxRounds` bounds their number: of a peer that
  for ever sends records which the engine accepts, but no `close_notify`, `SslCloseEnds` says nothing.
- `OwnResponse`: `perform` does not return the answer to an earlier request, unless an earlier call
  failed and left the stream open. `WholeResponse`: a response that was cut short is not passed
  off as a whole one. `RoomToRead`: the size of a read does not wrap around, `prepare` does not
  throw, and the size is zero only when an incomplete line of a chunked body fills the buffer
  (`Spins`). `PerformEnds`: unless that happens the deadline ends `perform`, whatever the server sends.
- `QuietWhenGone`, `DestructorReturns`: destructors end, and no thread survives them.

**Why the bounds suffice.** Two clients and two adders are enough for one thread to overtake
another between its unlock and its notification; size 2 with 5 sessions lets the pool hold more
sessions than places. Size 4 is the least for which the conservative strategy starts a second
thread. Ages count to `IdleTimeout`, after which they no longer matter (in `pool_conservative`
`MaxAge` is 0: no session expires). Delays up to `MaxBackoff = 2` contain the first, a raised and the
capped delay. A socket with timeouts 0 to 3 has room for a leftover handler in a later call
whose deadline is still to come. An SSL call of two operations has one that begins after another
has ended; `MaxCount = 3` is more than any buffer, so that a loop can overshoot. Two requests are
enough for bytes of the first to meet the second; a header can be one byte short of its limit of 2,
at it, or cut by a read, and with `kBodyLimit = 1` two bytes of a line fill the buffer up to the
last byte. The liveness runs of pool and connector have one client,
because the graph of two is too large for TLC's liveness check.

**Fairness.** Threads that can run do run; a thread waiting for a mutex without a deadline gets it
if it is free again and again; the timed locks of a thread that tries for ever do not all fail;
`new_session` and a resolution with a timeout return; `getaddrinfo` returns in the end; timers go
off. In `SslStream` an engine that reads again and again reaches the socket in the end, for the
decrypted data it holds is finite (strong fairness of `Operate("read_some")`). In `HttpSocket` strong
fairness of `Deadline` stands for `LateCallsFail`, which is proved of the socket: a call that begins
after its deadline ends by it. It is not assumed of reads of size zero, which over SSL never get to
the socket. Nothing is assumed of clients and peers: no client has to call, to
return its session or to see a deadline, no peer has to answer. `PoolRefills` and `EndpointsCatchUp`
name their assumption on the network in their text.

**Deadlock** is checked in every run. A destroyed object stutters (`Gone`, `Dead`, `HttpDead`).

## 4. Where the code and its documentation disagree

Each of these runs ends in a counterexample:

| run | documentation | code |
|---|---|---|
| `pool_prober` | the pool is thread-safe and `get_session` tries until its deadline | `is_connected` waits on the getters' condition variable and absorbs the only `notify_one`; the getter sleeps on beside a pooled session |
| `socket_close` | `close` closes | after a successful `shutdown` it returns, and `is_open` stays true |
| `ssl_send` | `send` writes all of the buffers | after a short write it writes the beginning again, and reports success when the counts add up to the size |
| `logger_race` | logging is thread-safe | `set_logger` replaces the global `shared_ptr` while others copy it; a thread may use a logger that is destroyed |

Seen in the code, without a run.

Pool and connector:

- The headers say that there may be `size + 1` connections; there may be one more per client
  (`ConnectionBound` is the bound that holds).
- `get_session`, `try_get_session` and `is_connected` leave an old error in `ec` when they succeed.
- `is_connected()` throws `not_found` for an empty pool, where its documentation has a result `false`.
- The base class says that `refill` returns true if all sessions were added; the greedy one returns
  true if there were vacant places, so that the watcher does not pause when every attempt fails.
- The conservative `refill` returns true "if added at least one session" (`pool_strategy.hpp:110`);
  it also does when `return_session` missed the lock and dropped the session.
- After a failure it "will add only one session" (`pool_strategy.hpp:101`); a delay that the random
  factor leaves below one millisecond is truncated to 0, which stands for no failure.
- `new_session` is to throw `timed_out` after `connect_timeout` (`src/README.md:107-108`);
  `notify_resolve_needed` locks without a deadline a mutex that is held during name resolution.
- `new_session` does not trigger the resolver when it times out before it has endpoints
  (`connector.hpp:76` says that it does on a timeout).

Sockets and resolver:

- A timeout below 1us makes the overloads with `ec` throw `timed_out` (`TooShort`), with `would_block`
  in `ec` and the socket still open; as a resolve timeout it ends the program, since the throw leaves the resolver's thread.
- A connection that the kernel gives up is reported as `timed_out` too, and the socket is open: a
  caller cannot take `timed_out` for a sign that it is closed.
- `deadline_fired_` is set after `deadline_actor()`, its comment says before. Nobody reads it between.
- `read_some` and `write_some` are to return 0 on an error (`stream_socket.hpp:214`); a deadline that
  fires while the completion is queued gives `timed_out` and a positive count. In the same way
  `resolve` returns endpoints with `timed_out` (`resolver.hpp:90`).
- `cancel()` of the resolver does not interrupt `getaddrinfo`: a timed-out `resolve` returns only when
  the query has ended.
- A UDP `receive` returns after one datagram, full buffers or not (`dgram_socket.hpp:95`).
- A move takes the timer along, and the posted handler keeps the old `this` (`timed_base.hpp:166`).

SSL, HTTP and logger:

- `receive` of the SSL stream reads into the beginning of its buffers again, as `send` writes it.
- `send`, `receive` and the constructor of the SSL stream, and `perform`, add a timeout to the time
  of the call: `kInfiniteDuration` overflows into a deadline that has passed (`FromNow`), where
  `ssl_stream_socket.hpp:488-489` has an indefinite timeout.
- A duration that is too short makes an SSL call throw after it has switched the socket's timeouts
  off; they stay off, and a later `close()` may block for ever, contrary to
  `ssl_stream_socket.hpp:68`.
- `close()` of the SSL stream leaves the socket open when the SSL shutdown fails in any other way
  than by truncation; and by truncation too, where that error is not in the category
  `get_ssl_category()` that `ssl_stream_socket.ipp:44` asks for (OpenSSL 1.1 and later).
- The branch `buffer_overflow` of `recv_response` is never taken: `RoomToRead`.
- When an incomplete line of a chunked body fills the buffer, `max_size() - size() - 1` is 0 and
  `recv_response` reads nothing again and again (`Spins`). Over TCP the deadline ends that; over SSL a
  read of size zero never gets to the socket, and no deadline is noticed.
- An HTTP client that failed other than by its deadline is still open, with the rest of a response
  under way. It must not be used again; `OwnResponse` makes that its condition.
- `set_logger(nullptr)` keeps the current logger (`logger.hpp:215` says that it prints to `cout`).
- The level `mute` is -1, below all others: a logger with it logs everything.

## 5. What is proved

All theorems hold for every value of the constants that satisfies the named assumptions
(`PoolAssumption`, `DelayAssumption`, `ConnectorAssumption`, `TimedAssumption`, `SslAssumption`,
`HttpAssumption`): for any number of clients, adders, callers, sessions, addresses and requests,
for every size, timeout, buffer and limit. `HttpAssumption` asks that a request and a read fit into
the longest buffer of `TimedStream`, which bounds the model and not the code.

- `ConnectionPoolProofs`: the invariant `Shape` (types, `Mutex`, `Phases`) is inductive. `Mutex` says that
  `pool_mutex_` has one owner; `Phases` ties the control of each thread to its data, for instance
  that adders run only while the watcher joins them, and that `refill` is entered only with vacant
  places (otherwise `(vacant + 2) / 3 - 1` would wrap around). `TypeCorrect` and `QuietAfterDestructor`
  follow.
- `ConnectionPoolSafety`, `BoundedConnections`: `ConnectionBound` is not inductive, since the watcher's
  count is not part of it. `Room` adds the places counted but not yet filled and the attempts under
  way. The step that matters is the end of the scan, where every adder is idle and each client
  owns at most one session.
- `ConnectionPoolSafety`, `WakeupsNotLost`: `NoLostWakeup` is inductive relative to `Shape`. An append adds
  a session and a notifier; a notification replaces the notifier by the thread it woke, or finds
  nobody asleep; a getter that leaves takes a session with it. A thread goes to sleep only when
  the pool is empty.
- `ConnectionPoolOwners`, `SingleOwner`: `return_session` tests `is_open()` before it waits for the mutex
  and not again when it appends. `Owned` adds that a session on its way into the list is open, and
  that every closed session is in the hands of a client. `FrontIsOldest`: `OldestFirst` is inductive
  relative to `Shape`, since the list grows only at its back and time adds the same to all.
- `ConnectionPoolOwners`, `PoolImplementation`: every step of the pool is a step of `SessionPool` or
  hidden from the clients. It rests on `Shape` and `Owned`: only because no session is in the list
  twice does `pop_front` or `erase` take it out of the set, and only because a session of an adder is open
  and nobody else's may it arrive. The expiry of a wait is hidden; `not_found` comes from the
  evaluation of the predicate that follows it under the mutex.
- `ConnectorProofs`: `ConnectorInv` is inductive. `RequestKept` needs `Exclusive` (nobody sets
  `resolve_needed_` while the resolver's thread holds the mutex, which it does from the test to the
  reset) and `Served` (a resolution under way serves all requests there are). `EndpointsReady` needs
  `Stored` (endpoints are there before `resolve_done_` says so), `NullHasError` needs `Explained` (who
  asks for a resolution has an error).
- `TimedSocketProofs`: `TimerInv` relates the timer, the flag and the rest of the timeout;
  `TimerHasOwner`, `TimeoutsNotEarly`, `TimeoutsClose` and `TypeCorrect` follow from it. `TimeoutsClose`
  speaks of deadlines that fired, the only case in which the socket is sure to be closed. `QueueInv` lists
  the five queues that occur and says that the wait a late call has cancelled comes before the
  handler of its operation; `WaitAlwaysPosted` and `LateCallsTimeOut` follow.
- `TimedSocketProofs`, `Implementation`: every step of `TimedSocket` is a step of `TimedStream` or
  leaves its variables alone. `CallInv` says that a pending operation is one of an open socket
  whose deadline has not fired, and that a queued success has done enough.
- `SslStreamProofs`: `SslInv` is inductive. `TimerInv` does not carry over, since the operations of an
  SSL call have no timeout while the timer runs with the one of the call. `Layered` ties the
  operation in progress to its call: within a transfer the timeouts of the socket are off, so that
  no operation sets the timer. `Reported` ties a deadline that fired to the outcome of the operation
  it ended: the engine sees `timed_out` and begins no other operation, so that `deadline_fired_` is
  reset only when it is not set. `SslTypesHold` and `SslTimerHasOwner` follow. `SslImplementation`: a
  step of the engine maps to a stutter, the deadline to `Expire`, and what the engine makes of its
  last operation to `Return`; a write succeeds only on an open socket, as its last operation did.
- `HttpSocketProofs`, `HttpTypes`: `HttpInv` adds to the types which call of the stream each stage of
  `perform` makes, that no write is empty and that the buffer and the wire are sequences of bytes of responses. The lemmas
  `PutFacts` and `ParseFacts` say what the parser takes from any sequence of bytes; they rest on the least
  element of a set of naturals, which well-foundedness gives.
- `HttpSocketProofs`, `AlwaysRoom`: `RoomToRead` is not inductive; `BufferInv` adds that a read in progress
  has room for all that it may return, and that what is left in the buffer between reads is
  shorter than `kHeaderLimit` unless the body is chunked, because the parser keeps only an incomplete
  header and refuses one that long. A read is of size zero only one byte below the end of the
  buffer, where nothing but a chunked body gets.
- `HttpSocketProofs`, `WholeResponses`: `WholeInv` adds that a parser in a body has consumed the header
  that announced it, however the reads cut the bytes.
- `HttpSocketProofs`, `OwnResponses`: `OwnInv` follows a connection on which no call has failed and left
  the stream open. Between two calls of `perform` it is silent: nothing under way, nothing heard,
  nothing to answer. While a request is sent the server has heard what was sent and no more;
  while a response is received all bytes answer this request, and the byte that ends the response
  is the last. On a stream that is no longer open `perform` cannot succeed.
- `StaticPool`, `NoOverlap`: `count_` counts the blocks in use and `p_` is above them all (`PoolInv`). It is
  the one result without a run.

Every safety invariant and every refinement that a passing run checks is proved. Only
model-checked: all liveness (`SleeperServed`, `PoolRefills`, `RequestServed`, `CallReturns`,
`EndpointsCatchUp`, both `DestructorReturns`, `CallsEnd`, `SslJobsEnd`, `SslCloseEnds`, `PerformEnds`), since
fairness is out of TLAPS's reach. The inductive invariants were checked with TLC, on the
constants of the runs, before they were proved.

## 6. Plan

The composition of pool and connector, where the adders are the callers; today each stands for
the other by what it promises (`Connect`, `ConnectFail`).

Modules to be proved about contain no recursive operators.

## 7. What is not modelled

- Moving timed objects (section 4): the library passes sessions on as `std::unique_ptr`.
- Socket options, endpoint getters and constructors that only forward: they keep no state of
  their own.
- The SSL engine, the HTTP parser, asio and the kernel: they are external, and modelled by what the
  code sees of them.
- The wording of messages and errors, printing, tests and examples.
- The contents of buffers, abstracted to counts (TCP, UDP), positions (SSL) or the part of a
  response (HTTP); sessions and addresses are names.
