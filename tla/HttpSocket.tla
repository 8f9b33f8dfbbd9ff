----------------------------- MODULE HttpSocket -----------------------------
(***************************************************************************)
(* http::base_socket<Stream> (stream/http_socket): perform() sends one     *)
(* request with write_some() and receives its response with read_some()    *)
(* until one deadline.  It knows the stream underneath only by its calls:  *)
(* they are the ones of TimedStream, which the TCP and the SSL stream      *)
(* implement.                                                              *)
(*                                                                         *)
(* A byte of a response carries the number of the request it answers.  The *)
(* server answers every request it has heard, in order, and may hang up at *)
(* any time.                                                               *)
(***************************************************************************)
EXTENDS TimedStream, Sequences, FiniteSets, FiniteSetsExt

CONSTANTS
    MaxRequests,    \* bound: calls of perform()
    RequestSize,    \* bytes of a request
    HeaderLimit,    \* kHeaderLimit
    BodyLimit,      \* kBodyLimit, by which the buffer is larger than a header
    ReadLimit,      \* the most that one read_some() asks for
    MaxWire         \* bound: bytes of responses under way

ASSUME HttpAssumption ==
    /\ MaxRequests \in Nat \ {0} /\ RequestSize \in Nat \ {0}
    /\ HeaderLimit \in Nat \ {0} /\ BodyLimit \in Nat \ {0}
    /\ ReadLimit \in Nat \ {0} /\ MaxWire \in Nat \ {0}
    /\ MaxTimeout \in Nat /\ MaxBytes \in Nat
    /\ RequestSize <= MaxBytes /\ ReadLimit <= MaxBytes

VARIABLES
    stage,      \* "idle", "connect", or the loop of perform(): "send", "receive"
    rest,       \* what is left until the deadline of perform()
    hec,        \* its error_code
    unsent,     \* bytes of the request that the serializer still holds
    buffer,     \* buffer_
    parser,     \* "header", "length", "chunked" or "close" (how the body ends), "done"
    req,        \* number of the current or last request
    taken,      \* history: the bytes that the parser has consumed for it
    clean,      \* history: every perform() that failed left the stream closed
    heard,      \* bytes of a request that the server has, short of a whole one
    asked,      \* requests that it has to answer
    answer,     \* the part of the answer it is in
    wire,       \* bytes of responses under way
    gone        \* the server has hung up

clientVars == <<stage, rest, hec, unsent, buffer, parser, req, taken, clean>>
serverVars == <<heard, asked, answer, wire, gone>>
httpVars == <<clientVars, serverVars>>
allVars == <<streamVars, httpVars>>

BufferMax == BodyLimit + HeaderLimit

\* The last byte of a header says whether and how a body follows.  A "line" is a byte
\* of a header, of the header or extension of a chunk or of a trailer, short of the last
\* one; the last byte of a chunk's header is one of the body.
HeaderEnds == {"bare", "length", "chunked", "close"}
Parts == HeaderEnds \cup {"line", "body", "end"}

HttpInit ==
    /\ StreamInit /\ kind = "tcp"
    /\ stage = "idle" /\ rest = 0 /\ hec = "ok" /\ unsent = 0
    /\ buffer = <<>> /\ parser = "header"
    /\ req = 0 /\ taken = {} /\ clean = TRUE
    /\ heard = 0 /\ asked = <<>> /\ answer = "line" /\ wire = <<>> /\ gone = FALSE

(***************************************************************************)
(* The constructor hands its arguments to the stream's                     *)
(***************************************************************************)
HttpConnect(d) ==
    /\ stage = "idle" /\ sock = "none"
    /\ Begin("connect", 0, d)
    /\ stage' = "connect" /\ rest' = d
    /\ UNCHANGED <<hec, unsent, buffer, parser, req, taken, clean, serverVars>>

HttpConnected ==
    /\ stage = "connect" /\ Return
    /\ stage' = "idle" /\ rest' = 0
    /\ UNCHANGED <<hec, unsent, buffer, parser, req, taken, clean, serverVars>>

(***************************************************************************)
(* perform() and send_request()                                            *)
(***************************************************************************)
\* d is what is left until the deadline.  The overloads with a timeout add it to the
\* time of the call, where kInfiniteDuration overflows into the distant past (d = 0).
Perform(d) ==
    /\ stage = "idle" /\ sock \notin {"none", "dead"} /\ req < MaxRequests
    /\ stage' = "send" /\ rest' = d
    /\ req' = req + 1 /\ unsent' = RequestSize
    /\ taken' = {}
    /\ UNCHANGED <<hec, buffer, parser, clean, serverVars, streamVars>>

SendMore ==
    /\ stage = "send"
    /\ Begin("write_some", unsent, rest)
    /\ UNCHANGED httpVars

\* perform() returns; s is the state it leaves the stream in.
Leave(e, s) ==
    /\ stage' = "idle" /\ hec' = e /\ rest' = 0
    /\ clean' = (clean /\ (e = "ok" \/ s = "closed"))

\* n more bytes reach the server.
Hear(n) ==
    /\ heard' = (heard + n) % RequestSize
    /\ asked' = IF heard + n >= RequestSize /\ ~ gone THEN Append(asked, req) ELSE asked

\* Mutant: the serializer does not consume what was written.
Wrote_NotConsumed ==
    /\ stage = "send" /\ call = "write_some"
    /\ Return
    /\ Hear(done')
    /\ unsent' = IF done' = want THEN 0 ELSE unsent
    /\ IF ec' # "ok"
         THEN Leave(ec', sock') /\ UNCHANGED <<buffer, parser>>
         ELSE IF unsent' > 0 THEN UNCHANGED <<stage, rest, hec, buffer, parser, clean>>
         ELSE /\ stage' = "receive" /\ buffer' = <<>> /\ parser' = "header"
              /\ UNCHANGED <<rest, hec, clean>>
    /\ UNCHANGED <<req, taken, answer, wire, gone>>

\* What was written is consumed before the error is looked at.  After the last byte
\* recv_response() empties the buffer and has a new parser.
Wrote ==
    /\ stage = "send" /\ call = "write_some"
    /\ Return
    /\ Hear(done')
    /\ unsent' = unsent - done'
    /\ IF ec' # "ok"
         THEN Leave(ec', sock') /\ UNCHANGED <<buffer, parser>>
         ELSE IF unsent' > 0 THEN UNCHANGED <<stage, rest, hec, buffer, parser, clean>>
         ELSE /\ stage' = "receive" /\ buffer' = <<>> /\ parser' = "header"
              /\ UNCHANGED <<rest, hec, clean>>
    /\ UNCHANGED <<req, taken, answer, wire, gone>>

(***************************************************************************)
(* recv_response()                                                         *)
(***************************************************************************)
\* Mutant: a read asks for all that is left of the buffer.
ReadSize_Rest(b) == IF Len(b) >= BufferMax THEN ReadLimit ELSE BufferMax - Len(b)

\* The difference of sizes wraps around when the buffer is full.
ReadSize(b) ==
    IF Len(b) >= BufferMax THEN ReadLimit ELSE Min({ReadLimit, BufferMax - Len(b) - 1})

\* prepare() throws length_error.
Overflows(b) == Len(b) + ReadSize(b) > BufferMax

\* Mutant: the deadline is taken for a timeout of each read.
ReceiveMore_FreshTimeout ==
    /\ stage = "receive" /\ call = "none"
    /\ Begin("read_some", ReadSize(buffer), MaxTimeout)
    /\ UNCHANGED httpVars

ReceiveMore ==
    /\ stage = "receive" /\ call = "none"
    /\ IF Overflows(buffer)
         THEN /\ Leave("buffer_overflow", sock)
              /\ UNCHANGED <<unsent, buffer, parser, req, taken, serverVars, streamVars>>
         ELSE /\ Begin("read_some", ReadSize(buffer), rest)
              /\ UNCHANGED httpVars

\* What put() makes of the bytes b: how many it consumes, and its state then.  A
\* header is consumed whole, a body as it comes; but what has come of the header of a
\* chunk or of the trailer stays in the buffer until the rest of it comes.
Put(b) ==
    LET Ending(i, ps) == {j \in (i + 1)..Len(b) : b[j].part \in ps}
        First(is) == IF is = {} THEN 0 ELSE Min(is)
        h == IF parser = "header" THEN First(Ending(0, HeaderEnds)) ELSE 0
        mode == IF parser = "header" /\ h > 0 THEN b[h].part ELSE parser
        ended == mode \in {"length", "chunked"} /\ Ending(h, {"end"}) # {}
        Lines == {i \in h..Len(b) : \A j \in (i + 1)..Len(b) : b[j].part = "line"}
    IN CASE mode = "header"               -> [size |-> 0, parser |-> mode]
         [] mode = "bare"                 -> [size |-> h, parser |-> "done"]
         [] ended                         -> [size |-> First(Ending(h, {"end"})), parser |-> "done"]
         [] mode = "chunked" /\ ~ ended   -> [size |-> Min(Lines), parser |-> mode]
         [] OTHER                         -> [size |-> Len(b), parser |-> mode]

\* Mutant: buffer.consume() is left out.
Parse_NoConsume(b) ==
    LET p == Put(b)
        full == p.parser = "header" /\ Len(b) >= HeaderLimit
    IN /\ parser' = p.parser
       /\ buffer' = b
       /\ taken' = taken \cup {b[i] : i \in 1..p.size}
       /\ \/ Leave("bad_response", sock)
          \/ ~ full /\ p.parser = "done" /\ Leave("ok", sock)
          \/ ~ full /\ p.parser # "done" /\ UNCHANGED <<stage, rest, hec, clean>>

\* The parser refuses a header that is too long, and may find fault with any bytes:
\* they are malformed, or the body is too long.
Parse(b) ==
    LET p == Put(b)
        full == p.parser = "header" /\ Len(b) >= HeaderLimit
    IN /\ parser' = p.parser
       /\ buffer' = SubSeq(b, p.size + 1, Len(b))
       /\ taken' = taken \cup {b[i] : i \in 1..p.size}
       /\ \/ Leave("bad_response", sock)
          \/ ~ full /\ p.parser = "done" /\ Leave("ok", sock)
          \/ ~ full /\ p.parser # "done" /\ UNCHANGED <<stage, rest, hec, clean>>

\* got_some()
GotSome == parser # "header" \/ buffer # <<>>

\* Mutant: the error of put_eof() is not looked at.
ParseEof_Ignored ==
    /\ Leave(IF GotSome THEN "ok" ELSE "end_of_stream", sock)
    /\ UNCHANGED <<parser, buffer, taken>>

\* put_eof() accepts the end of the stream as the end of a body that has no length.
ParseEof ==
    /\ Leave(IF parser = "close" THEN "ok"
             ELSE IF GotSome THEN "partial_message" ELSE "end_of_stream", sock)
    /\ parser' = IF parser = "close" THEN "done" ELSE parser
    /\ UNCHANGED <<buffer, taken>>

\* read_some() returns; what it has read is lost if it also reports an error.
Read ==
    /\ stage = "receive" /\ call = "read_some"
    /\ Return
    /\ done' <= Len(wire) /\ (ec' = "eof" => gone /\ wire = <<>> /\ done' = 0)
    /\ wire' = SubSeq(wire, done' + 1, Len(wire))
    /\ CASE ec' = "ok"  -> Parse(buffer \o SubSeq(wire, 1, done'))
         [] ec' = "eof" -> ParseEof
         [] OTHER       -> Leave(ec', sock') /\ UNCHANGED <<parser, buffer, taken>>
    /\ UNCHANGED <<unsent, req, heard, asked, answer, gone>>

(***************************************************************************)
(* The stream, the clock and the server                                    *)
(***************************************************************************)
\* Between calls the owner may close or destroy the stream.
HttpDispose == stage = "idle" /\ Dispose /\ UNCHANGED httpVars

HttpDead == sock = "dead" /\ UNCHANGED allVars

Deadline == Expire /\ UNCHANGED httpVars

Less(t) == IF t \in 1..MaxTimeout THEN t - 1 ELSE t

HttpTick ==
    /\ stage # "idle" /\ rest \in 1..MaxTimeout
    /\ rest' = rest - 1
    /\ left' = IF call = "none" THEN left ELSE Less(left)
    /\ UNCHANGED <<kind, sock, call, want, done, ec, expired,
                   stage, hec, unsent, buffer, parser, req, taken, clean, serverVars>>

\* The next byte of the answer to the oldest request.
Respond(p) ==
    /\ asked # <<>> /\ ~ gone /\ Len(wire) < MaxWire
    /\ p \in CASE answer = "line"    -> HeaderEnds \cup {"line"}
               [] answer = "length"  -> {"body", "end"}
               [] answer = "chunked" -> {"line", "body", "end"}
               [] answer = "close"   -> {"body"}
    /\ wire' = Append(wire, [req |-> Head(asked), part |-> p])
    /\ answer' = CASE p \in {"bare", "end"}  -> "line"
                   [] p \in {"line", "body"} -> answer
                   [] OTHER                  -> p
    /\ asked' = IF p \in {"bare", "end"} THEN Tail(asked) ELSE asked
    /\ UNCHANGED <<heard, gone, clientVars, streamVars>>

HangUp ==
    /\ sock # "none" /\ ~ gone
    /\ gone' = TRUE
    /\ UNCHANGED <<heard, asked, answer, wire, clientVars, streamVars>>

-----------------------------------------------------------------------------
HttpNext ==
    \/ \E d \in Timeouts \ {0} : HttpConnect(d)
    \/ HttpConnected
    \/ \E d \in Timeouts : Perform(d)
    \/ SendMore \/ Wrote \/ ReceiveMore \/ Read
    \/ HttpDispose \/ HttpDead \/ Deadline \/ HttpTick
    \/ \E p \in Parts : Respond(p)
    \/ HangUp

HttpSpec == HttpInit /\ [][HttpNext]_allVars

\* The thread runs and time passes; the server owes nothing, but bytes that it sends
\* for ever do not keep a deadline from being noticed: a call that begins after its
\* deadline is ended by it before it moves anything (LateCallsFail in TimedSocket).  Of
\* a read of size zero nothing is assumed: over SSL it never gets to the socket.
HttpFairSpec ==
    /\ HttpSpec
    /\ WF_allVars(SendMore \/ ReceiveMore)
    /\ WF_allVars(expired /\ (HttpConnected \/ Wrote \/ Read))
    /\ WF_allVars(HttpTick)
    /\ SF_allVars((call = "read_some" => want > 0) /\ Deadline)

-----------------------------------------------------------------------------
HttpTypeOK ==
    /\ stage \in {"idle", "connect", "send", "receive"}
    /\ rest \in Timeouts /\ left \in Timeouts
    /\ hec \in Errors \cup {"ok", "bad_response", "partial_message", "end_of_stream",
                            "buffer_overflow"}
    /\ unsent \in 0..RequestSize /\ want \in 0..MaxBytes /\ done \in 0..want
    /\ parser \in {"header", "length", "chunked", "close", "done"}
    /\ \A s \in {buffer, wire} : \A i \in DOMAIN s : s[i] \in [req : 1..MaxRequests, part : Parts]
    /\ req \in 0..MaxRequests

\* A response that perform() returns answers the request it sent and no earlier one,
\* as long as no perform() failed and left the stream open: one whose deadline has
\* passed did not, for the stream is closed and the next request is not even sent.
OwnResponse ==
    (stage = "idle" /\ hec = "ok" /\ clean) => \A b \in taken : b.req = req

\* A response cut short by the end of the stream is not passed off as a whole one.
WholeResponse ==
    (stage = "idle" /\ req > 0 /\ hec = "ok") =>
        LET ends == {b.part : b \in taken}
        IN \/ "bare" \in ends
           \/ "end" \in ends /\ {"length", "chunked"} \cap ends # {}
           \/ "close" \in ends /\ gone

\* Reads of size zero, one after the other: what has come of a line of a chunked body
\* fills the buffer.
Spins == stage = "receive" /\ parser = "chunked" /\ ReadSize(buffer) = 0

\* The size of the buffer never wraps around, so that prepare() does not throw, and
\* nothing but an endless line of a chunked body leaves no room for another read: the
\* parser refuses a header before it fills the buffer, and no other body stays in it.
RoomToRead ==
    stage = "receive" => /\ Len(buffer) < BufferMax /\ ~ Overflows(buffer)
                         /\ ReadSize(buffer) > 0 \/ Spins

\* perform() with a deadline returns, though the server is silent or sends for ever,
\* unless an endless line of a chunked body fills the buffer.
PerformEnds == (stage # "idle" /\ rest # Infinite) ~> (stage = "idle" \/ Spins)

=============================================================================
