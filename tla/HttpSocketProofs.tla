------------------------- MODULE HttpSocketProofs ---------------------------
(***************************************************************************)
(* For every limit on headers, bodies and reads, for any number of         *)
(* requests, and whatever the stream and the server do: the types, the     *)
(* room that recv_response() has for another read, and that a response     *)
(* which perform() returns is whole and answers the request it was called  *)
(* with.                                                                   *)
(***************************************************************************)
EXTENDS HttpSocket, SequenceTheorems, WellFoundedInduction, TLAPS

Byte == [req : 1..MaxRequests, part : Parts]

\* Bodies whose end is among their bytes, and all of them.
Framed == {"length", "chunked"}
Bodies == Framed \cup {"close"}

\* The types, what perform() has called the stream for at each stage, and that a
\* request has a number from when it is sent.
HttpInv ==
    /\ HttpTypeOK
    /\ kind = "tcp"
    /\ buffer \in Seq(Byte) /\ wire \in Seq(Byte) /\ asked \in Seq(1..MaxRequests)
    /\ heard \in Nat
    /\ stage = "idle" => call = "none"
    /\ stage = "connect" => call = "connect"
    /\ stage = "send" => call = "none" \/ (call = "write_some" /\ want = unsent)
    /\ stage = "send" => unsent > 0
    /\ stage = "receive" => call \in {"none", "read_some"} /\ parser # "done"
    /\ stage \in {"send", "receive"} => req > 0
    /\ (stage = "connect" \/ sock = "none") => req = 0

-----------------------------------------------------------------------------
(***************************************************************************)
(* Numbers and sequences                                                   *)
(***************************************************************************)
\* The smaller of two numbers.
LEMMA MinOfTwo ==
    ASSUME NEW m \in Nat, NEW n \in Nat
    PROVE  Min({m, n}) = IF m <= n THEN m ELSE n
  BY DEF Min

\* A set of numbers that is not empty has a least one.
LEMMA Least ==
    ASSUME NEW S \in SUBSET Nat, S # {}
    PROVE  Min(S) \in S
  <1> DEFINE R == OpToRel(<, Nat)
  <1>1. IsWellFoundedOn(R, Nat)
    BY NatLessThanWellFounded
  <1>2. R = {ss \in Nat \X Nat : ss[1] < ss[2]}
    BY DEF OpToRel
  <1> HIDE DEF R
  <1>3. PICK x \in S : \A y \in S : <<y, x>> \notin R
    BY <1>1, WFMin
  <1>4. \A y \in S : x <= y
    <2>1. \A y \in Nat, z \in Nat : y < z => <<y, z>> \in R
      BY <1>2
    <2>2. \A y \in S : ~ (y < x)
      BY <1>3, <2>1
    <2>3. QED
      BY <2>2
  <1>5. QED
    BY <1>4 DEF Min

\* What is left of n when k of it are gone.
LEMMA Rest ==
    ASSUME NEW m \in Nat, NEW n \in 0..m, NEW k \in 0..n
    PROVE  k \in Nat /\ n - k \in 0..m
  OBVIOUS

\* Counting modulo the size of a request, no further than to its end.
LEMMA Remainder ==
    ASSUME NEW m \in Nat \ {0}, NEW n \in Nat
    PROVE  n % m \in Nat /\ (n < m => n % m = n) /\ (n = m => n % m = 0)
  OBVIOUS

\* The first n elements of a sequence, and the rest of it.
LEMMA Split ==
    ASSUME NEW S, NEW s \in Seq(S), NEW n \in Nat, n <= Len(s)
    PROVE  /\ SubSeq(s, 1, n) \in Seq(S)
           /\ Len(SubSeq(s, 1, n)) = n
           /\ \A i \in 1..n : SubSeq(s, 1, n)[i] = s[i]
           /\ SubSeq(s, n + 1, Len(s)) \in Seq(S)
           /\ Len(SubSeq(s, n + 1, Len(s))) = Len(s) - n
           /\ \A i \in 1..(Len(s) - n) : SubSeq(s, n + 1, Len(s))[i] = s[n + i]
  <1>1. Len(s) \in Nat /\ \A i \in 1..Len(s) : s[i] \in S
    BY LenProperties
  <1>2. /\ SubSeq(s, 1, n) \in Seq(S)
        /\ Len(SubSeq(s, 1, n)) = n
        /\ \A i \in 1..n : SubSeq(s, 1, n)[i] = s[i]
    BY <1>1, SubSeqProperties
  <1>3. /\ SubSeq(s, n + 1, Len(s)) \in Seq(S)
        /\ Len(SubSeq(s, n + 1, Len(s))) =
             IF n + 1 <= Len(s) THEN Len(s) - (n + 1) + 1 ELSE 0
        /\ \A i \in 1..(Len(s) - (n + 1) + 1) :
             SubSeq(s, n + 1, Len(s))[i] = s[(n + 1) + i - 1]
    BY <1>1, SubSeqProperties
  <1>4. QED
    BY <1>1, <1>2, <1>3

\* All of a sequence, and nothing of it.
LEMMA Ends ==
    ASSUME NEW S, NEW s \in Seq(S)
    PROVE  SubSeq(s, 1, Len(s)) = s /\ SubSeq(s, Len(s) + 1, Len(s)) = <<>>
  OBVIOUS

-----------------------------------------------------------------------------
(***************************************************************************)
(* put()                                                                   *)
(***************************************************************************)
\* The parser consumes at most what it is given.  It is done only with the byte that
\* ends the message, and after a header it knows the kind of body from that header.
\* If it wants more, it has kept an incomplete header, what has come of a line of a
\* chunked body, or nothing.
LEMMA PutFacts ==
    ASSUME NEW b \in Seq(Byte), parser \in Bodies \cup {"header"}
    PROVE  LET p == Put(b)
               Has(q) == \E i \in 1..p.size : b[i].part = q
           IN  /\ p.size \in 0..Len(b)
               /\ p.parser \in Bodies \cup {"header", "done"}
               /\ p.parser = "header" => p.size = 0
               /\ p.parser \in {"length", "close"} => p.size = Len(b)
               /\ p.parser \in Bodies => parser = p.parser \/ Has(p.parser)
               /\ p.parser = "done" =>
                    /\ p.size > 0 /\ b[p.size].part \in {"bare", "end"}
                    /\ \/ Has("bare")
                       \/ Has("end") /\ \E k \in Framed : parser = k \/ Has(k)
  <1> DEFINE Ending(i, ps) == {j \in (i + 1)..Len(b) : b[j].part \in ps}
             First(is) == IF is = {} THEN 0 ELSE Min(is)
             h == IF parser = "header" THEN First(Ending(0, HeaderEnds)) ELSE 0
             mode == IF parser = "header" /\ h > 0 THEN b[h].part ELSE parser
             ended == mode \in {"length", "chunked"} /\ Ending(h, {"end"}) # {}
             Lines == {i \in h..Len(b) : \A j \in (i + 1)..Len(b) : b[j].part = "line"}
             e == First(Ending(h, {"end"}))
             p == Put(b)
  <1>1. p = CASE mode = "header"             -> [size |-> 0, parser |-> mode]
              [] mode = "bare"               -> [size |-> h, parser |-> "done"]
              [] ended                       -> [size |-> e, parser |-> "done"]
              [] mode = "chunked" /\ ~ ended -> [size |-> Min(Lines), parser |-> mode]
              [] OTHER                       -> [size |-> Len(b), parser |-> mode]
    BY DEF Put
  <1>2. Len(b) \in Nat
    BY LenProperties
  <1>3. \A i \in Nat : \A ps : First(Ending(i, ps)) = 0 \/ First(Ending(i, ps)) \in Ending(i, ps)
    <2> TAKE i \in Nat
    <2> TAKE ps
    <2> DEFINE S == Ending(i, ps)
    <2>1. S \in SUBSET Nat
      BY <1>2
    <2> HIDE DEF Ending
    <2> HIDE DEF S
    <2>2. S = {} \/ Min(S) \in S
      BY <2>1, Least
    <2>3. QED
      BY <2>2 DEF S
  <1>4. \/ h = 0
        \/ parser = "header" /\ h \in 1..Len(b) /\ b[h].part \in HeaderEnds
    <2> HIDE DEF Ending, First
    <2>1. h = 0 \/ (parser = "header" /\ h \in Ending(0, HeaderEnds))
      BY <1>3
    <2> HIDE DEF h
    <2>2. QED
      BY <2>1 DEF Ending
  <1> HIDE DEF h
  <1>h. h \in 0..Len(b)
    BY <1>2, <1>4
  <1>5. ended => e \in (h + 1)..Len(b) /\ b[e].part = "end"
    <2> DEFINE S == Ending(h, {"end"})
    <2>1. S \in SUBSET Nat
      BY <1>2, <1>h
    <2>2. S # {} => e = Min(S)
      OBVIOUS
    <2>3. ended => S # {}
      OBVIOUS
    <2> HIDE DEF S, e, ended
    <2>4. ended => e \in S
      BY <2>1, <2>2, <2>3, Least
    <2>5. QED
      BY <2>4 DEF S
  <1>l. Min(Lines) \in h..Len(b)
    <2>1. Lines \in SUBSET Nat /\ Lines \subseteq h..Len(b)
      BY <1>2, <1>h
    <2>2. Len(b) \in Lines
      BY <1>2, <1>h
    <2> HIDE DEF Lines
    <2>3. QED
      BY <2>1, <2>2, Least
  <1>p. parser \in {"header", "length", "chunked", "close"}
    BY DEF Bodies, Framed
  <1>6. \/ mode = parser /\ h = 0
        \/ mode = b[h].part /\ h \in 1..Len(b) /\ mode \in HeaderEnds
    BY <1>4
  <1>7. mode \in {"header", "length", "chunked", "close", "bare"}
    BY <1>6, <1>p DEF HeaderEnds
  <1>d. ended => mode \in {"length", "chunked"}
    OBVIOUS
  <1> HIDE DEF mode, p, ended, e, Lines
  <1>8. CASE mode = "bare"
    <2>1. p = [size |-> h, parser |-> "done"]
      BY <1>1, <1>8, <1>d
    <2>2. h \in 1..Len(b) /\ b[h].part = "bare"
      BY <1>6, <1>8, <1>p
    <2>3. p.size = h /\ p.parser = "done"
      BY <2>1
    <2>4. QED
      BY <1>2, <2>2, <2>3 DEF p, Bodies, Framed
  <1>9. CASE ended
    <2>1. p = [size |-> e, parser |-> "done"]
      BY <1>1, <1>9, <1>d
    <2>2. e \in 1..Len(b) /\ b[e].part = "end" /\ h \in 0..e
      BY <1>2, <1>5, <1>h, <1>9
    <2>3. parser = mode \/ \E i \in 1..e : b[i].part = mode
      BY <1>2, <1>6, <2>2
    <2>4. p.size = e /\ p.parser = "done" /\ mode \in Framed
      BY <1>9, <1>d, <2>1 DEF Framed
    <2>5. \E i \in 1..p.size : b[i].part = "end"
      BY <1>2, <2>2, <2>4
    <2>6. \E k \in Framed : parser = k \/ \E i \in 1..p.size : b[i].part = k
      BY <2>3, <2>4
    <2>7. p.size \in 0..Len(b) /\ p.size > 0 /\ b[p.size].part = "end"
      BY <1>2, <2>2, <2>4
    <2>8. QED
      BY <2>4, <2>5, <2>6, <2>7 DEF p, Bodies, Framed
  <1>10. CASE mode = "header"
    <2>1. p = [size |-> 0, parser |-> "header"]
      BY <1>1, <1>10, <1>d
    <2>2. QED
      BY <1>2, <2>1 DEF p, Bodies, Framed
  <1>11. CASE mode = "chunked" /\ ~ ended
    <2> DEFINE l == Min(Lines)
    <2>1. p = [size |-> l, parser |-> mode]
      BY <1>1, <1>11
    <2>2. l \in h..Len(b)
      BY <1>l
    <2> HIDE DEF l
    <2>3. parser = mode \/ \E i \in 1..l : b[i].part = mode
      BY <1>2, <1>6, <1>h, <2>2
    <2>4. l \in 0..Len(b)
      BY <1>2, <1>h, <2>2
    <2>5. QED
      BY <1>2, <1>11, <2>1, <2>3, <2>4 DEF p, Bodies, Framed
  <1>12. CASE mode \in {"length", "close"} /\ ~ ended
    <2>1. p = [size |-> Len(b), parser |-> mode]
      BY <1>1, <1>12
    <2>2. parser = mode \/ \E i \in 1..Len(b) : b[i].part = mode
      BY <1>2, <1>6
    <2>3. QED
      BY <1>2, <1>12, <2>1, <2>2 DEF p, Bodies, Framed
  <1>13. QED
    BY <1>7, <1>8, <1>9, <1>10, <1>11, <1>12

\* What a call of put() does: it leaves the loop, or goes on with a rest of the bytes,
\* which is an incomplete header that is shorter than kHeaderLimit, or empty unless
\* the body is a chunked one.
LEMMA ParseFacts ==
    ASSUME NEW b \in Seq(Byte), parser \in Bodies \cup {"header"}, Parse(b)
    PROVE  /\ buffer' \in Seq(Byte) /\ Len(buffer') <= Len(b)
           /\ \E k \in 0..Len(b) : buffer' = SubSeq(b, k + 1, Len(b))
           /\ parser' \in Bodies \cup {"header", "done"}
           /\ \/ stage' = "idle" /\ rest' = 0 /\ hec' \in {"ok", "bad_response"}
                 /\ (hec' = "ok" => parser' = "done")
                 /\ clean' = (clean /\ (hec' = "ok" \/ sock = "closed"))
              \/ /\ UNCHANGED <<stage, rest, hec, clean>> /\ parser' # "done"
                 /\ parser' # "chunked" =>
                      buffer' = <<>> \/ (buffer' = b /\ Len(b) < HeaderLimit)
  <1> DEFINE p == Put(b)
  <1>1. /\ p.size \in 0..Len(b) /\ p.parser \in Bodies \cup {"header", "done"}
        /\ p.parser = "header" => p.size = 0
        /\ p.parser \in {"length", "close"} => p.size = Len(b)
    BY PutFacts
  <1>2. /\ parser' = p.parser /\ buffer' = SubSeq(b, p.size + 1, Len(b))
        /\ \/ Leave("bad_response", sock)
           \/ p.parser = "done" /\ Leave("ok", sock)
           \/ /\ UNCHANGED <<stage, rest, hec, clean>> /\ p.parser # "done"
              /\ ~ (p.parser = "header" /\ Len(b) >= HeaderLimit)
    BY DEF Parse
  <1> HIDE DEF p
  <1>3. Len(b) \in Nat /\ HeaderLimit \in Nat
    BY LenProperties, HttpAssumption
  <1>4. buffer' \in Seq(Byte) /\ Len(buffer') = Len(b) - p.size
    BY <1>1, <1>2, <1>3, Split
  <1>5. p.parser = "header" => buffer' = b
    BY <1>1, <1>2, Ends
  <1>6. p.parser \in {"length", "close"} => buffer' = <<>>
    BY <1>1, <1>2, Ends
  <1>7. Len(buffer') <= Len(b) /\ \E k \in 0..Len(b) : buffer' = SubSeq(b, k + 1, Len(b))
    <2>1. PICK k \in 0..Len(b) : k = p.size
      BY <1>1
    <2>2. Len(b) - k <= Len(b)
      BY <1>3
    <2>3. QED
      BY <1>2, <1>4, <2>1, <2>2
  <1>8. p.parser \in {"header", "done", "length", "close", "chunked"}
    BY <1>1 DEF Bodies, Framed
  <1>9. parser' # "chunked" /\ parser' # "done" =>
          buffer' = <<>> \/ (buffer' = b /\ p.parser = "header")
    BY <1>2, <1>5, <1>6, <1>8
  <1>10. CASE \/ Leave("bad_response", sock)
              \/ p.parser = "done" /\ Leave("ok", sock)
    BY <1>1, <1>2, <1>4, <1>7, <1>10 DEF Leave
  <1>11. CASE /\ UNCHANGED <<stage, rest, hec, clean>> /\ p.parser # "done"
              /\ ~ (p.parser = "header" /\ Len(b) >= HeaderLimit)
    <2>1. p.parser = "header" => Len(b) < HeaderLimit
      BY <1>3, <1>11
    <2>2. QED
      BY <1>1, <1>2, <1>4, <1>7, <1>9, <1>11, <2>1
  <1>12. QED
    BY <1>2, <1>10, <1>11

-----------------------------------------------------------------------------
(***************************************************************************)
(* The types                                                               *)
(***************************************************************************)
\* A read asks for something, and for no more than the limit, when there is room.
LEMMA ReadSizes ==
    ASSUME NEW b \in Seq(Byte), ~ Overflows(b)
    PROVE  ReadSize(b) \in 0..ReadLimit
  <1>1. /\ Len(b) \in Nat /\ ReadLimit \in Nat /\ BufferMax \in Nat
    BY LenProperties, HttpAssumption DEF BufferMax
  <1>2. CASE Len(b) >= BufferMax
    BY <1>1, <1>2 DEF ReadSize
  <1>3. CASE Len(b) < BufferMax
    <2> DEFINE room == BufferMax - Len(b) - 1
    <2>1. room \in Nat /\ ReadSize(b) = Min({ReadLimit, room})
      BY <1>1, <1>3 DEF ReadSize
    <2> HIDE DEF room
    <2>2. QED
      BY <1>1, <2>1, MinOfTwo
  <1>4. QED
    BY <1>1, <1>2, <1>3

\* read_some() returns: the bytes that were read leave the wire, and put() is called
\* with them behind what is in the buffer.
LEMMA ReadFacts ==
    ASSUME HttpInv, Read
    PROVE  LET b == buffer \o SubSeq(wire, 1, done')
           IN  /\ done' \in 0..want /\ done' <= Len(wire) /\ b \in Seq(Byte)
               /\ wire' = SubSeq(wire, done' + 1, Len(wire)) /\ wire' \in Seq(Byte)
               /\ parser \in Bodies \cup {"header"}
               /\ ec' \in Errors \cup {"ok"}
               /\ call' = "none" /\ sock' = sock
               /\ UNCHANGED <<kind, want, left, unsent, req, heard, asked, answer, gone>>
               /\ \/ ec' = "ok" /\ Parse(b)
                  \/ ec' = "eof" /\ gone /\ wire = <<>> /\ ParseEof
                  \/ /\ ec' \notin {"ok", "eof"} /\ Leave(ec', sock)
                     /\ UNCHANGED <<parser, buffer, taken>>
  <1> DEFINE b == buffer \o SubSeq(wire, 1, done')
  <1>1. done' \in 0..want /\ done' \in Nat
    BY DEF Read, Return, HttpInv, HttpTypeOK
  <1>2. done' <= Len(wire) /\ wire' = SubSeq(wire, done' + 1, Len(wire))
    BY DEF Read
  <1>3. SubSeq(wire, 1, done') \in Seq(Byte) /\ wire' \in Seq(Byte)
    BY <1>1, <1>2, Split DEF HttpInv
  <1>4. b \in Seq(Byte)
    BY <1>3, ConcatProperties DEF HttpInv
  <1>5. parser \in Bodies \cup {"header"}
    BY DEF Read, HttpInv, HttpTypeOK, Bodies, Framed
  <1> HIDE DEF b
  <1>6. /\ call' = "none" /\ sock' = sock
        /\ ec' \in Errors \cup {"ok"}
        /\ UNCHANGED <<kind, want, left, unsent, req, heard, asked, answer, gone>>
    BY DEF Read, Return, Errors
  <1>7. \/ ec' = "ok" /\ Parse(b)
        \/ ec' = "eof" /\ gone /\ wire = <<>> /\ ParseEof
        \/ /\ ec' \notin {"ok", "eof"} /\ Leave(ec', sock)
           /\ UNCHANGED <<parser, buffer, taken>>
    <2>1. CASE ec' = "ok"
      BY <2>1 DEF Read, b
    <2>2. CASE ec' = "eof"
      BY <2>2 DEF Read
    <2>3. CASE ec' \notin {"ok", "eof"}
      BY <1>6, <2>3 DEF Read
    <2>4. QED
      BY <2>1, <2>2, <2>3
  <1>8. QED
    BY <1>1, <1>2, <1>3, <1>4, <1>5, <1>6, <1>7 DEF b

\* The bytes of the buffer and of the wire have the type that HttpTypeOK asks for.
LEMMA Bytes ==
    ASSUME NEW s \in Seq(Byte)
    PROVE  \A i \in DOMAIN s : s[i] \in [req : 1..MaxRequests, part : Parts]
  BY ElementOfSeq, LenProperties DEF Byte

\* Every step keeps the types.
LEMMA HttpStep ==
    ASSUME HttpInv, [HttpNext]_allVars
    PROVE  HttpInv'
  <1> USE DEF HttpInv, HttpTypeOK, Timeouts, Infinite
  <1>1. ASSUME NEW d \in Timeouts, HttpConnect(d)
        PROVE  HttpInv'
    BY <1>1, HttpAssumption DEF HttpConnect, Begin, serverVars
  <1>2. CASE HttpConnected
    BY <1>2, HttpAssumption DEF HttpConnected, Return, serverVars
  <1>3. ASSUME NEW d \in Timeouts, Perform(d)
        PROVE  HttpInv'
    BY <1>3, HttpAssumption DEF Perform, serverVars, streamVars
  <1>4. CASE SendMore
    BY <1>4, HttpAssumption DEF SendMore, Begin, httpVars, clientVars, serverVars
  <1>5. CASE Wrote
    <2>1. /\ stage = "send" /\ call = "write_some" /\ want = unsent /\ call' = "none"
          /\ done' \in 0..unsent /\ unsent' = unsent - done'
          /\ ec' \in Errors \cup {"ok"}
          /\ UNCHANGED <<kind, sock, want, left, req, wire, answer, gone>>
      BY <1>5 DEF Wrote, Return, Errors
    <2> DEFINE Numbers == 1..MaxRequests
    <2>t. /\ unsent \in 0..RequestSize /\ RequestSize \in Nat \ {0}
          /\ heard \in Nat /\ req \in Numbers /\ asked \in Seq(Numbers)
      <3>1. unsent \in 0..RequestSize /\ heard \in Nat
        OBVIOUS
      <3>2. asked \in Seq(Numbers) /\ req \in 0..MaxRequests /\ req > 0
        BY <2>1
      <3>3. QED
        BY <3>1, <3>2, HttpAssumption
    <2> HIDE DEF HttpInv, HttpTypeOK, Numbers
    <2>n. done' \in Nat /\ unsent' \in 0..RequestSize
      BY <2>1, <2>t, Rest
    <2>2. asked' \in Seq(Numbers)
      <3>1. asked' = asked \/ asked' = Append(asked, req)
        BY <1>5 DEF Wrote, Hear
      <3>2. QED
        BY <2>t, <3>1, AppendProperties
    <2>3. heard' \in Nat
      <3>1. PICK k \in Nat : k = done'
        BY <2>n
      <3>2. heard' = (heard + k) % RequestSize
        BY <1>5, <3>1 DEF Wrote, Hear
      <3>3. QED
        BY <2>t, <3>2, HttpAssumption
    <2>4. \/ Leave(ec', sock) /\ UNCHANGED <<buffer, parser>>
          \/ UNCHANGED <<stage, rest, hec, buffer, parser>>
          \/ /\ stage' = "receive" /\ buffer' = <<>> /\ parser' = "header"
             /\ UNCHANGED <<rest, hec>>
      BY <1>5, <2>1 DEF Wrote
    <2>5. buffer' \in Seq(Byte)
      BY <2>4, EmptySeq DEF HttpInv
    <2>6. HttpTypeOK'
      <3>1. /\ unsent' \in 0..RequestSize /\ want' \in 0..MaxBytes /\ done' \in 0..want'
            /\ left' \in Timeouts /\ req' \in 0..MaxRequests
        BY <2>1, <2>n DEF HttpInv, HttpTypeOK
      <3>2. \A s \in {buffer', wire'} : \A i \in DOMAIN s :
               s[i] \in [req : 1..MaxRequests, part : Parts]
        BY <2>1, <2>5, Bytes DEF HttpInv
      <3>3. /\ stage' \in {"idle", "send", "receive"} /\ rest' \in Timeouts
            /\ parser' \in Bodies \cup {"header", "done"}
            /\ hec' = hec \/ hec' = ec'
        BY <2>1, <2>4, HttpAssumption DEF Leave, HttpInv, HttpTypeOK, Bodies, Framed
      <3>4. QED
        BY <2>1, <3>1, <3>2, <3>3 DEF HttpInv, HttpTypeOK, Bodies, Framed
    <2>u. stage' = "send" => unsent' > 0
      BY <1>5, <2>1 DEF Wrote, Leave
    <2>7. QED
      BY <2>1, <2>2, <2>3, <2>4, <2>5, <2>6, <2>u DEF Leave, HttpInv, Numbers
  <1>6. CASE ReceiveMore
    <2>1. CASE Overflows(buffer)
      <3>1. /\ stage' = "idle" /\ rest' = 0 /\ hec' = "buffer_overflow"
            /\ stage = "receive" /\ call = "none"
            /\ UNCHANGED <<kind, sock, call, want, done, ec, left, unsent, buffer, parser,
                           req, heard, asked, wire>>
        BY <1>6, <2>1 DEF ReceiveMore, Leave, serverVars, streamVars
      <3>2. QED
        BY <3>1, HttpAssumption
    <2>2. CASE ~ Overflows(buffer)
      <3>1. ReadSize(buffer) \in 0..MaxBytes
        BY <2>2, ReadSizes, HttpAssumption
      <3>2. QED
        BY <1>6, <2>2, <3>1 DEF ReceiveMore, Begin, httpVars, clientVars, serverVars
    <2>3. QED
      BY <2>1, <2>2
  <1>7. CASE Read
    <2> DEFINE b == buffer \o SubSeq(wire, 1, done')
    <2>1. /\ done' \in 0..want /\ wire' \in Seq(Byte) /\ b \in Seq(Byte)
          /\ parser \in Bodies \cup {"header"}
          /\ ec' \in Errors \cup {"ok"}
          /\ call' = "none" /\ sock' = sock
          /\ UNCHANGED <<kind, want, left, unsent, req, heard, asked>>
          /\ \/ Parse(b)
             \/ ParseEof
             \/ Leave(ec', sock) /\ UNCHANGED <<parser, buffer, taken>>
      BY <1>7, ReadFacts
    <2> HIDE DEF b
    <2>2. stage = "receive"
      BY <1>7 DEF Read
    <2>3. /\ buffer' \in Seq(Byte) /\ parser' \in Bodies \cup {"header", "done"}
          /\ rest' \in {0, rest}
          /\ \/ stage' = "idle"
             \/ UNCHANGED stage /\ parser' # "done"
          /\ hec' \in Errors \cup {hec, "ok", "bad_response", "end_of_stream",
                                   "partial_message"}
      <3>1. CASE Parse(b)
        BY <2>1, <3>1, ParseFacts
      <3>2. CASE ParseEof \/ (Leave(ec', sock) /\ UNCHANGED <<parser, buffer, taken>>)
        BY <2>1, <3>2 DEF ParseEof, Leave
      <3>3. QED
        BY <2>1, <3>1, <3>2
    <2>4. QED
      BY <2>1, <2>2, <2>3, Bytes, HttpAssumption DEF Bodies, Framed
  <1>8. CASE HttpDispose \/ HttpDead \/ Deadline \/ UNCHANGED allVars
    BY <1>8 DEF HttpDispose, Dispose, HttpDead, Deadline, Expire,
       allVars, streamVars, httpVars, clientVars, serverVars
  <1>9. CASE HttpTick
    <2>1. rest' \in Timeouts /\ left' \in Timeouts
      BY <1>9, HttpAssumption DEF HttpTick, Less
    <2>2. UNCHANGED <<kind, sock, call, want, done, ec, stage, hec, unsent, buffer,
                      parser, req, heard, asked, wire>>
      BY <1>9 DEF HttpTick, serverVars
    <2>3. QED
      BY <2>1, <2>2
  <1>10. ASSUME NEW q \in Parts, Respond(q)
         PROVE  HttpInv'
    <2>1. /\ asked # <<>> /\ wire' = Append(wire, [req |-> Head(asked), part |-> q])
          /\ asked' = Tail(asked) \/ asked' = asked
          /\ UNCHANGED <<heard, clientVars, streamVars>>
      BY <1>10 DEF Respond
    <2>2. Head(asked) \in 1..MaxRequests /\ Tail(asked) \in Seq(1..MaxRequests)
      BY <2>1, HeadTailProperties
    <2>3. [req |-> Head(asked), part |-> q] \in Byte
      BY <2>2 DEF Byte
    <2>4. wire' \in Seq(Byte)
      BY <2>1, <2>3, AppendProperties
    <2>5. QED
      <3>1. /\ UNCHANGED <<kind, sock, call, want, done, left, stage, rest, hec, unsent,
                           buffer, parser, req, heard>>
            /\ asked' \in Seq(1..MaxRequests)
        BY <2>1, <2>2 DEF clientVars, streamVars
      <3>2. \A i \in DOMAIN wire' : wire'[i] \in [req : 1..MaxRequests, part : Parts]
        BY <2>4, Bytes
      <3>3. QED
        BY <2>4, <3>1, <3>2
  <1>11. CASE HangUp
    BY <1>11 DEF HangUp, clientVars, streamVars
  <1>12. QED
    BY <1>1, <1>2, <1>3, <1>4, <1>5, <1>6, <1>7, <1>8, <1>9, <1>10, <1>11 DEF HttpNext

\* The initial state.
LEMMA HttpStart ==
    ASSUME HttpInit
    PROVE  HttpInv
  BY EmptySeq, HttpAssumption
     DEF HttpInit, StreamInit, HttpInv, HttpTypeOK, Timeouts, Infinite

\* HttpInv is an invariant.
LEMMA HttpInvariant == HttpSpec => []HttpInv
  BY HttpStart, HttpStep, PTL DEF HttpSpec

\* Whatever the stream and the server do, the variables have their types; above all no
\* more is consumed than the serializer holds, and each byte answers some request.
THEOREM HttpTypes == HttpSpec => []HttpTypeOK
  <1>1. HttpInv => HttpTypeOK
    BY DEF HttpInv
  <1>2. QED
    BY <1>1, HttpInvariant, PTL

-----------------------------------------------------------------------------
(***************************************************************************)
(* Room in the buffer                                                      *)
(***************************************************************************)
\* RoomToRead is not inductive: a read in progress has room for all that it may
\* return, and of a body that is not chunked nothing stays in the buffer, of a header
\* only what is shorter than kHeaderLimit.
BufferInv ==
    stage = "receive" =>
        /\ Len(buffer) < BufferMax
        /\ call = "read_some" => Len(buffer) + want < BufferMax
        /\ parser # "chunked" => Len(buffer) < HeaderLimit

\* Numbers of bytes.
LEMMA BufferSizes ==
    ASSUME HttpInv
    PROVE  /\ Len(buffer) \in Nat /\ ReadLimit \in Nat \ {0} /\ BufferMax \in Nat
           /\ HeaderLimit \in Nat \ {0} /\ HeaderLimit < BufferMax
  BY LenProperties, HttpAssumption DEF HttpInv, BufferMax

\* A read leaves room for one byte at least.
LEMMA RoomLeft ==
    ASSUME HttpInv, Len(buffer) < BufferMax
    PROVE  /\ ReadSize(buffer) \in Nat /\ Len(buffer) + ReadSize(buffer) < BufferMax
           /\ ReadSize(buffer) = 0 => Len(buffer) = BufferMax - 1
  <1> DEFINE room == BufferMax - Len(buffer) - 1
  <1>1. room \in Nat /\ Len(buffer) + room < BufferMax
        /\ (room = 0 => Len(buffer) = BufferMax - 1)
    BY BufferSizes
  <1>2. ReadSize(buffer) = Min({ReadLimit, room})
    BY BufferSizes DEF ReadSize
  <1> HIDE DEF room
  <1>3. ReadSize(buffer) \in 0..room /\ (ReadSize(buffer) = 0 => room = 0)
    BY <1>1, <1>2, BufferSizes, MinOfTwo
  <1>4. QED
    BY <1>1, <1>3, BufferSizes

\* Every step keeps BufferInv.
LEMMA BufferStep ==
    ASSUME HttpInv, BufferInv, [HttpNext]_allVars
    PROVE  BufferInv'
  <1>1. CASE Read
    <2> DEFINE b == buffer \o SubSeq(wire, 1, done')
    <2>1. /\ b \in Seq(Byte) /\ parser \in Bodies \cup {"header"}
          /\ done' \in 0..want /\ done' <= Len(wire) /\ call' = "none"
          /\ \/ Parse(b)
             \/ ParseEof
             \/ Leave(ec', sock)
      BY <1>1, ReadFacts
    <2>2. Len(b) < BufferMax
      <3>1. PICK n \in Nat : n = done'
        BY <2>1 DEF HttpInv, HttpTypeOK
      <3>2. wire \in Seq(Byte) /\ buffer \in Seq(Byte) /\ n <= Len(wire)
        BY <2>1, <3>1 DEF HttpInv
      <3>3. SubSeq(wire, 1, n) \in Seq(Byte) /\ Len(SubSeq(wire, 1, n)) = n
        BY <3>2, Split
      <3>4. Len(buffer \o SubSeq(wire, 1, n)) = Len(buffer) + n
        <4> DEFINE w == SubSeq(wire, 1, n)
        <4>1. w \in Seq(Byte) /\ Len(w) = n
          BY <3>3
        <4> HIDE DEF w
        <4>2. Len(buffer \o w) = Len(buffer) + Len(w)
          BY <3>2, <4>1, ConcatProperties
        <4>3. QED
          BY <4>1, <4>2 DEF w
      <3>5. n <= want /\ want \in Nat /\ Len(buffer) + want < BufferMax
        BY <1>1, <2>1, <3>1 DEF Read, BufferInv, HttpInv, HttpTypeOK
      <3>6. QED
        BY <3>1, <3>4, <3>5, BufferSizes
    <2> HIDE DEF b
    <2>3. Len(b) \in Nat /\ Len(<<>>) = 0
      BY <2>1, LenProperties, EmptySeq
    <2>4. CASE Parse(b)
      <3>1. /\ buffer' \in Seq(Byte) /\ Len(buffer') <= Len(b)
            /\ \/ stage' = "idle"
               \/ parser' = "chunked" \/ buffer' = <<>> \/ (buffer' = b /\ Len(b) < HeaderLimit)
        BY <2>1, <2>4, ParseFacts
      <3>2. PICK l \in Nat : l = Len(buffer')
        BY <3>1, LenProperties
      <3>3. l < BufferMax
        BY <2>2, <2>3, <3>1, <3>2, BufferSizes
      <3>4. stage' = "idle" \/ parser' = "chunked" \/ l < HeaderLimit
        BY <2>3, <3>1, <3>2, BufferSizes
      <3>5. QED
        BY <2>1, <3>2, <3>3, <3>4 DEF BufferInv
    <2>5. CASE ParseEof \/ Leave(ec', sock)
      BY <2>5 DEF ParseEof, Leave, BufferInv
    <2>6. QED
      BY <2>1, <2>4, <2>5
  <1>2. CASE Wrote
    <2>1. call' = "none" /\ (stage' = "receive" => buffer' = <<>>)
      BY <1>2 DEF Wrote, Return, Leave
    <2>2. QED
      BY <2>1, EmptySeq, BufferSizes DEF BufferInv
  <1>3. CASE ReceiveMore
    <2>1. stage = "receive" /\ Len(buffer) < BufferMax
          /\ (parser # "chunked" => Len(buffer) < HeaderLimit)
      BY <1>3 DEF ReceiveMore, BufferInv
    <2>2. CASE Overflows(buffer)
      BY <1>3, <2>2 DEF ReceiveMore, Leave, BufferInv
    <2>3. CASE ~ Overflows(buffer)
      <3>1. want' = ReadSize(buffer) /\ UNCHANGED <<buffer, parser>>
        BY <1>3, <2>3 DEF ReceiveMore, Begin, httpVars, clientVars
      <3>2. QED
        BY <2>1, <3>1, RoomLeft DEF BufferInv
    <2>4. QED
      BY <2>2, <2>3
  <1>4. CASE ~ Read /\ ~ Wrote /\ ~ ReceiveMore
    <2>1. stage' = "receive" => UNCHANGED <<stage, buffer, parser, call, want>>
      BY <1>4 DEF HttpNext, HttpConnect, HttpConnected, Perform, SendMore, Begin,
         HttpDispose, HttpDead, Deadline, Expire, HttpTick, Respond, HangUp,
         allVars, httpVars, clientVars, streamVars
    <2>2. QED
      BY <2>1 DEF BufferInv
  <1>5. QED
    BY <1>1, <1>2, <1>3, <1>4

\* For every kHeaderLimit, kBodyLimit and size of a read, the size of the next one does
\* not wrap around and prepare() does not throw; and it is zero only when what has come
\* of a line of a chunked body fills the buffer.
THEOREM AlwaysRoom == HttpSpec => []RoomToRead
  <1>1. HttpInit => BufferInv
    BY DEF HttpInit, BufferInv
  <1>2. HttpInv /\ BufferInv /\ [HttpNext]_allVars => BufferInv'
    BY BufferStep
  <1>3. HttpInv /\ BufferInv => RoomToRead
    <2> SUFFICES ASSUME HttpInv, BufferInv, stage = "receive"
                 PROVE  /\ Len(buffer) < BufferMax /\ ~ Overflows(buffer)
                        /\ ReadSize(buffer) > 0 \/ Spins
      BY DEF RoomToRead
    <2>1. Len(buffer) < BufferMax /\ (parser # "chunked" => Len(buffer) < HeaderLimit)
      BY DEF BufferInv
    <2>2. /\ ReadSize(buffer) \in Nat /\ Len(buffer) + ReadSize(buffer) < BufferMax
          /\ ReadSize(buffer) = 0 => Len(buffer) = BufferMax - 1
      BY <2>1, RoomLeft
    <2>3. ReadSize(buffer) = 0 => parser = "chunked"
      BY <2>1, <2>2, BufferSizes
    <2>4. QED
      BY <2>1, <2>2, <2>3, BufferSizes DEF Overflows, Spins
  <1>4. QED
    BY <1>1, <1>2, <1>3, HttpInvariant, PTL DEF HttpSpec

-----------------------------------------------------------------------------
(***************************************************************************)
(* A whole response                                                        *)
(***************************************************************************)
\* The parser has consumed a byte of this kind.
Has(q) == \E b \in taken : b.part = q

\* A parser that is in a body has seen the header that announced it.
WholeInv ==
    /\ (stage = "idle" /\ req > 0 /\ hec = "ok") =>
         \/ Has("bare") \/ (Has("close") /\ gone)
         \/ Has("end") /\ \E q \in Framed : Has(q)
    /\ stage = "receive" => \A q \in Bodies : parser = q => Has(q)

\* What put() adds to the bytes of the response.
LEMMA ParseTakes ==
    ASSUME NEW b \in Seq(Byte), parser \in Bodies \cup {"header"}, Parse(b)
    PROVE  /\ taken \subseteq taken'
           /\ \A x \in taken' : x \in taken \/ \E i \in 1..Len(b) : x = b[i]
           /\ \A q \in Bodies : parser' = q => parser = q \/ Has(q)'
           /\ parser' = "done" =>
                /\ Has("bare")' \/ (Has("end")' /\ \E q \in Framed : parser = q \/ Has(q)')
                /\ \E i \in 1..Len(b) : b[i].part \in {"bare", "end"}
  <1> DEFINE p == Put(b)
             In(q) == \E i \in 1..p.size : b[i].part = q
  <1>1. /\ p.size \in 0..Len(b)
        /\ p.parser \in Bodies => parser = p.parser \/ In(p.parser)
        /\ p.parser = "done" =>
             /\ p.size > 0 /\ b[p.size].part \in {"bare", "end"}
             /\ In("bare") \/ (In("end") /\ \E q \in Framed : parser = q \/ In(q))
    BY PutFacts
  <1>2. parser' = p.parser /\ taken' = taken \cup {b[i] : i \in 1..p.size}
    BY DEF Parse
  <1> HIDE DEF p
  <1>3. \A q : In(q) => Has(q)'
    BY <1>2 DEF Has
  <1>4. Len(b) \in Nat
    BY LenProperties
  <1>5. \A i \in 1..p.size : i \in 1..Len(b)
    BY <1>1, <1>4
  <1>6. taken \subseteq taken' /\ \A x \in taken' : x \in taken \/ \E i \in 1..Len(b) : x = b[i]
    BY <1>2, <1>5
  <1>7. parser' = "done" => \E i \in 1..Len(b) : b[i].part \in {"bare", "end"}
    <2>1. p.size > 0 => p.size \in 1..Len(b)
      BY <1>1, <1>4
    <2>2. QED
      BY <1>1, <1>2, <2>1
  <1> HIDE DEF In
  <1>8. QED
    BY <1>1, <1>2, <1>3, <1>6, <1>7

\* Every step keeps WholeInv.
LEMMA WholeStep ==
    ASSUME HttpInv, WholeInv, [HttpNext]_allVars
    PROVE  WholeInv'
  <1>1. CASE Read
    <2> DEFINE b == buffer \o SubSeq(wire, 1, done')
    <2>1. /\ b \in Seq(Byte) /\ parser \in Bodies \cup {"header"}
          /\ stage = "receive" /\ UNCHANGED <<req, gone>>
          /\ \/ Parse(b)
             \/ ParseEof /\ gone
             \/ ec' # "ok" /\ Leave(ec', sock)
      BY <1>1, ReadFacts DEF Read
    <2> HIDE DEF b
    <2>2. \A q \in Bodies : parser = q => Has(q)
      BY <2>1 DEF WholeInv
    <2>3. CASE Parse(b)
      <3>1. /\ stage' = "idle" \/ stage' = "receive"
            /\ stage' = "idle" /\ hec' = "ok" => parser' = "done"
        BY <2>1, <2>3, ParseFacts
      <3>2. /\ taken \subseteq taken'
            /\ \A q \in Bodies : parser' = q => parser = q \/ Has(q)'
            /\ parser' = "done" =>
                 Has("bare")' \/ (Has("end")' /\ \E q \in Framed : parser = q \/ Has(q)')
        BY <2>1, <2>3, ParseTakes
      <3>3. \A q : Has(q) => Has(q)'
        <4>1. taken \subseteq taken'
          BY <3>2
        <4>2. QED
          BY <4>1 DEF Has
      <3>4. parser' = "done" => Has("bare")' \/ (Has("end")' /\ \E q \in Framed : Has(q)')
        BY <2>2, <3>2, <3>3 DEF Bodies
      <3>5. \A q \in Bodies : parser' = q => Has(q)'
        BY <2>2, <3>2, <3>3
      <3>6. QED
        BY <3>1, <3>4, <3>5 DEF WholeInv
    <2>4. CASE ParseEof /\ gone
      <3>1. /\ stage' = "idle" /\ UNCHANGED taken
            /\ hec' = "ok" => parser = "close"
        BY <2>4 DEF ParseEof, Leave
      <3>2. parser = "close" => Has("close")'
        BY <2>2, <3>1 DEF Has, Bodies
      <3>3. QED
        BY <2>1, <2>2, <2>4, <3>1, <3>2 DEF WholeInv
    <2>5. CASE ec' # "ok" /\ Leave(ec', sock)
      BY <2>5 DEF Leave, WholeInv
    <2>6. QED
      BY <2>1, <2>3, <2>4, <2>5
  <1>2. CASE Wrote
    <2>1. \/ stage' = "idle" /\ hec' # "ok"
          \/ stage' = "receive" /\ parser' = "header"
          \/ stage' = "send"
      BY <1>2 DEF Wrote, Leave
    <2>2. QED
      BY <2>1 DEF WholeInv, Bodies, Framed
  <1>3. CASE ReceiveMore
    BY <1>3 DEF ReceiveMore, Leave, httpVars, clientVars, serverVars, WholeInv, Has
  <1>4. CASE HttpConnected
    BY <1>4 DEF HttpConnected, HttpInv, HttpTypeOK, WholeInv
  <1>5. CASE HangUp
    BY <1>5 DEF HangUp, clientVars, WholeInv, Has
  <1>6. ASSUME NEW d \in Timeouts, HttpConnect(d) \/ Perform(d)
        PROVE  WholeInv'
    BY <1>6 DEF HttpConnect, Perform, WholeInv
  <1>7. CASE \/ SendMore \/ HttpDispose \/ HttpDead \/ Deadline \/ HttpTick
             \/ (\E q \in Parts : Respond(q)) \/ UNCHANGED allVars
    <2>1. UNCHANGED <<stage, req, hec, parser, taken, gone>>
      BY <1>7 DEF SendMore, HttpDispose, HttpDead, Deadline, HttpTick, Respond,
         allVars, httpVars, clientVars, serverVars
    <2>2. QED
      BY <2>1 DEF WholeInv, Has
  <1>8. QED
    BY <1>1, <1>2, <1>3, <1>4, <1>5, <1>6, <1>7 DEF HttpNext

\* A response that perform() returns without an error is whole: it has all of its header,
\* and all of a body that has a length or comes in chunks; a body that the header said to go on
\* until the end of the stream was returned only when the server had hung up.
THEOREM WholeResponses == HttpSpec => []WholeResponse
  <1>1. HttpInit => WholeInv
    BY DEF HttpInit, WholeInv
  <1>2. HttpInv /\ WholeInv /\ [HttpNext]_allVars => WholeInv'
    BY WholeStep
  <1>3. WholeInv => WholeResponse
    <2> SUFFICES ASSUME WholeInv, stage = "idle", req > 0, hec = "ok"
                 PROVE  LET ends == {b.part : b \in taken}
                        IN \/ "bare" \in ends
                           \/ "end" \in ends /\ {"length", "chunked"} \cap ends # {}
                           \/ "close" \in ends /\ gone
      BY DEF WholeResponse
    <2>1. \A q : Has(q) => q \in {b.part : b \in taken}
      BY DEF Has
    <2>2. QED
      BY <2>1 DEF WholeInv, Framed
  <1>4. QED
    BY <1>1, <1>2, <1>3, HttpInvariant, PTL DEF HttpSpec

-----------------------------------------------------------------------------
(***************************************************************************)
(* The own response                                                        *)
(***************************************************************************)
\* The server has nothing to answer, or nobody to answer.
NoMore == asked = <<>> \/ gone

Silent == heard = 0 /\ wire = <<>> /\ NoMore

\* Among the bytes of s, followed by the ones of t, a byte that ends a response is the
\* last, and no other follows.
Own(s, t) ==
    \A i \in 1..Len(s) :
        /\ s[i].req = req
        /\ s[i].part \in {"bare", "end"} => i = Len(s) /\ t = <<>> /\ NoMore

\* While every perform() that failed has left the stream closed, an open stream is
\* silent between two calls; it has heard what has been sent of a request and nothing
\* else, and what it sends answers that request.  On a stream that is not open
\* perform() cannot succeed: it sends nothing, or waits for a read that has expired.
OwnInv ==
    clean =>
        /\ req = 0 => taken = {}
        /\ stage # "idle" \/ hec = "ok" => \A b \in taken : b.req = req
        /\ stage = "connect" \/ (stage = "idle" /\ sock \in {"none", "open"}) => Silent
        /\ stage = "send" /\ sock = "open" =>
             heard + unsent = RequestSize /\ unsent > 0 /\ wire = <<>> /\ NoMore
        /\ stage = "receive" =>
             /\ sock # "open" => call = "read_some" /\ expired
             /\ heard = 0 /\ (asked \in {<<>>, <<req>>} \/ gone)
             /\ Own(buffer, wire) /\ Own(wire, <<>>)

\* The last byte of the request reaches the server, or another one does.
LEMMA HearStep ==
    ASSUME NEW h \in Nat, NEW n \in Nat, NEW k \in 1..n, NEW m \in Nat, h + n = m
    PROVE  /\ n - k = 0 => h + k >= m /\ (h + k) % m = 0
           /\ n - k > 0 => ~ (h + k >= m) /\ ((h + k) % m) + (n - k) = m
  <1>1. m \in Nat \ {0} /\ h + k \in Nat /\ h + k <= m
    OBVIOUS
  <1>2. CASE n - k = 0
    <2>1. h + k = m
      BY <1>2
    <2>2. QED
      BY <1>1, <1>2, <2>1, Remainder
  <1>3. CASE n - k > 0
    <2>1. h + k < m
      BY <1>3
    <2>2. (h + k) % m = h + k
      BY <1>1, <2>1, Remainder
    <2>3. QED
      BY <1>3, <2>1, <2>2
  <1>4. QED
    BY <1>2, <1>3

\* The bytes that are given to the parser.
LEMMA OwnJoined ==
    ASSUME HttpInv, Own(buffer, wire), Own(wire, <<>>), NEW n \in Nat, n <= Len(wire)
    PROVE  LET b == buffer \o SubSeq(wire, 1, n)
               w == SubSeq(wire, n + 1, Len(wire))
           IN  Own(b, w) /\ Own(w, <<>>)
  <1> DEFINE b == buffer \o SubSeq(wire, 1, n)
             w == SubSeq(wire, n + 1, Len(wire))
  <1>1. buffer \in Seq(Byte) /\ wire \in Seq(Byte)
    BY DEF HttpInv
  <1>2. /\ SubSeq(wire, 1, n) \in Seq(Byte) /\ Len(SubSeq(wire, 1, n)) = n
        /\ \A i \in 1..n : SubSeq(wire, 1, n)[i] = wire[i]
        /\ w \in Seq(Byte) /\ Len(w) = Len(wire) - n
        /\ \A i \in 1..(Len(wire) - n) : w[i] = wire[n + i]
    BY <1>1, Split
  <1>3. /\ Len(b) = Len(buffer) + n
        /\ \A i \in 1..Len(b) : b[i] = IF i <= Len(buffer) THEN buffer[i]
                                       ELSE SubSeq(wire, 1, n)[i - Len(buffer)]
    BY <1>1, <1>2, ConcatProperties
  <1>4. Len(buffer) \in Nat /\ Len(wire) \in Nat
    BY <1>1, LenProperties
  <1>e. /\ n = 0 => SubSeq(wire, 1, n) = <<>>
        /\ wire = <<>> => w = <<>> /\ n = 0
        /\ n = Len(wire) => w = <<>>
    <2>1. n = Len(wire) => w = <<>>
      BY <1>1, Ends
    <2>2. wire = <<>> => n = Len(wire)
      BY <1>4
    <2>3. wire = <<>> => n = 0
      BY <1>4
    <2>4. n = 0 => SubSeq(wire, 1, n) = <<>>
      BY SubSeqEmpty
    <2>5. QED
      BY <2>1, <2>2, <2>3, <2>4
  <1> HIDE DEF b, w
  <1>5. Own(b, w)
    <2> SUFFICES ASSUME NEW i \in 1..Len(b)
                 PROVE  /\ b[i].req = req
                        /\ b[i].part \in {"bare", "end"} => i = Len(b) /\ w = <<>> /\ NoMore
      BY DEF Own
    <2>1. CASE i <= Len(buffer)
      <3>1. i \in 1..Len(buffer) /\ b[i] = buffer[i]
        BY <1>3, <1>4, <2>1
      <3>2. /\ buffer[i].req = req
            /\ buffer[i].part \in {"bare", "end"} => i = Len(buffer) /\ wire = <<>> /\ NoMore
        BY <3>1 DEF Own
      <3>3. i = Len(buffer) /\ wire = <<>> => i = Len(b) /\ w = <<>>
        BY <1>3, <1>4, <1>e
      <3>4. QED
        BY <3>1, <3>2, <3>3
    <2>2. CASE i > Len(buffer)
      <3> DEFINE j == i - Len(buffer)
      <3>1. j \in 1..n /\ j \in 1..Len(wire)
        BY <1>3, <1>4, <2>2
      <3>2. b[i] = wire[j]
        <4>1. ~ (i <= Len(buffer))
          BY <1>3, <1>4, <2>2
        <4>2. b[i] = SubSeq(wire, 1, n)[j]
          BY <1>3, <4>1
        <4> HIDE DEF j
        <4>3. QED
          BY <1>2, <3>1, <4>2
      <3>3. j = Len(wire) => n = Len(wire) /\ i = Len(b)
        <4>1. Len(b) = Len(buffer) + n /\ i \in Int
          BY <1>3, <1>4
        <4>2. QED
          BY <1>4, <3>1, <4>1
      <3> HIDE DEF j
      <3>4. /\ wire[j].req = req
            /\ wire[j].part \in {"bare", "end"} => j = Len(wire) /\ NoMore
        BY <3>1 DEF Own
      <3>5. QED
        BY <1>e, <3>2, <3>3, <3>4
    <2>3. QED
      BY <1>4, <2>1, <2>2
  <1>6. Own(w, <<>>)
    <2> SUFFICES ASSUME NEW i \in 1..Len(w)
                 PROVE  /\ w[i].req = req
                        /\ w[i].part \in {"bare", "end"} => i = Len(w) /\ NoMore
      BY DEF Own
    <2> DEFINE j == n + i
    <2>1. j \in 1..Len(wire) /\ w[i] = wire[j] /\ (j = Len(wire) => i = Len(w))
      BY <1>2, <1>4
    <2> HIDE DEF j
    <2>2. QED
      BY <2>1 DEF Own
  <1>7. QED
    BY <1>5, <1>6 DEF b, w

\* What the parser leaves of them.
LEMMA OwnSuffix ==
    ASSUME NEW s \in Seq(Byte), NEW t, Own(s, t), NEW k \in 0..Len(s)
    PROVE  Own(SubSeq(s, k + 1, Len(s)), t)
  <1> DEFINE w == SubSeq(s, k + 1, Len(s))
  <1>1. Len(s) \in Nat /\ k \in Nat /\ k <= Len(s)
    BY LenProperties
  <1>2. Len(w) = Len(s) - k /\ \A i \in 1..(Len(s) - k) : w[i] = s[k + i]
    BY <1>1, Split
  <1> HIDE DEF w
  <1>3. Own(w, t)
    <2> SUFFICES ASSUME NEW i \in 1..Len(w)
                 PROVE  /\ w[i].req = req
                        /\ w[i].part \in {"bare", "end"} => i = Len(w) /\ t = <<>> /\ NoMore
      BY DEF Own
    <2> DEFINE j == k + i
    <2>1. j \in 1..Len(s) /\ w[i] = s[j] /\ (j = Len(s) => i = Len(w))
      BY <1>1, <1>2
    <2> HIDE DEF j
    <2>2. QED
      BY <2>1 DEF Own
  <1>4. QED
    BY <1>3 DEF w

\* write_some() returns.
LEMMA OwnWrote ==
    ASSUME HttpInv, OwnInv, Wrote
    PROVE  OwnInv'
  <1> SUFFICES ASSUME clean'
               PROVE  OwnInv'
    BY DEF OwnInv
  <1>1. /\ stage = "send" /\ call = "write_some" /\ want = unsent
        /\ sock' = sock /\ UNCHANGED <<req, taken, wire, gone>>
        /\ ec' = "ok" => sock = "open" /\ done' \in 1..want
    BY DEF Wrote, Return, Writable, Enough, Errors, HttpInv
  <1>2. CASE ec' # "ok"
    <2>1. /\ stage' = "idle" /\ hec' # "ok" /\ sock = "closed" /\ clean
      BY <1>2, <1>1 DEF Wrote, Leave
    <2>2. QED
      BY <1>1, <2>1 DEF OwnInv
  <1>3. CASE ec' = "ok"
    <2>1. /\ clean' = clean /\ unsent' = unsent - done'
          /\ \/ unsent' > 0 /\ stage' = stage
             \/ ~ (unsent' > 0) /\ stage' = "receive" /\ buffer' = <<>>
      BY <1>3 DEF Wrote
    <2>2. /\ heard + unsent = RequestSize /\ unsent > 0 /\ wire = <<>> /\ NoMore
          /\ \A b \in taken : b.req = req
          /\ req = 0 => taken = {}
      BY <1>1, <1>3, <2>1 DEF OwnInv
    <2>3. heard \in Nat /\ unsent \in Nat /\ RequestSize \in Nat
      BY HttpAssumption DEF HttpInv, HttpTypeOK
    <2>4. PICK k \in 1..unsent : k = done'
      BY <1>1, <1>3
    <2>5. /\ unsent' = unsent - k /\ heard' = (heard + k) % RequestSize
          /\ asked' = IF heard + k >= RequestSize /\ ~ gone THEN Append(asked, req) ELSE asked
      BY <2>1, <2>4 DEF Wrote, Hear
    <2>6. /\ unsent - k = 0 => heard + k >= RequestSize /\ heard' = 0
          /\ unsent - k > 0 =>
               ~ (heard + k >= RequestSize) /\ heard' + (unsent - k) = RequestSize
      <3>1. heard + unsent = RequestSize
        BY <2>2
      <3>2. /\ unsent - k = 0 => heard + k >= RequestSize /\ (heard + k) % RequestSize = 0
            /\ unsent - k > 0 => /\ ~ (heard + k >= RequestSize)
                                 /\ ((heard + k) % RequestSize) + (unsent - k) = RequestSize
        BY <2>3, <3>1, HearStep
      <3>3. QED
        BY <2>5, <3>2
    <2>7. unsent - k = 0 \/ unsent - k > 0
      BY <2>3
    <2>8. CASE unsent - k > 0
      <3>1. stage' = "send" /\ asked' = asked
        BY <1>1, <2>1, <2>5, <2>6, <2>8
      <3>2. heard' + unsent' = RequestSize /\ unsent' > 0
        BY <2>5, <2>6, <2>8
      <3>3. NoMore'
        BY <1>1, <2>2, <3>1 DEF NoMore
      <3>4. QED
        BY <1>1, <2>2, <3>1, <3>2, <3>3 DEF OwnInv
    <2>9. CASE unsent - k = 0
      <3>1. stage' = "receive" /\ buffer' = <<>> /\ heard' = 0
        BY <2>1, <2>5, <2>6, <2>9
      <3>2. asked' \in {<<>>, <<req>>} \/ gone
        <4>1. CASE ~ gone
          <5>1. asked' = Append(<<>>, req)
            BY <2>2, <2>5, <2>6, <2>9, <4>1 DEF NoMore
          <5>2. QED
            BY <5>1
        <4>2. QED
          BY <4>1
      <3>3. Len(<<>>) = 0
        BY EmptySeq
      <3>4. Own(buffer, wire)' /\ Own(wire, <<>>)'
        BY <1>1, <2>2, <3>1, <3>3 DEF Own
      <3>5. QED
        BY <1>1, <1>3, <2>2, <3>1, <3>2, <3>4 DEF OwnInv
    <2>10. QED
      BY <2>7, <2>8, <2>9
  <1>4. QED
    BY <1>2, <1>3

\* read_some() returns.  When the parser is done it has had the last byte of all.
LEMMA OwnRead ==
    ASSUME HttpInv, OwnInv, Read
    PROVE  OwnInv'
  <1> SUFFICES ASSUME clean'
               PROVE  OwnInv'
    BY DEF OwnInv
  <1> DEFINE b == buffer \o SubSeq(wire, 1, done')
  <1>1. /\ done' \in 0..want /\ done' <= Len(wire) /\ b \in Seq(Byte)
        /\ wire' = SubSeq(wire, done' + 1, Len(wire))
        /\ parser \in Bodies \cup {"header"} /\ sock' = sock
        /\ UNCHANGED <<req, heard, asked, gone>>
        /\ \/ ec' = "ok" /\ Parse(b)
           \/ ec' = "eof" /\ gone /\ wire = <<>> /\ ParseEof
           \/ ec' \notin {"ok", "eof"} /\ Leave(ec', sock) /\ UNCHANGED <<parser, buffer, taken>>
    BY ReadFacts
  <1>2. PICK n \in Nat : n = done'
    BY <1>1 DEF HttpInv, HttpTypeOK
  <1>3. stage = "receive" /\ (ec' # "timed_out" => ~ expired)
    BY DEF Read, Return
  <1>4. CASE ec' \notin {"ok", "eof"} /\ Leave(ec', sock) /\ UNCHANGED <<parser, buffer, taken>>
    <2>1. stage' = "idle" /\ hec' # "ok" /\ sock = "closed" /\ clean
      BY <1>4 DEF Leave
    <2>2. QED
      BY <1>1, <1>4, <2>1, <1>3 DEF OwnInv
  <1>5. CASE ec' = "eof" /\ gone /\ wire = <<>> /\ ParseEof
    <2>1. stage' = "idle" /\ clean /\ UNCHANGED taken
      BY <1>5 DEF ParseEof, Leave
    <2>2. wire' = <<>>
      <3>1. wire' = SubSeq(<<>>, n + 1, 0)
        BY <1>1, <1>2, <1>5, EmptySeq
      <3>2. QED
        BY <3>1, SubSeqEmpty
    <2>3. Silent'
      BY <1>1, <1>3, <1>5, <2>1, <2>2 DEF OwnInv, Silent, NoMore
    <2>4. QED
      BY <1>1, <1>3, <2>1, <2>3 DEF OwnInv
  <1>6. CASE ec' = "ok" /\ Parse(b)
    <2>1. /\ \/ stage' = "idle" /\ (hec' = "ok" => parser' = "done")
                /\ clean' = (clean /\ (hec' = "ok" \/ sock = "closed"))
             \/ /\ UNCHANGED <<stage, rest, hec, clean>> /\ parser' # "done"
          /\ \E k \in 0..Len(b) : buffer' = SubSeq(b, k + 1, Len(b))
      BY <1>1, <1>6, ParseFacts
    <2>2. /\ \A x \in taken' : x \in taken \/ \E i \in 1..Len(b) : x = b[i]
          /\ parser' = "done" => \E i \in 1..Len(b) : b[i].part \in {"bare", "end"}
      BY <1>1, <1>6, ParseTakes
    <2>3. /\ clean /\ sock = "open" /\ heard = 0 /\ (asked \in {<<>>, <<req>>} \/ gone)
          /\ Own(buffer, wire) /\ Own(wire, <<>>) /\ \A x \in taken : x.req = req
      BY <1>3, <1>6, <2>1 DEF OwnInv
    <2>4. /\ b = buffer \o SubSeq(wire, 1, n)
          /\ wire' = SubSeq(wire, n + 1, Len(wire)) /\ n <= Len(wire)
      BY <1>1, <1>2
    <2>5. Own(b, wire') /\ Own(wire', <<>>)
      BY <2>3, <2>4, OwnJoined
    <2> HIDE DEF b
    <2>6. \A x \in taken' : x.req = req'
      BY <1>1, <2>2, <2>3, <2>5 DEF Own
    <2>7. req' > 0
      BY <1>1, <1>3 DEF HttpInv
    <2>8. CASE stage' = "idle" /\ hec' = "ok"
      <3>1. wire' = <<>> /\ NoMore
        <4>1. PICK i \in 1..Len(b) : b[i].part \in {"bare", "end"}
          BY <1>3, <2>1, <2>2, <2>8
        <4>2. QED
          BY <2>5, <4>1 DEF Own
      <3>2. Silent'
        BY <1>1, <2>3, <3>1 DEF Silent, NoMore
      <3>3. QED
        BY <2>6, <2>7, <2>8, <3>2 DEF OwnInv
    <2>9. CASE stage' = "idle" /\ hec' # "ok"
      BY <1>3, <2>1, <2>3, <2>9
    <2>10. CASE stage' = stage
      <3>1. NoMore' <=> NoMore
        BY <1>1 DEF NoMore
      <3>2. Own(buffer', wire')
        BY <1>1, <2>1, <2>5, OwnSuffix
      <3>3. Own(buffer, wire)' /\ Own(wire, <<>>)'
        BY <1>1, <2>5, <3>1, <3>2 DEF Own
      <3>4. /\ stage' = "receive" /\ sock' = "open" /\ heard' = 0
            /\ asked' \in {<<>>, <<req'>>} \/ gone'
            /\ ~ (req' = 0)
        BY <1>1, <1>3, <2>3, <2>7, <2>10
      <3>5. QED
        BY <2>6, <3>3, <3>4 DEF OwnInv
    <2>11. QED
      BY <2>1, <2>8, <2>9, <2>10
  <1>7. QED
    BY <1>1, <1>4, <1>5, <1>6

\* The server sends a byte of the answer that is awaited.
LEMMA OwnRespond ==
    ASSUME HttpInv, OwnInv, NEW q \in Parts, Respond(q)
    PROVE  OwnInv'
  <1> SUFFICES ASSUME clean
               PROVE  OwnInv'
    BY DEF OwnInv, Respond, clientVars
  <1>1. /\ asked # <<>> /\ ~ gone
        /\ wire' = Append(wire, [req |-> Head(asked), part |-> q])
        /\ asked' = IF q \in {"bare", "end"} THEN Tail(asked) ELSE asked
        /\ UNCHANGED <<stage, hec, buffer, req, taken, clean, heard, gone, sock, call, expired>>
    BY DEF Respond, clientVars, streamVars
  <1>2. ~ NoMore
    BY <1>1 DEF NoMore
  <1>3. CASE stage = "receive"
    <2>1. /\ sock # "open" => call = "read_some" /\ expired
          /\ heard = 0 /\ asked = <<req>> /\ Own(buffer, wire) /\ Own(wire, <<>>)
          /\ \A b \in taken : b.req = req
          /\ req = 0 => taken = {}
      BY <1>1, <1>3 DEF OwnInv
    <2>2. Head(asked) = req /\ (q \in {"bare", "end"} => asked' = <<>>)
      BY <1>1, <2>1
    <2>3. asked' \in {<<>>, <<req>>}
      BY <1>1, <2>1, <2>2
    <2>4. /\ wire \in Seq(Byte) /\ Len(wire) \in Nat
          /\ [req |-> req, part |-> q] \in Byte
      <3>1. wire \in Seq(Byte) /\ req \in 0..MaxRequests /\ req > 0
        BY <1>3 DEF HttpInv, HttpTypeOK
      <3>2. req \in 1..MaxRequests
        BY <3>1
      <3>3. QED
        BY <3>1, <3>2, LenProperties DEF Byte
    <2>5. /\ Len(wire') = Len(wire) + 1
          /\ \A i \in 1..Len(wire) : wire'[i] = wire[i]
          /\ wire'[Len(wire) + 1] = [req |-> req, part |-> q]
      <3> DEFINE x == [req |-> req, part |-> q]
      <3>1. wire' = Append(wire, x) /\ x \in Byte
        BY <1>1, <2>2, <2>4
      <3> HIDE DEF x
      <3>2. /\ Len(wire') = Len(wire) + 1 /\ wire'[Len(wire) + 1] = x
            /\ \A i \in 1..Len(wire) : wire'[i] = wire[i]
        BY <2>4, <3>1, AppendProperties
      <3>3. QED
        BY <3>2 DEF x
    <2>6. Own(wire, <<>>)'
      <3> SUFFICES ASSUME NEW i \in 1..Len(wire')
                   PROVE  /\ wire'[i].req = req'
                          /\ wire'[i].part \in {"bare", "end"} => i = Len(wire') /\ NoMore'
        BY DEF Own
      <3>1. CASE i \in 1..Len(wire)
        BY <1>1, <1>2, <2>1, <2>5, <3>1 DEF Own
      <3>2. CASE i = Len(wire) + 1
        <4>1. wire'[i] = [req |-> req, part |-> q] /\ i = Len(wire')
          BY <2>5, <3>2
        <4>2. wire'[i].req = req /\ wire'[i].part = q
          BY <4>1
        <4>3. QED
          BY <1>1, <2>2, <4>1, <4>2 DEF NoMore
      <3>3. i \in 1..Len(wire) \/ i = Len(wire) + 1
        <4>1. Len(wire) \in Nat /\ i \in 1..(Len(wire) + 1)
          BY <2>4, <2>5
        <4>2. QED
          BY <4>1
      <3>4. QED
        BY <3>1, <3>2, <3>3
    <2>7. Own(buffer, wire)'
      BY <1>1, <1>2, <2>1 DEF Own
    <2>8. QED
      BY <1>1, <1>3, <2>1, <2>3, <2>6, <2>7 DEF OwnInv
  <1>4. CASE stage # "receive"
    <2>1. ~ (stage = "connect" \/ (stage = "idle" /\ sock \in {"none", "open"}))
      BY <1>2 DEF OwnInv, Silent
    <2>2. ~ (stage = "send" /\ sock = "open")
      BY <1>2 DEF OwnInv
    <2>3. QED
      BY <1>1, <1>4, <2>1, <2>2 DEF OwnInv
  <1>5. QED
    BY <1>3, <1>4

\* The server hangs up.
LEMMA OwnHangUp ==
    ASSUME HttpInv, OwnInv, HangUp
    PROVE  OwnInv'
  <1>1. /\ gone' /\ NoMore'
        /\ UNCHANGED <<stage, hec, buffer, req, taken, clean, unsent, heard, asked, wire,
                       sock, call, expired>>
    BY DEF HangUp, NoMore, clientVars, streamVars
  <1>2. (Own(buffer, wire) => Own(buffer, wire)') /\ (Own(wire, <<>>) => Own(wire, <<>>)')
    BY <1>1 DEF Own
  <1>3. Silent => Silent'
    BY <1>1 DEF Silent
  <1>4. QED
    BY <1>1, <1>2, <1>3 DEF OwnInv

\* A step that changes neither the server nor what the client knows of it.
LEMMA OwnKept ==
    ASSUME OwnInv,
           UNCHANGED <<stage, hec, unsent, buffer, req, taken, clean, heard, asked, wire, gone>>,
           sock' = sock \/ stage = "connect" \/ sock' \notin {"none", "open"},
           stage = "receive" /\ sock' # "open" /\ clean => call' = "read_some" /\ expired'
    PROVE  OwnInv'
  <1>1. (Own(buffer, wire) => Own(buffer, wire)') /\ (Own(wire, <<>>) => Own(wire, <<>>)')
    BY DEF Own, NoMore
  <1>2. (Silent => Silent') /\ (NoMore => NoMore')
    BY DEF Silent, NoMore
  <1>3. QED
    BY <1>1, <1>2 DEF OwnInv

\* Every step keeps OwnInv.
LEMMA OwnStep ==
    ASSUME HttpInv, OwnInv, [HttpNext]_allVars
    PROVE  OwnInv'
  <1>1. ASSUME NEW d \in Timeouts, HttpConnect(d)
        PROVE  OwnInv'
    <2>1. /\ stage = "idle" /\ sock = "none" /\ stage' = "connect"
          /\ UNCHANGED <<req, taken, clean, heard, asked, wire, gone>>
      BY <1>1 DEF HttpConnect, serverVars
    <2>2. req = 0 /\ (Silent => Silent')
      BY <2>1 DEF HttpInv, Silent, NoMore
    <2>3. QED
      BY <2>1, <2>2 DEF OwnInv
  <1>2. CASE HttpConnected
    <2>1. /\ stage = "connect" /\ stage' = "idle"
          /\ UNCHANGED <<req, taken, clean, heard, asked, wire, gone>>
      BY <1>2 DEF HttpConnected, serverVars
    <2>2. req = 0 /\ (Silent => Silent')
      BY <2>1 DEF HttpInv, Silent, NoMore
    <2>3. QED
      BY <2>1, <2>2 DEF OwnInv
  <1>3. ASSUME NEW d \in Timeouts, Perform(d)
        PROVE  OwnInv'
    <2>1. /\ stage = "idle" /\ stage' = "send" /\ unsent' = RequestSize
          /\ taken' = {} /\ UNCHANGED <<clean, heard, asked, wire, gone, sock>>
      BY <1>3 DEF Perform, serverVars, streamVars
    <2>2. RequestSize \in Nat \ {0}
      BY HttpAssumption
    <2>3. Silent => /\ heard' + unsent' = RequestSize /\ unsent' > 0
                    /\ wire' = <<>> /\ NoMore'
      BY <2>1, <2>2 DEF Silent, NoMore
    <2>4. clean' /\ sock' = "open" => Silent
      BY <2>1 DEF OwnInv
    <2>5. QED
      BY <2>1, <2>3, <2>4 DEF OwnInv
  <1>4. CASE Wrote
    BY <1>4, OwnWrote
  <1>5. CASE ReceiveMore
    <2>1. stage = "receive" /\ call = "none" /\ (clean => sock = "open")
      BY <1>5 DEF ReceiveMore, OwnInv
    <2>2. CASE Overflows(buffer)
      BY <1>5, <2>1, <2>2 DEF ReceiveMore, Leave, OwnInv
    <2>3. CASE ~ Overflows(buffer)
      BY <1>5, <2>1, <2>3, OwnKept DEF ReceiveMore, Begin, httpVars, clientVars, serverVars
    <2>4. QED
      BY <2>2, <2>3
  <1>6. CASE Read
    BY <1>6, OwnRead
  <1>7. CASE Deadline
    <2>1. /\ call # "none" /\ sock' = "closed" /\ expired' /\ call' = call
          /\ UNCHANGED httpVars
      BY <1>7 DEF Deadline, Expire, HttpInv
    <2>2. stage = "receive" => call = "read_some"
      BY <2>1 DEF HttpInv
    <2>3. QED
      BY <2>1, <2>2, OwnKept DEF httpVars, clientVars, serverVars
  <1>8. CASE SendMore
    BY <1>8, OwnKept DEF SendMore, Begin, httpVars, clientVars, serverVars
  <1>9. CASE HttpDispose
    BY <1>9, OwnKept DEF HttpDispose, Dispose, httpVars, clientVars, serverVars
  <1>10. CASE HttpDead \/ HttpTick \/ UNCHANGED allVars
    <2>1. UNCHANGED <<stage, hec, unsent, buffer, req, taken, clean, heard, asked, wire, gone,
                      sock, call, expired>>
      BY <1>10 DEF HttpDead, HttpTick, allVars, httpVars, clientVars, serverVars, streamVars
    <2>2. stage = "receive" /\ sock' # "open" /\ clean => call' = "read_some" /\ expired'
      BY <2>1 DEF OwnInv
    <2>3. QED
      BY <2>1, <2>2, OwnKept
  <1>11. ASSUME NEW q \in Parts, Respond(q)
         PROVE  OwnInv'
    BY <1>11, OwnRespond
  <1>12. CASE HangUp
    BY <1>12, OwnHangUp
  <1>13. QED
    BY <1>1, <1>2, <1>3, <1>4, <1>5, <1>6, <1>7, <1>8, <1>9, <1>10, <1>11, <1>12 DEF HttpNext

\* For any number of requests on one stream: as long as each perform() that failed has
\* left the stream closed, what perform() returns is made of bytes that the server sent
\* in answer to this request, and none is left over from an earlier one.
THEOREM OwnResponses == HttpSpec => []OwnResponse
  <1>1. HttpInit => OwnInv
    BY DEF HttpInit, OwnInv, Silent, NoMore
  <1>2. HttpInv /\ OwnInv /\ [HttpNext]_allVars => OwnInv'
    BY OwnStep
  <1>3. OwnInv => OwnResponse
    BY DEF OwnInv, OwnResponse
  <1>4. QED
    BY <1>1, <1>2, <1>3, HttpInvariant, PTL DEF HttpSpec

=============================================================================
