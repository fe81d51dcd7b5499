------------------------------- MODULE Framing -------------------------------
(***************************************************************************)
(* One connection of the socket server (socket.rs): bytes arrive in chunks *)
(* that have nothing to do with requests, are collected in a buffer, cut   *)
(* into top-level {...} objects by counting braces, and each object is     *)
(* answered before the next is cut off.  Client and server are joined by   *)
(* two kernel buffers of finite size, so that either may have to wait for  *)
(* the other.                                                              *)
(***************************************************************************)
EXTENDS Integers, Sequences, FiniteSetsExt, SequencesExt

CONSTANTS
    Streams,            \* what a client may have to say
    Chunk,              \* size of the chunk read at once
    Inbound, Outbound   \* capacities of the kernel's buffers

\* The bytes the scanner tells apart; "x" is any other.
Opening == "{"
Closing == "}"
Quote == "\""
Backslash == "\\"
Byte == {Opening, Closing, Quote, Backslash, "x"}
Newline == <<"\n">>

ASSUME FramingAssumption ==
    /\ {Chunk, Inbound, Outbound} \subseteq Nat \ {0}
    /\ Streams \subseteq Seq(Byte)

VARIABLES
    stream,     \* all the client will ever send
    sent,       \* how much of it the client has written
    peer,       \* the client's side: open, shut for writing, or closed
    received,   \* how much of the stream the server has read
    buf,        \* the server's buffer: read, and not yet cut off
    pc,         \* where the server's thread is
    handled,    \* the objects handed to the handler so far
    written,    \* what the server has written: answers and newlines
    taken       \* how much of that the client has read

client == <<stream, sent, peer, taken>>
server == <<received, buf, pc, handled, written>>
vars == <<client, server>>
-----------------------------------------------------------------------------
Scanner == [depth : Nat, in_string : BOOLEAN, escape : BOOLEAN]
Outside == [depth |-> 0, in_string |-> FALSE, escape |-> FALSE]

\* What a byte outside the strings does to the depth.
Depth(d, b) == IF b = Opening THEN d + 1 ELSE IF b = Closing /\ d > 0 THEN d - 1 ELSE d

\* Mutation: a backslash does not protect the quote after it.
ScanNoEscape(s, b) ==
    IF s.in_string
    THEN [s EXCEPT !.in_string = b # Quote]
    ELSE [s EXCEPT !.in_string = b = Quote /\ s.depth > 0,
                   !.depth = Depth(s.depth, b)]

\* One byte of the brace count.  Before the first brace nothing but a brace
\* matters; inside a string nothing but its end does.
Scan(s, b) ==
    IF s.in_string
    THEN [s EXCEPT !.escape = b = Backslash /\ ~s.escape,
                   !.in_string = b # Quote \/ s.escape]
    ELSE [s EXCEPT !.in_string = b = Quote /\ s.depth > 0,
                   !.depth = Depth(s.depth, b)]

\* The state of the scanner after each prefix of a string.
ScanOf(s) ==
    LET step == [p \in Scanner \X Byte |-> Scan(p[1], p[2])]
        f[i \in 0..Len(s)] == IF i = 0 THEN Outside ELSE step[<<f[i - 1], s[i]>>]
    IN  f

\* Where the objects of a string end.
Ends(s) ==
    LET f == ScanOf(s)
    IN  {i \in 1..Len(s) : f[i - 1].depth > 0 /\ f[i].depth = 0}

Complete(s) == Ends(s) # {}

\* Mutation: the rest of the buffer goes with the message.
ExtractDropsRest(s) ==
    LET start == Min({i \in 1..Len(s) : s[i] = Opening})
    IN  [msg |-> SubSeq(s, start, Min(Ends(s))), rest |-> <<>>]

\* The first object of a string, without what precedes it, and what follows.
ExtractJsonObject(s) ==
    LET start == Min({i \in 1..Len(s) : s[i] = Opening})
        end == Min(Ends(s))
    IN  [msg |-> SubSeq(s, start, end), rest |-> SubSeq(s, end + 1, Len(s))]
-----------------------------------------------------------------------------
TypeOK ==
    /\ stream \in Seq(Byte) /\ sent \in 0..Len(stream)
    /\ peer \in {"open", "half", "gone"}
    /\ received \in 0..sent
    /\ buf \in Seq(Byte)
    /\ pc \in {"read", "extract", "respond", "newline", "closed"}
    /\ handled \in Seq(Seq(Byte))
    /\ written \in Seq(Seq(Byte) \cup {Newline}) /\ taken \in 0..Len(written)
    /\ \A i \in DOMAIN written : written[i] = Newline <=> i % 2 = 0

Init ==
    /\ stream \in Streams /\ sent = 0 /\ peer = "open" /\ taken = 0
    /\ received = 0 /\ buf = <<>> /\ pc = "read"
    /\ handled = <<>> /\ written = <<>>
-----------------------------------------------------------------------------
\* The client writes a byte, as far as the kernel has room for it.
Send ==
    /\ peer = "open"
    /\ sent < Len(stream) /\ sent - received < Inbound
    /\ sent' = sent + 1
    /\ UNCHANGED <<stream, peer, taken, server>>

\* The client shuts its writing side, or closes the socket.
Leave(how) ==
    /\ peer = "open" \/ (peer = "half" /\ how = "gone")
    /\ peer' = how
    /\ UNCHANGED <<stream, sent, taken, server>>

\* The client reads some of what it was answered.
Take ==
    /\ peer # "gone"
    /\ taken < Len(written)
    /\ taken' = taken + 1
    /\ UNCHANGED <<stream, sent, peer, server>>

\* Mutation: every read is taken to have filled the chunk.
ReadCountsChunk ==
    /\ pc = "read"
    /\ received < sent
    /\ received' = received + Chunk
    /\ buf' = buf \o SubSeq(stream, received + 1, Min({sent, received'}))
    /\ pc' = "extract"
    /\ UNCHANGED <<client, handled, written>>

\* read(): as much as there is, up to the size of the chunk.
Read ==
    /\ pc = "read"
    /\ received < sent
    /\ received' = Min({sent, received + Chunk})
    /\ buf' = buf \o SubSeq(stream, received + 1, received')
    /\ pc' = "extract"
    /\ UNCHANGED <<client, handled, written>>

\* read() returns 0 at the end of the stream, or fails after it because the
\* client closed its socket with answers unread.
ReadEnds ==
    /\ pc = "read"
    /\ received = sent /\ peer # "open"
    /\ pc' = "closed"
    /\ UNCHANGED <<client, received, buf, handled, written>>

\* The head of the inner loop, and the handler's work on what it cut off: any
\* object, valid JSON or not, has exactly one response.
Extract ==
    /\ pc = "extract"
    /\ IF Complete(buf)
       THEN LET found == ExtractJsonObject(buf) IN
            /\ buf' = found.rest
            /\ handled' = Append(handled, found.msg)
            /\ pc' = "respond"
       ELSE pc' = "read" /\ UNCHANGED <<buf, handled>>
    /\ UNCHANGED <<client, received, written>>

\* write_all(): waits for room, fails once the client is gone.
Write(what, next) ==
    /\ peer # "gone"
    /\ Len(written) - taken < Outbound
    /\ written' = Append(written, what)
    /\ pc' = next
    /\ UNCHANGED <<client, received, buf, handled>>

WriteResponse == pc = "respond" /\ Write(Last(handled), "newline")

\* Mutation: back to read() after each answer.
WriteNewlineReads == pc = "newline" /\ Write(Newline, "read")

WriteNewline == pc = "newline" /\ Write(Newline, "extract")

WriteFails ==
    /\ pc \in {"respond", "newline"} /\ peer = "gone"
    /\ pc' = "closed"
    /\ UNCHANGED <<client, received, buf, handled, written>>

\* The handler panics: its thread ends before anything is written.
Panic ==
    /\ pc = "respond"
    /\ pc' = "closed"
    /\ UNCHANGED <<client, received, buf, handled, written>>

ServeConnection ==
    Read \/ ReadEnds \/ Extract \/ WriteResponse \/ WriteNewline \/ WriteFails

Client == Send \/ Take \/ \E how \in {"half", "gone"} : Leave(how)

Next == ServeConnection \/ Panic \/ Client

Spec == Init /\ [][Next]_vars

\* The server's thread is scheduled, and the client reads what it is sent: one
\* that only writes until it blocks leaves both sides waiting for ever.
FairSpec == Spec /\ WF_vars(ServeConnection) /\ WF_vars(Take)
-----------------------------------------------------------------------------
\* The objects of a stream taken as a whole, in one pass: the bytes of the one
\* that is open are kept until its last brace.
Reading == [scan : Scanner, object : Seq(Byte), objects : Seq(Seq(Byte))]

Blank == [scan |-> Outside, object |-> <<>>, objects |-> <<>>]

Feed(r, b) ==
    LET scan == Scan(r.scan, b)
        object == Append(r.object, b)
    IN  [scan |-> scan,
         object |-> IF scan.depth > 0 THEN object ELSE <<>>,
         objects |-> IF r.scan.depth > 0 /\ scan.depth = 0
                     THEN Append(r.objects, object) ELSE r.objects]

\* What has been read after each prefix of a string.
ReadingOf(s) ==
    LET step == [p \in Reading \X Byte |-> Feed(p[1], p[2])]
        f[i \in 0..Len(s)] == IF i = 0 THEN Blank ELSE step[<<f[i - 1], s[i]>>]
    IN  f

Received == ReadingOf(stream)[received].objects

\* An answer is the object it answers; it is complete with its newline.
Answered == [i \in 1..Len(written) \div 2 |-> written[2 * i - 1]]

\* Whenever the thread waits for more input, every request that has arrived in
\* full has been answered in full: nothing complete sleeps in the buffer.
AnsweredBeforeWaiting == pc = "read" => Answered = Received

\* What an object is, said without a scanner.  In a literal that begins at i a
\* quote at k is protected if an odd number of backslashes stands right before it.
Protected(s, i, k) ==
    \E m \in i..k - 1 : /\ s[m] # Backslash /\ (k - m) % 2 = 0
                        /\ \A p \in m + 1..k - 1 : s[p] = Backslash

\* The string literals that s may have: from a quote to the next unprotected one.
Literals(s) ==
    {l \in (1..Len(s)) \X (1..Len(s)) :
        /\ l[1] < l[2] /\ s[l[1]] = Quote
        /\ \A k \in l[1] + 1..l[2] : s[k] = Quote /\ ~Protected(s, l[1], k) <=> k = l[2]}

\* The bytes of s outside some of its literals, and how many more braces are opened
\* than closed among the first n.
Bare(s, lits) == {k \in 1..Len(s) : \A l \in lits : k < l[1] \/ l[2] < k}
Braces(s, lits, n, b) == {k \in Bare(s, lits) : k <= n /\ s[k] = b}
Surplus(s, lits, n) ==
    Cardinality(Braces(s, lits, n, Opening)) - Cardinality(Braces(s, lits, n, Closing))

\* Its literals set aside, an object has no quote left and as many braces closed as
\* opened, but not before its end.
IsObject(s) ==
    /\ s # <<>> /\ s[1] = Opening
    /\ \E lits \in SUBSET Literals(s) :
        /\ \A l, m \in lits : l = m \/ l[2] < m[1] \/ m[2] < l[1]
        /\ \A k \in Bare(s, lits) : s[k] # Quote
        /\ \A n \in 1..Len(s) - 1 : Surplus(s, lits, n) > 0
        /\ Surplus(s, lits, Len(s)) = 0

\* However the bytes are cut, the handler is given objects and nothing else, and
\* what the thread keeps while it waits starts no object that is complete.
CutsObjects ==
    /\ \A i \in 1..Len(handled) : IsObject(handled[i])
    /\ pc = "read" =>
        \A j \in 1..Len(buf) :
            (\A i \in 1..j - 1 : buf[i] # Opening) =>
                \A k \in j..Len(buf) : ~IsObject(SubSeq(buf, j, k))

\* The connection implements RequestStream: each request is answered once and
\* in order, by a connection that never goes back on what it has done.
Stream == INSTANCE RequestStream WITH
    asked <- Received, answered <- Answered, open <- pc # "closed"

InOrder == Stream!Spec

\* As long as the connection stands, every request that has arrived in full is
\* answered in full, by a server that is scheduled and a client that reads.
EveryAnswered == []<>(pc = "closed" \/ Answered = Received)
-----------------------------------------------------------------------------
\* Why requests are answered in order, made inductive.

\* The buffer is what of the stream was read and not cut off, and whoever read the
\* stream in one pass up to the cut would be between two objects and have found
\* those that were handed to the handler.
BufferKept ==
    LET cut == received - Len(buf) IN
    /\ Len(buf) <= received
    /\ buf = SubSeq(stream, cut + 1, received)
    /\ ReadingOf(stream)[cut] = [scan |-> Outside, object |-> <<>>, objects |-> handled]

\* What has been written are the objects handled, each with its newline, but for
\* the one in hand.
WritesKept ==
    /\ \A i \in 1..Len(handled) : 2 * i - 1 <= Len(written) => written[2 * i - 1] = handled[i]
    /\ Len(written) <= 2 * Len(handled)
    /\ pc \in {"read", "extract"} => Len(written) = 2 * Len(handled)
    /\ pc = "respond" => Len(written) = 2 * Len(handled) - 2
    /\ pc = "newline" => Len(written) = 2 * Len(handled) - 1

FramingInv ==
    /\ TypeOK
    /\ BufferKept
    /\ WritesKept
    /\ pc = "read" => ~Complete(buf)
=============================================================================
