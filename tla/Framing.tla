------------------------------ MODULE Framing ------------------------------
(***************************************************************************)
(* How requests and replies travel on one connection (source/message.c,     *)
(* network_client.c, network_server.c).  A request is four bytes with its    *)
(* length and then its bytes, in two writes; a reply is its bytes alone.     *)
(* write_All writes once and read_All reads once: what a read returns is     *)
(* what has arrived by then, at least one byte and at most what was asked    *)
(* for, or no byte when the other end is closed.                            *)
(*                                                                         *)
(* message_t__unpack appears as what it makes of a buffer: the message whose *)
(* bytes fill it, or something else (module Unpack has the bytes in between).*)
(* TCP delivers in order and without loss; it is external, and so is malloc. *)
(***************************************************************************)
EXTENDS Wire, SequencesExt, FiniteSetsExt

CONSTANTS Requests,    \* the messages that the client sends
          Replies,     \* the messages that invoke makes of a request
          MaxMsg,      \* the bytes of the client's buffer: 2048
          Huge,        \* a length for which malloc may return NULL
          MaxRequests  \* bound: calls in a behaviour

ASSUME FramingAssumption == /\ Requests \subseteq MessageT /\ Replies \subseteq MessageT
                            /\ MaxMsg \in Nat \ {0} /\ Huge \in Nat
                            /\ MaxRequests \in Nat

VARIABLES pieces,          \* whether a read may come before all that was written
          client,          \* the next call of the client
          asked,           \* the requests it has made
          got,             \* what it took for the replies
          upstream,        \* the bytes on their way to the server
          downstream,      \* the bytes on their way to the client
          server,          \* the next call of the main loop for this connection
          size_of_message, \* what network_receive read as the length
          handed,          \* what was handed to invoke
          answered,        \* the replies that were sent
          short            \* history: network_receive has read less than it asked for

vars == <<client, asked, got, upstream, downstream, server, size_of_message, handed, answered,
          short, pieces>>

\* What message_t__unpack makes of bytes that are no message: NULL, a message that is
\* taken for OP_BAD, or one that nobody sent.
Sent(m) == <<"message", m>>
Null == <<"NULL", init_value>>
Bad == <<"OP_BAD", init_value>>
Other == <<"other", init_value>>

int_bytes(n) == << n % 256, (n \div 256) % 256, (n \div 65536) % 256, (n \div 16777216) % 256 >>

\* The int was 0 before read stored its first bytes, the low ones.
int_of(b) == LET at(i) == IF i <= Len(b) THEN b[i] ELSE 0
             IN  at(1) + 256 * at(2) + 65536 * at(3)
                   + 16777216 * (IF at(4) < 128 THEN at(4) ELSE at(4) - 256)

\* What a buffer of n bytes may be taken for when bytes were read into it.
Unpacked(bytes, n) ==
    LET whole == {m \in Requests \cup Replies : message_pack(m) = bytes}
    IN  IF n = 0 THEN {Bad}
        ELSE IF Len(bytes) = n /\ whole # {} THEN {Sent(m) : m \in whole}
        ELSE {Null, Bad, Other}

Results == {Sent(m) : m \in Requests \cup Replies} \cup {Null, Bad, Other}

TypeOK ==
    /\ client \in {"idle", "length", "message", "reply", "gone"}
    /\ asked \in Seq(Requests) /\ Len(asked) <= MaxRequests
    /\ got \in Seq(Results) /\ Len(got) <= Len(asked)
    /\ upstream \in Seq(Byte) /\ downstream \in Seq(Byte)
    /\ server \in {"length", "message", "reply", "closed", "crashed"}
    /\ size_of_message \in Int32
    /\ handed \in Seq(Results)
    /\ answered \in Seq(Replies)
    /\ short \in BOOLEAN /\ pieces \in BOOLEAN

Init == /\ pieces \in BOOLEAN
        /\ client = "idle"
        /\ asked = << >>
        /\ got = << >>
        /\ upstream = << >>
        /\ downstream = << >>
        /\ server = "length"
        /\ size_of_message = 0
        /\ handed = << >>
        /\ answered = << >>
        /\ short = FALSE

-----------------------------------------------------------------------------
(* One read. *)

\* How many bytes one read_All of count bytes may return of those that were written.
Arrived(bytes, count) ==
    LET most == Min({Len(bytes), count})
    IN  IF bytes = << >> THEN {} ELSE IF pieces THEN 1 .. most ELSE {most}

\* Either end is closed.
ClientGone == client = "gone"
ServerGone == server \in {"closed", "crashed"}

-----------------------------------------------------------------------------
(* The client: network_send_receive. *)

Call ==
    /\ client = "idle" /\ Len(asked) < MaxRequests
    /\ \E m \in Requests : asked' = Append(asked, m)
    /\ client' = "length"
    /\ UNCHANGED <<got, upstream, downstream, server, size_of_message, handed, answered, short,
                   pieces>>

\* A write reaches the other end unless that is closed; then it may still succeed once,
\* or fail, and network_send_receive returns NULL.
Write(from, bytes, to) ==
    /\ client = from
    /\ \/ client' = to
          /\ upstream' = IF ServerGone THEN upstream ELSE upstream \o bytes
       \/ ServerGone /\ client' = "gone" /\ UNCHANGED upstream
    /\ UNCHANGED <<asked, got, downstream, server, size_of_message, handed, answered, short,
                   pieces>>

\* Mutant of WriteLength: the last byte is not counted.
WriteLengthOneLess == Write("length", int_bytes(Len(message_pack(Last(asked))) - 1), "message")

\* Mutant of WriteLength: no length is sent, as before the replies.
WriteNoLength == Write("length", << >>, "message")

WriteLength == Write("length", int_bytes(Len(message_pack(Last(asked)))), "message")
WriteMessage == Write("message", message_pack(Last(asked)), "reply")

\* Mutant of ReadReply: it reads on while it gets bytes.
ReadReplyAll ==
    /\ client = "reply"
    /\ \E n \in Arrived(downstream, MaxMsg) :
          /\ \E result \in Unpacked(SubSeq(downstream, 1, n), n) :
                /\ got' = Append(got, result)
                /\ client' = IF n < Len(downstream) THEN "reply" ELSE "idle"
          /\ downstream' = SubSeq(downstream, n + 1, Len(downstream))
    /\ UNCHANGED <<asked, upstream, server, size_of_message, handed, answered, short,
                   pieces>>

\* One read of up to MAX_MSG bytes is the reply; what is left of it is for the next
\* call.  The callers look into what message_t__unpack returned: NULL ends the client.
ReadReply ==
    /\ client = "reply"
    /\ \E n \in Arrived(downstream, MaxMsg) :
          /\ \E result \in Unpacked(SubSeq(downstream, 1, n), n) :
                /\ got' = Append(got, result)
                /\ client' = IF result = Null THEN "gone" ELSE "idle"
          /\ downstream' = SubSeq(downstream, n + 1, Len(downstream))
    /\ UNCHANGED <<asked, upstream, server, size_of_message, handed, answered, short,
                   pieces>>

\* The server is gone: no bytes make an empty message, an error makes NULL.
ReadEnd ==
    /\ client = "reply" /\ ServerGone /\ downstream = << >>
    /\ \/ got' = Append(got, Bad) /\ client' = "idle"
       \/ client' = "gone" /\ UNCHANGED got
    /\ UNCHANGED <<asked, upstream, downstream, server, size_of_message, handed, answered, short,
                   pieces>>

\* quit, or the end of the process, which may come between any two calls.
Leave ==
    /\ client # "gone"
    /\ client' = "gone"
    /\ UNCHANGED <<asked, got, upstream, downstream, server, size_of_message, handed, answered, short,
                   pieces>>

-----------------------------------------------------------------------------
(* The server: network_main_loop with network_receive and network_send. *)

Close ==
    /\ server' = "closed"
    /\ UNCHANGED <<upstream, downstream, size_of_message, handed, answered, short>>

\* With replies unread, the end of the client is an error, which may come before the
\* bytes it has written.
Reset == ClientGone /\ downstream # << >>

ReceiveLength ==
    /\ server = "length"
    /\ \/ /\ \E n \in Arrived(upstream, 4) :
                /\ size_of_message' = int_of(SubSeq(upstream, 1, n))
                /\ upstream' = SubSeq(upstream, n + 1, Len(upstream))
                /\ short' = (short \/ n < 4)
          /\ server' = "message"
          /\ UNCHANGED <<downstream, handed, answered>>
       \/ Reset /\ Close
       \* No bytes: a length of 0, an empty message, OP_BAD.
       \/ ClientGone /\ upstream = << >> /\ Close
    /\ UNCHANGED <<client, asked, got, pieces>>

\* What becomes of a message that was made of n bytes.  invoke_aux and invoke look into
\* it, whatever it is.
Take(bytes, n) ==
    /\ \E result \in Unpacked(bytes, n) :
          /\ server' = IF result = Null THEN "crashed"
                       ELSE IF result = Bad THEN "closed" ELSE "reply"
          /\ handed' = IF result \in {Null, Bad} THEN handed ELSE Append(handed, result)
    /\ short' = (short \/ Len(bytes) < n)
    /\ UNCHANGED <<downstream, size_of_message, answered>>

\* malloc may have no room for the buffer, or take the length for negative: nothing can
\* be read into NULL, and at the end of the stream nothing is and NULL is unpacked.
NoBuffer == size_of_message < 0 \/ size_of_message >= Huge

\* Mutant of ReceiveMessage: it waits for all the bytes.
ReceiveMessageAll ==
    /\ server = "message"
    /\ Len(upstream) >= size_of_message
    /\ Take(SubSeq(upstream, 1, size_of_message), size_of_message)
    /\ upstream' = SubSeq(upstream, size_of_message + 1, Len(upstream))
    /\ UNCHANGED <<client, asked, got, pieces>>

ReceiveMessage ==
    /\ server = "message"
    /\ \/ /\ size_of_message = 0
          /\ Take(<< >>, 0)
          /\ UNCHANGED upstream
       \/ /\ size_of_message > 0
          /\ \E n \in Arrived(upstream, size_of_message) :
                /\ Take(SubSeq(upstream, 1, n), size_of_message)
                /\ upstream' = SubSeq(upstream, n + 1, Len(upstream))
       \/ /\ size_of_message > 0 /\ ClientGone /\ upstream = << >>
          /\ Take(<< >>, size_of_message)
          /\ UNCHANGED upstream
       \/ NoBuffer /\ upstream # << >> /\ Close
       \/ /\ NoBuffer /\ ClientGone /\ upstream = << >>
          /\ server' = "crashed"
          /\ UNCHANGED <<upstream, downstream, size_of_message, handed, answered, short>>
       \/ Reset /\ Close
    /\ UNCHANGED <<client, asked, got, pieces>>

\* Mutant of SendReply: the reply has its length before it.
SendReplyFramed ==
    /\ server = "reply"
    /\ server' = "length"
    /\ \E m \in Replies :
          LET bytes == int_bytes(Len(message_pack(m))) \o message_pack(m)
          IN  /\ answered' = Append(answered, m)
              /\ downstream' = IF ClientGone THEN downstream ELSE downstream \o bytes
    /\ UNCHANGED <<client, asked, got, pieces, upstream, size_of_message, handed, short>>

\* Mutant of SendReply: the reply is written twice.
SendReplyTwice ==
    /\ server = "reply"
    /\ server' = "length"
    /\ \E m \in Replies :
          /\ answered' = Append(answered, m)
          /\ downstream' = IF ClientGone THEN downstream
                           ELSE downstream \o message_pack(m) \o message_pack(m)
    /\ UNCHANGED <<client, asked, got, pieces, upstream, size_of_message, handed, short>>

\* invoke turns the request into its reply; network_send writes it, or closes.
SendReply ==
    /\ server = "reply"
    /\ \/ /\ server' = "length"
          /\ \E m \in Replies :
                /\ answered' = Append(answered, m)
                /\ downstream' = IF ClientGone THEN downstream ELSE downstream \o message_pack(m)
          /\ UNCHANGED <<upstream, size_of_message, handed, short>>
       \/ ClientGone /\ Close
    /\ UNCHANGED <<client, asked, got, pieces>>

Next == \/ Call \/ WriteLength \/ WriteMessage \/ ReadReply \/ ReadEnd \/ Leave
        \/ ReceiveLength \/ ReceiveMessage \/ SendReply

Spec == Init /\ [][Next]_vars

\* Both processes go on; the client need not call and need not leave.
FairSpec == Spec /\ WF_vars(WriteLength \/ WriteMessage \/ ReadReply \/ ReadEnd)
                 /\ WF_vars(ReceiveLength \/ ReceiveMessage \/ SendReply)

-----------------------------------------------------------------------------
(* Properties. *)

\* The requests of a client that is not gone, as the server should be handed them.
Whole(ms) == [i \in DOMAIN ms |-> Sent(ms[i])]

\* As long as every read of the server returns what it asked for, invoke is handed the
\* requests themselves, in order, however late each write arrives, however the replies
\* are cut and wherever the client ends.
HandedAsAsked == ~short => IsPrefix(handed, Whole(asked))

RequestsArrive == TypeOK /\ HandedAsAsked

\* ... and the server survives.
SurvivesWholeReads == ~short => server # "crashed"

ShortReplies == ~pieces /\ \A i \in DOMAIN answered : Len(message_pack(answered[i])) <= MaxMsg

\* When reads find what was written and no reply is longer than its buffer, a client has
\* the reply to each of its calls, or the empty message of a closed connection.
RepliesMatch ==
    ShortReplies => \A i \in DOMAIN got :
                       got[i] # Bad => i \in DOMAIN answered /\ got[i] = Sent(answered[i])

\* ... and finds nothing on the connection that an earlier call has left.
QuietWhenIdle ==
    ShortReplies /\ client = "idle" /\ ~ServerGone =>
        upstream = << >> /\ downstream = << >> /\ Len(answered) = Len(asked)

RepliesArrive == RepliesMatch /\ QuietWhenIdle

\* network_server.h:22: network_receive reads the bytes and builds the message with the
\* request.
IsTheRequest == IsPrefix(handed, Whole(asked))

\* ... and nothing else is unpacked and looked into, whatever a client does.
Survives == server # "crashed"

\* network_client.h:21: it waits for the reply and returns the message that it is.
IsTheReply == \A i \in DOMAIN got :
    i \in DOMAIN answered /\ ~ServerGone => got[i] = Sent(answered[i])

\* Every call comes back, however its bytes were cut: with a reply, with something else
\* that was taken for one, or with the end of the connection.
CallsReturn == client \in {"length", "message", "reply"} ~> client \in {"idle", "gone"}
=============================================================================
