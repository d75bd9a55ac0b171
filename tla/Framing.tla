------------------------------ MODULE Framing -------------------------------
(***************************************************************************)
(* How requests and replies are cut out of one connection's two byte       *)
(* streams (Server/Server.py, manageClient and the loop at the head of     *)
(* processManagingClient; Client/SockHandler.cpp).  The bytes are counted  *)
(* and not looked at.  recv and read_some return what has arrived, at      *)
(* least one byte and at most what was asked for; the code takes it that   *)
(* they return the whole header, the whole block, the whole reply.  The    *)
(* server counts calls of recv, not bytes, and after an exception it goes  *)
(* on wherever in the stream it is: what it reads there as a header is a   *)
(* phantom, whose size may be any number.                                  *)
(*                                                                         *)
(* faults collects what went wrong so far: "cut", a read returned less     *)
(* than was there; "misannounced", a request's header did not carry the    *)
(* size of its payload (see WireFormat); "silent", a handler neither       *)
(* answered nor ended the connection.                                      *)
(***************************************************************************)
EXTENDS Naturals, Sequences

CONSTANTS
    HEADER,         \* TOTAL_LEN_WITHOUT_PAYLOAD
    BUFFER_SIZE,
    REPLY,          \* the bytes of a reply
    MAX_REPLY_LEN,
    Request,        \* the requests of a client: sizes, as sent and as announced
    PhantomSize,    \* the sizes a phantom header may announce
    MaxRequest      \* bound on the client's requests

ASSUME LengthsAssumption ==
    /\ HEADER \in Nat \ {0} /\ BUFFER_SIZE \in Nat \ {0}
    /\ REPLY \in Nat \ {0} /\ MAX_REPLY_LEN \in Nat /\ REPLY <= MAX_REPLY_LEN
ASSUME RequestAssumption == Request \subseteq [size : Nat, announced : Nat]
ASSUME PhantomAssumption == PhantomSize \subseteq Nat
ASSUME MaxRequestAssumption == MaxRequest \in Nat

VARIABLES
    client,     \* "idle", "waiting" in read_some, or "gone"
    asked,      \* the client's requests, each with its place in the stream
    written,    \* bytes written to the server
    read,       \* bytes the server has read
    thread,     \* where the connection's thread is
    handled,    \* the requests the handlers were given
    back,       \* reply bytes under way, each the number of the request it answers
    taken,      \* the reply the client read last
    faults

clientVars == <<client, asked, written, taken>>
vars == <<client, asked, written, read, thread, handled, back, taken, faults>>

Sent == [at : Nat, size : Nat, announced : Nat]
Handled == [from : Nat, size : Nat]

\* Where the thread is: at a header, in the loop over a payload, or over.
AtHeader == [pc |-> "header"]
Receiving == [pc : {"payload"}, from : Nat, need : Nat, i : Nat, got : Nat]
Ended == [pc |-> "ended"]

Least(a, b) == IF a <= b THEN a ELSE b

Init ==
    /\ client = "idle"
    /\ asked = << >> /\ handled = << >> /\ back = << >> /\ taken = << >>
    /\ written = 0 /\ read = 0
    /\ thread = AtHeader
    /\ faults = {}

----------------------------------------------------------------------------
(* The server's thread *)

\* What recv(n) may return of the bytes that are there, and whether it is all.
Received(n) == 1..Least(n, written - read)

Cut(got, n, there) == IF got < Least(n, there) THEN {"cut"} ELSE {}

\* The size in the header read at the current place.
HeaderSize ==
    LET here == {k \in DOMAIN asked : asked[k].at = read}
    IN  IF here = {} THEN PhantomSize ELSE {asked[k].announced : k \in here}

\* A short header is a "Bad request".
RecvHeader ==
    /\ thread.pc = "header"
    /\ \E n \in Received(HEADER) :
        /\ read' = read + n
        /\ faults' = faults \cup Cut(n, HEADER, written - read)
        /\ \/ n < HEADER /\ UNCHANGED thread
           \/ /\ n = HEADER
              /\ \E size \in HeaderSize :
                    thread' = [pc |-> "payload", from |-> read, need |-> size, i |-> 0, got |-> 0]
    /\ UNCHANGED <<clientVars, handled, back>>

\* Faulty: the last block is not read.
StopsEarly(i, need) == (i + 1) * BUFFER_SIZE < need

\* Faulty: one block too many.
StopsLate(i, need) == i * BUFFER_SIZE <= need

\* The loop over the payload goes on.
Looping(i, need) == i * BUFFER_SIZE < need

\* Faulty: recv is asked for what is missing.
AskedForRest == Least(BUFFER_SIZE, thread.need - thread.got)

Asked == BUFFER_SIZE

\* Faulty: the length is compared before the bytes are added.
TooLongBefore(n) == thread.got > thread.need

\* "Payload is too long", with n bytes more.
TooLong(n) == thread.got + n > thread.need

\* One turn of it; a payload that is too long leaves the thread at its next header.
RecvPayload ==
    /\ thread.pc = "payload"
    /\ Looping(thread.i, thread.need)
    /\ \E n \in Received(Asked) :
        /\ read' = read + n
        /\ faults' = faults \cup Cut(n, Asked, written - read)
        /\ thread' = IF TooLong(n) THEN AtHeader
                     ELSE [thread EXCEPT !.i = @ + 1, !.got = @ + n]
    /\ UNCHANGED <<clientVars, handled, back>>

\* Faulty: the reply is sent twice.
ReplyTwice == [k \in 1..(2 * REPLY) |-> Len(asked)]

Reply == [k \in 1..REPLY |-> Len(asked)]

\* setPayload: struct.unpack raises unless the payload has the announced size;
\* else the request's handler answers it or not, and ends the connection or not.
SetPayload ==
    /\ thread.pc = "payload"
    /\ ~Looping(thread.i, thread.need)
    /\ \/ /\ thread.got # thread.need
          /\ thread' = AtHeader
          /\ UNCHANGED <<handled, back, faults>>
       \/ /\ thread.got = thread.need
          /\ handled' = Append(handled, [from |-> thread.from, size |-> thread.need])
          /\ \E answers, ends \in BOOLEAN :
                /\ back' = IF answers THEN back \o Reply ELSE back
                /\ thread' = IF ends THEN Ended ELSE AtHeader
                /\ faults' = faults \cup IF answers \/ ends THEN {} ELSE {"silent"}
    /\ UNCHANGED <<clientVars, read>>

\* Faulty: an empty header is a bad request like any short one.
EndOfStreamIgnored ==
    /\ thread.pc = "payload"
    /\ client = "gone" /\ read = written
    /\ thread' = AtHeader
    /\ UNCHANGED <<clientVars, read, handled, back, faults>>

\* recv returns nothing: "Client has disconnected", or "payload is too short".
EndOfStream ==
    /\ client = "gone" /\ read = written
    /\ \/ thread.pc = "header" /\ thread' = Ended
       \/ thread.pc = "payload" /\ Looping(thread.i, thread.need) /\ thread' = AtHeader
    /\ UNCHANGED <<clientVars, read, handled, back, faults>>

Thread == RecvHeader \/ RecvPayload \/ SetPayload \/ EndOfStream

----------------------------------------------------------------------------
(* The client *)

\* SockHandler::request writes a request ...
Write ==
    /\ client = "idle"
    /\ Len(asked) < MaxRequest
    /\ client' = "waiting"
    /\ \E r \in Request :
        /\ asked' = Append(asked, [at |-> written, size |-> r.size, announced |-> r.announced])
        /\ written' = written + HEADER + r.size
        /\ faults' = faults \cup IF r.announced = r.size THEN {} ELSE {"misannounced"}
    /\ UNCHANGED <<read, thread, handled, back, taken>>

\* ... and takes for the reply what one read_some returns.
ReadSome ==
    /\ client = "waiting"
    /\ \E n \in 1..Least(MAX_REPLY_LEN, Len(back)) :
        /\ taken' = SubSeq(back, 1, n)
        /\ back' = SubSeq(back, n + 1, Len(back))
        /\ faults' = faults \cup Cut(n, MAX_REPLY_LEN, Len(back))
    /\ client' = "idle"
    /\ UNCHANGED <<asked, written, read, thread, handled>>

\* "Server closed the connection."  A server that closes with bytes unread resets
\* the connection, and replies under way are lost.
ServerClosed ==
    /\ client = "waiting"
    /\ thread = Ended
    /\ back = << >> \/ read < written
    /\ client' = "gone"
    /\ UNCHANGED <<asked, written, read, thread, handled, back, taken, faults>>

\* The client program ends, or is killed.
Close ==
    /\ client # "gone"
    /\ client' = "gone"
    /\ UNCHANGED <<asked, written, read, thread, handled, back, taken, faults>>

Next == Thread \/ Write \/ ReadSome \/ ServerClosed \/ Close

\* What was written arrives, and neither program stops before a call that returns.
Spec == Init /\ [][Next]_vars /\ WF_vars(Thread) /\ WF_vars(ReadSome \/ ServerClosed)

----------------------------------------------------------------------------
(* Properties *)

Types ==
    /\ client \in {"idle", "waiting", "gone"}
    /\ asked \in Seq(Sent)
    /\ written \in Nat
    /\ read \in 0..written
    /\ thread \in {AtHeader, Ended} \cup Receiving
    /\ handled \in Seq(Handled)
    /\ back \in Seq(Nat)
    /\ taken \in Seq(Nat)
    /\ faults \in SUBSET {"cut", "misannounced", "silent"}

\* The thread is got bytes into the payload after its header.
Position == thread.pc = "payload" =>
    /\ read = thread.from + HEADER + thread.got
    /\ thread.got <= thread.need
    /\ thread.i <= thread.got

\* Every variable has its type, and the payload a thread has so far is what it read
\* since the header, no longer than the header announced: over any number of calls of
\* recv the loop neither loses count nor takes bytes of the next request for its own.
TypeOK == Types /\ Position

\* As long as nothing went wrong the handlers are given the client's requests, in
\* their order, each one whole and once, and the thread looks for a header only
\* where one begins.
InStep == faults = {} =>
    /\ Len(asked) \in {Len(handled), Len(handled) + 1}
    /\ \A k \in DOMAIN handled :
        handled[k].from = asked[k].at /\ handled[k].size = asked[k].size
    /\ thread = AtHeader => read \in {written} \cup {asked[k].at : k \in DOMAIN asked}

\* Then the client has in its hands the whole reply to its own last request.
OwnReply == faults = {} /\ client = "idle" /\ asked # << >> =>
    taken = [k \in 1..REPLY |-> Len(asked)]

\* When reads return whole blocks, a payload that is longer than announced gets
\* through to a handler only if it is announced as a whole number of blocks;
\* every other one is noticed ("Payload is too long").
CutAtBlock == "cut" \notin faults =>
    \A h \in DOMAIN handled, k \in DOMAIN asked :
        handled[h].from = asked[k].at /\ handled[h].size < asked[k].size =>
            \E blocks \in 0..handled[h].size : handled[h].size = blocks * BUFFER_SIZE

\* As long as nothing goes wrong a client that waits gets its reply, or the end.
Served == client = "waiting" ~> client # "waiting" \/ faults # {}

\* Whatever the stream was taken for, the thread of a client that is gone ends.
ThreadEnds == client = "gone" ~> thread = Ended
=============================================================================
