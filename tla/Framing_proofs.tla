--------------------------- MODULE Framing_proofs ---------------------------
(***************************************************************************)
(* What Framing promises, for every length of a header, a block and a      *)
(* reply and every set of requests.                                        *)
(***************************************************************************)
EXTENDS Framing, SequenceTheorems, TLAPS

USE LengthsAssumption, RequestAssumption, PhantomAssumption, MaxRequestAssumption

----------------------------------------------------------------------------
(* Where things are in the stream *)

\* The requests lie in what was written, one after the other.
Layout ==
    /\ \A k \in DOMAIN asked : asked[k].at + HEADER + asked[k].size <= written
    /\ \A j, k \in DOMAIN asked : j < k => asked[j].at < asked[k].at

StreamInv == Types /\ Layout /\ Position

LEMMA StreamInit == Init => StreamInv
BY DEF Init, StreamInv, Types, Layout, Position, AtHeader

LEMMA ReceivedBounds ==
    ASSUME written \in Nat, read \in 0..written, NEW a \in Nat \ {0}, NEW n \in Received(a)
    PROVE  /\ n \in Nat /\ 0 < n /\ n <= a
           /\ read \in Nat /\ read + n \in 0..written
BY DEF Received, Least

\* A header read where a request begins is that request's.
LEMMA SentHasType ==
    ASSUME asked \in Seq(Sent), NEW k \in DOMAIN asked
    PROVE  /\ asked[k] \in Sent
           /\ asked[k].at \in Nat /\ asked[k].size \in Nat /\ asked[k].announced \in Nat
<1>1. DOMAIN asked = 1..Len(asked) OBVIOUS
<1>2. asked[k] \in Sent BY <1>1, ElementOfSeq
<1> QED BY <1>2 DEF Sent

LEMMA HeaderSizeIsNat ==
    ASSUME Types, NEW size \in HeaderSize
    PROVE  size \in Nat
<1> DEFINE here == {k \in DOMAIN asked : asked[k].at = read}
<1>1. CASE here = {} BY <1>1 DEF HeaderSize
<1>2. CASE here # {}
    <2>1. PICK k \in DOMAIN asked : size = asked[k].announced BY <1>2 DEF HeaderSize
    <2>2. asked[k] \in Sent BY <2>1, SentHasType DEF Types
    <2> QED BY <2>1, <2>2 DEF Sent
<1> QED BY <1>1, <1>2

LEMMA RecvHeaderStream == StreamInv /\ RecvHeader => StreamInv'
<1> SUFFICES ASSUME StreamInv, RecvHeader PROVE StreamInv' OBVIOUS
<1> USE DEF StreamInv
<1>1. PICK n \in Received(HEADER) :
        /\ read' = read + n
        /\ faults' = faults \cup Cut(n, HEADER, written - read)
        /\ \/ n < HEADER /\ UNCHANGED thread
           \/ /\ n = HEADER
              /\ \E size \in HeaderSize :
                    thread' = [pc |-> "payload", from |-> read, need |-> size, i |-> 0, got |-> 0]
    BY DEF RecvHeader
<1>2. n \in Nat /\ read' \in 0..written /\ read \in Nat
    BY <1>1, ReceivedBounds DEF Types
<1>3. faults' \in SUBSET {"cut", "misannounced", "silent"}
    BY <1>1 DEF Cut, Types
<1>4. Types' /\ Position'
    <2>1. CASE thread' = thread
        BY <2>1, <1>2, <1>3 DEF RecvHeader, Types, Position, clientVars
    <2>2. CASE thread' # thread
        <3>1. PICK size \in HeaderSize :
                n = HEADER /\ thread' = [pc |-> "payload", from |-> read, need |-> size, i |-> 0, got |-> 0]
            BY <1>1, <2>2
        <3>2. size \in Nat BY HeaderSizeIsNat
        <3>3. /\ thread'.pc = "payload" /\ thread'.from = read /\ thread'.need = size
              /\ thread'.i = 0 /\ thread'.got = 0
            BY <3>1
        <3>4. thread' \in Receiving BY <3>1, <3>2, <1>2 DEF Receiving
        <3>5. Position' BY <3>1, <3>2, <3>3, <1>1, <1>2 DEF Position
        <3> QED BY <3>4, <3>5, <1>2, <1>3 DEF RecvHeader, Types, clientVars
    <2> QED BY <2>1, <2>2
<1>5. Layout' BY DEF RecvHeader, Layout, clientVars
<1> QED BY <1>4, <1>5

LEMMA RecvPayloadStream == StreamInv /\ RecvPayload => StreamInv'
<1> SUFFICES ASSUME StreamInv, RecvPayload PROVE StreamInv' OBVIOUS
<1> USE DEF StreamInv
<1>1. PICK n \in Received(Asked) :
        /\ read' = read + n
        /\ faults' = faults \cup Cut(n, Asked, written - read)
        /\ thread' = IF thread.got + n > thread.need THEN AtHeader
                     ELSE [thread EXCEPT !.i = @ + 1, !.got = @ + n]
    BY DEF RecvPayload, TooLong
<1>2. n \in Nat /\ n > 0 /\ read' \in 0..written /\ read \in Nat
    BY <1>1, ReceivedBounds DEF Types, Asked
<1>3. faults' \in SUBSET {"cut", "misannounced", "silent"}
    BY <1>1 DEF Cut, Types
<1>4. thread \in Receiving
    BY DEF RecvPayload, TooLong, Types, AtHeader, Ended
<1>5. Types' /\ Position'
    <2>1. CASE thread' = AtHeader
        BY <2>1, <1>2, <1>3 DEF RecvPayload, TooLong, Types, Position, AtHeader, clientVars
    <2>2. CASE thread' # AtHeader
        <3>3. /\ thread.from \in Nat /\ thread.need \in Nat /\ thread.i \in Nat /\ thread.got \in Nat
            BY <1>4 DEF Receiving
        <3> DEFINE turns == thread.i + 1
                   bytes == thread.got + n
        <3>1. thread' = [thread EXCEPT !.i = turns, !.got = bytes] /\ bytes <= thread.need
            BY <1>1, <1>2, <2>2, <3>3
        <3>6. turns \in Nat /\ bytes \in Nat BY <3>3, <1>2
        <3>7. turns = thread.i + 1 /\ bytes = thread.got + n OBVIOUS
        <3> HIDE DEF turns, bytes
        <3>2. /\ thread'.pc = "payload" /\ thread'.from = thread.from /\ thread'.need = thread.need
              /\ thread'.i = turns /\ thread'.got = bytes
              /\ thread' \in Receiving
            BY <3>1, <3>6, <1>4 DEF Receiving
        <3>4. read = thread.from + HEADER + thread.got /\ thread.i <= thread.got
            BY DEF RecvPayload, TooLong, Position
        <3>5. Position' BY <3>1, <3>2, <3>3, <3>4, <3>7, <1>1, <1>2 DEF Position
        <3> QED BY <3>2, <3>5, <1>2, <1>3 DEF RecvPayload, TooLong, Types, clientVars
    <2> QED BY <2>1, <2>2
<1>6. Layout' BY DEF RecvPayload, TooLong, Layout, clientVars
<1> QED BY <1>5, <1>6

LEMMA SetPayloadStream == StreamInv /\ SetPayload => StreamInv'
<1> SUFFICES ASSUME StreamInv, SetPayload PROVE StreamInv' OBVIOUS
<1> USE DEF StreamInv
<1>1. thread \in Receiving
    BY DEF SetPayload, Types, AtHeader, Ended
<1>2. thread' \in {AtHeader, Ended} /\ faults' \in SUBSET {"cut", "misannounced", "silent"}
    BY DEF SetPayload, Types
<1>3. Reply \in Seq(Nat) BY DEF Reply, Types
<1>4. back' \in Seq(Nat)
    <2>1. back \o Reply \in Seq(Nat) BY <1>3, ConcatProperties DEF Types
    <2> QED BY <2>1 DEF SetPayload, Types
<1>5. [from |-> thread.from, size |-> thread.need] \in Handled BY <1>1 DEF Receiving, Handled
<1>6. handled' \in Seq(Handled)
    <2>1. Append(handled, [from |-> thread.from, size |-> thread.need]) \in Seq(Handled)
        BY <1>5, AppendProperties DEF Types
    <2> QED BY <2>1 DEF SetPayload, Types
<1> QED BY <1>2, <1>4, <1>6 DEF SetPayload, Types, Position, Layout, AtHeader, Ended, clientVars

LEMMA WriteStream == StreamInv /\ Write => StreamInv'
<1> SUFFICES ASSUME StreamInv, Write PROVE StreamInv' OBVIOUS
<1> USE DEF StreamInv
<1>1. PICK r \in Request :
        /\ asked' = Append(asked, [at |-> written, size |-> r.size, announced |-> r.announced])
        /\ written' = written + HEADER + r.size
        /\ faults' = faults \cup IF r.announced = r.size THEN {} ELSE {"misannounced"}
    BY DEF Write
<1>2. r.size \in Nat /\ r.announced \in Nat OBVIOUS
<1>3. [at |-> written, size |-> r.size, announced |-> r.announced] \in Sent
    BY <1>2 DEF Types, Sent
<1>9. asked' \in Seq(Sent) BY <1>1, <1>3, AppendProperties DEF Types
<1>4. faults' \in SUBSET {"cut", "misannounced", "silent"} BY <1>1 DEF Types
<1>5. written' \in Nat /\ read' \in 0..written'
    <2>1. written \in Nat /\ read \in 0..written /\ read' = read BY DEF Write, Types
    <2> QED BY <1>1, <1>2, <2>1
<1>6. Types' BY <1>9, <1>4, <1>5 DEF Write, Types
<1>7. Layout'
    <2>1. asked \in Seq(Sent) /\ written \in Nat BY DEF Types
    <2>2. /\ DOMAIN asked' = 1..(Len(asked) + 1) /\ DOMAIN asked = 1..Len(asked) /\ Len(asked) \in Nat
          /\ \A k \in DOMAIN asked : asked'[k] = asked[k]
          /\ asked'[Len(asked) + 1] = [at |-> written, size |-> r.size, announced |-> r.announced]
        BY <1>1, <1>3, <2>1, AppendProperties
    <2>3. \A k \in DOMAIN asked : /\ asked'[k] = asked[k]
                                  /\ asked[k].at \in Nat /\ asked[k].size \in Nat
                                  /\ asked[k].at < written /\ asked[k].at + HEADER + asked[k].size <= written
        <3> TAKE k \in DOMAIN asked
        <3>1. asked[k].at \in Nat /\ asked[k].size \in Nat BY <2>1, SentHasType
        <3> QED BY <2>1, <2>2, <3>1 DEF Layout
    <2>4. asked'[Len(asked) + 1].at = written /\ asked'[Len(asked) + 1].size = r.size
        BY <2>2
    <2>5. ASSUME NEW k \in DOMAIN asked'
          PROVE  asked'[k].at + HEADER + asked'[k].size <= written'
        <3>1. CASE k \in DOMAIN asked BY <3>1, <1>1, <1>2, <2>1, <2>3
        <3>2. CASE k = Len(asked) + 1 BY <3>2, <1>1, <1>2, <2>1, <2>4
        <3> QED BY <3>1, <3>2, <2>2
    <2>6. ASSUME NEW j \in DOMAIN asked', NEW k \in DOMAIN asked', j < k
          PROVE  asked'[j].at < asked'[k].at
        <3>1. j \in DOMAIN asked BY <2>2, <2>6
        <3>2. CASE k \in DOMAIN asked BY <3>1, <3>2, <2>3, <2>6 DEF Layout
        <3>3. CASE k = Len(asked) + 1 BY <3>1, <3>3, <2>3, <2>4
        <3> QED BY <3>2, <3>3, <2>2
    <2> QED BY <2>5, <2>6 DEF Layout
<1>8. Position' BY DEF Write, Position
<1> QED BY <1>6, <1>7, <1>8

LEMMA ReadSomeStream == StreamInv /\ ReadSome => StreamInv'
<1> SUFFICES ASSUME StreamInv, ReadSome PROVE StreamInv' OBVIOUS
<1> USE DEF StreamInv
<1>1. PICK n \in 1..Least(MAX_REPLY_LEN, Len(back)) :
        /\ taken' = SubSeq(back, 1, n)
        /\ back' = SubSeq(back, n + 1, Len(back))
        /\ faults' = faults \cup Cut(n, MAX_REPLY_LEN, Len(back))
    BY DEF ReadSome
<1>2. n \in 1..Len(back) /\ Len(back) \in Nat BY <1>1 DEF Least, Types
<1>3. taken' \in Seq(Nat) /\ back' \in Seq(Nat)
    <2>1. back \in Seq(Nat) BY DEF Types
    <2>2. SubSeq(back, 1, n) \in Seq(Nat) BY <1>2, <2>1
    <2>3. SubSeq(back, n + 1, Len(back)) \in Seq(Nat) BY <1>2, <2>1
    <2> QED BY <1>1, <2>2, <2>3
<1>4. faults' \in SUBSET {"cut", "misannounced", "silent"} BY <1>1 DEF Cut, Types
<1> QED BY <1>3, <1>4 DEF ReadSome, Types, Position, Layout

LEMMA StreamStep == StreamInv /\ [Next]_vars => StreamInv'
<1> SUFFICES ASSUME StreamInv, [Next]_vars PROVE StreamInv' OBVIOUS
<1>1. CASE EndOfStream
    BY <1>1 DEF EndOfStream, StreamInv, Types, Position, Layout, AtHeader, Ended, clientVars
<1>2. CASE ServerClosed \/ Close \/ UNCHANGED vars
    BY <1>2 DEF ServerClosed, Close, vars, StreamInv, Types, Position, Layout
<1> QED BY <1>1, <1>2, RecvHeaderStream, RecvPayloadStream, SetPayloadStream, WriteStream,
           ReadSomeStream DEF Next, Thread

\* Every variable has its type, whatever the lengths and the requests.
THEOREM FramingTypeCorrect == Spec => []TypeOK
<1>1. StreamInv => TypeOK BY DEF StreamInv, TypeOK
<1> QED BY StreamInit, StreamStep, <1>1, PTL DEF Spec

----------------------------------------------------------------------------
(* Payloads longer than announced *)

\* In a request's payload, and as long as no read was cut, the thread has whole
\* blocks or everything that was sent.
Blocks == "cut" \notin faults /\ thread.pc = "payload" =>
    \A k \in DOMAIN asked : thread.from = asked[k].at =>
        thread.got = thread.i * BUFFER_SIZE \/ thread.got >= asked[k].size

\* What was handled has been read.
Before == \A h \in DOMAIN handled : handled[h].from + HEADER <= read

CutInv == Blocks /\ Before /\ CutAtBlock

LEMMA FaultsStay == [Next]_vars => faults \subseteq faults'
BY DEF Next, vars, Thread, RecvHeader, RecvPayload, SetPayload, EndOfStream, Write, ReadSome,
       ServerClosed, Close, Cut

LEMMA ThreadFields ==
    ASSUME Types, thread.pc = "payload"
    PROVE  /\ thread \in Receiving
           /\ thread.from \in Nat /\ thread.need \in Nat /\ thread.i \in Nat /\ thread.got \in Nat
<1>1. thread \in Receiving BY DEF Types, AtHeader, Ended
<1> QED BY <1>1 DEF Receiving

LEMMA HandledHasType ==
    ASSUME handled \in Seq(Handled), NEW h \in DOMAIN handled
    PROVE  handled[h].from \in Nat /\ handled[h].size \in Nat
<1>1. DOMAIN handled = 1..Len(handled) OBVIOUS
<1>2. handled[h] \in Handled BY <1>1, ElementOfSeq
<1> QED BY <1>2 DEF Handled

\* A turn of the loop after which the thread is still in the payload.
LEMMA TurnOfLoop ==
    ASSUME StreamInv, NEW n \in Received(Asked), RecvPayload, thread' # AtHeader,
           thread' = IF thread.got + n > thread.need THEN AtHeader
                     ELSE [thread EXCEPT !.i = @ + 1, !.got = @ + n]
    PROVE  /\ thread'.pc = "payload" /\ thread'.from = thread.from /\ thread'.need = thread.need
           /\ thread'.i = thread.i + 1 /\ thread'.got = thread.got + n
           /\ thread.got + n <= thread.need
<1>1. /\ thread \in Receiving
      /\ thread.need \in Nat /\ thread.i \in Nat /\ thread.got \in Nat
    BY ThreadFields DEF RecvPayload, TooLong, StreamInv
<1>2. n \in Nat BY ReceivedBounds DEF StreamInv, Types, Asked
<1> DEFINE turns == thread.i + 1
           bytes == thread.got + n
<1>3. thread' = [thread EXCEPT !.i = turns, !.got = bytes] /\ bytes <= thread.need
    BY <1>1, <1>2
<1>4. turns = thread.i + 1 /\ bytes = thread.got + n OBVIOUS
<1> HIDE DEF turns, bytes
<1>5. /\ thread'.pc = "payload" /\ thread'.from = thread.from /\ thread'.need = thread.need
      /\ thread'.i = turns /\ thread'.got = bytes
    BY <1>1, <1>3 DEF Receiving
<1> QED BY <1>3, <1>4, <1>5

LEMMA CutInit == Init => CutInv
BY DEF Init, CutInv, Blocks, Before, CutAtBlock, AtHeader

LEMMA RecvHeaderCut == StreamInv /\ CutInv /\ RecvHeader => CutInv'
<1> SUFFICES ASSUME StreamInv, CutInv, RecvHeader PROVE CutInv' OBVIOUS
<1>1. PICK n \in Received(HEADER) :
        /\ read' = read + n
        /\ \/ n < HEADER /\ UNCHANGED thread
           \/ /\ n = HEADER
              /\ \E size \in HeaderSize :
                    thread' = [pc |-> "payload", from |-> read, need |-> size, i |-> 0, got |-> 0]
    BY DEF RecvHeader
<1>2. n \in Nat /\ read \in Nat BY ReceivedBounds DEF StreamInv, Types
<1>3. faults \subseteq faults' BY FaultsStay DEF Next, Thread
<1>4. asked' = asked /\ handled' = handled BY DEF RecvHeader, clientVars
<1>5. Blocks'
    <2>1. CASE thread' = thread BY <2>1 DEF RecvHeader, Blocks
    <2>2. CASE thread' # thread
        <3>1. thread'.i = 0 /\ thread'.got = 0 BY <1>1, <2>2
        <3>2. thread'.got = thread'.i * BUFFER_SIZE BY <3>1
        <3> QED BY <3>2 DEF Blocks
    <2> QED BY <2>1, <2>2
<1>6. Before'
    <2> SUFFICES ASSUME NEW h \in DOMAIN handled PROVE handled[h].from + HEADER <= read'
        BY <1>4 DEF Before
    <2>1. handled[h].from \in Nat BY HandledHasType DEF StreamInv, Types
    <2> QED BY <2>1, <1>1, <1>2 DEF CutInv, Before
<1>7. CutAtBlock' BY <1>3, <1>4 DEF CutInv, CutAtBlock
<1> QED BY <1>5, <1>6, <1>7 DEF CutInv

LEMMA RecvPayloadCut == StreamInv /\ CutInv /\ RecvPayload => CutInv'
<1> SUFFICES ASSUME StreamInv, CutInv, RecvPayload PROVE CutInv' OBVIOUS
<1>1. PICK n \in Received(Asked) :
        /\ read' = read + n
        /\ faults' = faults \cup Cut(n, Asked, written - read)
        /\ thread' = IF thread.got + n > thread.need THEN AtHeader
                     ELSE [thread EXCEPT !.i = @ + 1, !.got = @ + n]
    BY DEF RecvPayload, TooLong
<1>2. n \in Nat /\ n <= BUFFER_SIZE /\ read \in Nat /\ read + n <= written /\ written \in Nat
    BY ReceivedBounds DEF StreamInv, Types, Asked
<1>3. faults \subseteq faults' BY <1>1
<1>4. asked' = asked /\ handled' = handled BY DEF RecvPayload, TooLong, clientVars
<1>5. Blocks'
    <2> SUFFICES ASSUME "cut" \notin faults', thread' # AtHeader, NEW k \in DOMAIN asked,
                        thread'.from = asked[k].at
                 PROVE  thread'.got = thread'.i * BUFFER_SIZE \/ thread'.got >= asked[k].size
        BY <1>4 DEF Blocks, AtHeader
    <2>1. /\ thread.pc = "payload" /\ thread.i \in Nat /\ thread.got \in Nat /\ thread.from \in Nat
        BY ThreadFields DEF RecvPayload, TooLong, StreamInv
    <2>2. /\ thread'.from = thread.from /\ thread'.i = thread.i + 1 /\ thread'.got = thread.got + n
        BY <1>1, TurnOfLoop
    <2>3. /\ asked[k].at \in Nat /\ asked[k].size \in Nat
          /\ asked[k].at + HEADER + asked[k].size <= written
        BY SentHasType DEF StreamInv, Types, Layout
    <2>4. thread.got = thread.i * BUFFER_SIZE \/ thread.got >= asked[k].size
        BY <1>3, <2>1, <2>2 DEF CutInv, Blocks
    <2>5. n = BUFFER_SIZE \/ n = written - read
        BY <1>1, <1>2 DEF Cut, Least, Asked
    <2> DEFINE goal == thread'.got = thread'.i * BUFFER_SIZE \/ thread'.got >= asked[k].size
               whole == thread.got = thread.i * BUFFER_SIZE
               past == thread.got >= asked[k].size
    <2>6. past => goal BY <2>1, <2>2, <2>3, <1>2
    <2>7. whole /\ n = BUFFER_SIZE => goal
        <3>1. (thread.i + 1) * BUFFER_SIZE = thread.i * BUFFER_SIZE + BUFFER_SIZE BY <2>1
        <3> QED BY <3>1, <2>2
    <2>8. n = written - read => goal
        <3>1. read = thread.from + HEADER + thread.got BY <2>1 DEF StreamInv, Position
        <3> QED BY <3>1, <2>1, <2>2, <2>3, <1>2
    <2>9. whole \/ past BY <2>4
    <2> HIDE DEF goal, whole, past
    <2>10. goal BY <2>5, <2>6, <2>7, <2>8, <2>9
    <2> QED BY <2>10 DEF goal
<1>6. Before'
    <2> SUFFICES ASSUME NEW h \in DOMAIN handled PROVE handled[h].from + HEADER <= read'
        BY <1>4 DEF Before
    <2>1. handled[h].from \in Nat BY HandledHasType DEF StreamInv, Types
    <2> QED BY <2>1, <1>1, <1>2 DEF CutInv, Before
<1>7. CutAtBlock' BY <1>3, <1>4 DEF CutInv, CutAtBlock
<1> QED BY <1>5, <1>6, <1>7 DEF CutInv

LEMMA SetPayloadCut == StreamInv /\ CutInv /\ SetPayload => CutInv'
<1> SUFFICES ASSUME StreamInv, CutInv, SetPayload PROVE CutInv' OBVIOUS
<1>1. faults \subseteq faults' BY FaultsStay DEF Next, Thread
<1>2. asked' = asked /\ read' = read BY DEF SetPayload, clientVars
<1>3. Blocks' BY DEF SetPayload, Blocks, AtHeader, Ended
<1>4. CASE handled' = handled
    BY <1>1, <1>2, <1>3, <1>4 DEF CutInv, Before, CutAtBlock
<1>5. CASE handled' # handled
    <2>1. /\ thread.pc = "payload" /\ thread \in Receiving
          /\ thread.i \in Nat /\ thread.got \in Nat /\ thread.from \in Nat /\ thread.need \in Nat
        BY ThreadFields DEF SetPayload, StreamInv
    <2> DEFINE new == [from |-> thread.from, size |-> thread.need]
    <2>2. thread.got = thread.need /\ handled' = Append(handled, new) BY <1>5 DEF SetPayload
    <2>3. new \in Handled /\ new.from = thread.from /\ new.size = thread.need BY <2>1 DEF Handled
    <2> HIDE DEF new
    <2>4. /\ DOMAIN handled' = 1..(Len(handled) + 1) /\ DOMAIN handled = 1..Len(handled)
          /\ Len(handled) \in Nat
          /\ \A h \in DOMAIN handled : handled'[h] = handled[h]
          /\ handled'[Len(handled) + 1] = new
        BY <2>2, <2>3, AppendProperties DEF StreamInv, Types
    <2>5. Before'
        <3> SUFFICES ASSUME NEW h \in DOMAIN handled' PROVE handled'[h].from + HEADER <= read
            BY <1>2 DEF Before
        <3>1. CASE h \in DOMAIN handled BY <3>1, <2>4 DEF CutInv, Before
        <3>2. CASE h = Len(handled) + 1
            BY <3>2, <2>1, <2>3, <2>4 DEF StreamInv, Position, Types
        <3> QED BY <3>1, <3>2, <2>4
    <2>6. CutAtBlock'
        <3> SUFFICES ASSUME "cut" \notin faults', NEW h \in DOMAIN handled', NEW k \in DOMAIN asked,
                            handled'[h].from = asked[k].at, handled'[h].size < asked[k].size
                     PROVE  \E blocks \in 0..handled'[h].size : handled'[h].size = blocks * BUFFER_SIZE
            BY <1>2 DEF CutAtBlock
        <3>1. CASE h \in DOMAIN handled BY <3>1, <1>1, <2>4 DEF CutInv, CutAtBlock
        <3>2. CASE h = Len(handled) + 1
            <4>1. handled'[h].from = thread.from /\ handled'[h].size = thread.need
                BY <3>2, <2>3, <2>4
            <4>2. asked[k].size \in Nat BY SentHasType DEF StreamInv, Types
            <4>5. "cut" \notin faults BY <1>1
            <4>6. ~(thread.got >= asked[k].size) BY <4>1, <4>2, <2>1, <2>2
            <4>7. thread.from = asked[k].at BY <4>1
            <4>3. thread.got = thread.i * BUFFER_SIZE
                BY <4>5, <4>6, <4>7, <2>1, Zenon DEF CutInv, Blocks
            <4>4. thread.i \in 0..thread.need BY <2>1, <2>2 DEF StreamInv, Position
            <4> QED BY <4>1, <4>3, <4>4, <2>2
        <3> QED BY <3>1, <3>2, <2>4
    <2> QED BY <1>3, <2>5, <2>6 DEF CutInv
<1> QED BY <1>4, <1>5

LEMMA WriteCut == StreamInv /\ CutInv /\ Write => CutInv'
<1> SUFFICES ASSUME StreamInv, CutInv, Write PROVE CutInv' OBVIOUS
<1>1. PICK r \in Request :
        asked' = Append(asked, [at |-> written, size |-> r.size, announced |-> r.announced])
    BY DEF Write
<1>2. faults \subseteq faults' BY FaultsStay DEF Next
<1>3. handled' = handled /\ read' = read /\ thread' = thread BY DEF Write
<1>4. [at |-> written, size |-> r.size, announced |-> r.announced] \in Sent
    BY DEF Sent, StreamInv, Types
<1>5. /\ DOMAIN asked' = 1..(Len(asked) + 1) /\ DOMAIN asked = 1..Len(asked)
      /\ \A k \in DOMAIN asked : asked'[k] = asked[k]
      /\ asked'[Len(asked) + 1].at = written
    BY <1>1, <1>4, AppendProperties DEF StreamInv, Types
<1>6. written \in Nat /\ read \in 0..written BY DEF StreamInv, Types
<1>7. Blocks'
    <2> SUFFICES ASSUME "cut" \notin faults, thread.pc = "payload", NEW k \in DOMAIN asked',
                        thread.from = asked'[k].at
                 PROVE  thread.got = thread.i * BUFFER_SIZE \/ thread.got >= asked'[k].size
        BY <1>2, <1>3 DEF Blocks
    <2>1. thread.from < written
        BY ThreadFields, <1>6 DEF StreamInv, Position
    <2>2. k \in DOMAIN asked BY <2>1, <1>5, <1>6
    <2> QED BY <2>2, <1>5 DEF CutInv, Blocks
<1>8. Before' BY <1>3 DEF CutInv, Before
<1>9. CutAtBlock'
    <2> SUFFICES ASSUME "cut" \notin faults, NEW h \in DOMAIN handled, NEW k \in DOMAIN asked',
                        handled[h].from = asked'[k].at, handled[h].size < asked'[k].size
                 PROVE  \E blocks \in 0..handled[h].size : handled[h].size = blocks * BUFFER_SIZE
        BY <1>2, <1>3 DEF CutAtBlock
    <2>1. handled[h].from \in Nat /\ handled[h].from + HEADER <= read
        BY HandledHasType DEF StreamInv, Types, CutInv, Before
    <2>2. k \in DOMAIN asked BY <2>1, <1>5, <1>6
    <2> QED BY <2>2, <1>5 DEF CutInv, CutAtBlock
<1> QED BY <1>7, <1>8, <1>9 DEF CutInv

LEMMA CutStep == StreamInv /\ CutInv /\ [Next]_vars => CutInv'
<1> SUFFICES ASSUME StreamInv, CutInv, [Next]_vars PROVE CutInv' OBVIOUS
<1>1. CASE EndOfStream
    BY <1>1 DEF EndOfStream, CutInv, Blocks, Before, CutAtBlock, AtHeader, Ended, clientVars
<1>2. CASE ReadSome \/ ServerClosed \/ Close \/ UNCHANGED vars
    BY <1>2, FaultsStay DEF ReadSome, ServerClosed, Close, vars, CutInv, Blocks, Before, CutAtBlock
<1> QED BY <1>1, <1>2, RecvHeaderCut, RecvPayloadCut, SetPayloadCut, WriteCut DEF Next, Thread

\* A payload longer than announced reaches a handler only at a block's end, for
\* every block size: the check on the length of the payload sees all the others.
THEOREM CutsAtBlocks == Spec => []CutAtBlock
<1>1. CutInv => CutAtBlock BY DEF CutInv
<1> QED BY StreamInit, StreamStep, CutInit, CutStep, <1>1, PTL DEF Spec

----------------------------------------------------------------------------
(* In step *)

\* Every header carries the size of its payload.
Honest == \A k \in DOMAIN asked : asked[k].announced = asked[k].size

\* The requests handled so far are the client's, as it sent them.
InOrder ==
    /\ Len(asked) \in {Len(handled), Len(handled) + 1}
    /\ \A k \in DOMAIN handled :
        handled[k].from = asked[k].at /\ handled[k].size = asked[k].size

\* All are handled, and the server has read all there is.
AllDone == Len(handled) = Len(asked) /\ thread.pc # "payload" /\ (thread = AtHeader => read = written)

\* The last one is at its header, in its payload, or came after the thread's end.
OneToDo ==
    /\ Len(asked) = Len(handled) + 1
    /\ asked[Len(asked)].at + HEADER + asked[Len(asked)].size = written
    /\ thread = AtHeader => read = asked[Len(asked)].at
    /\ thread.pc = "payload" =>
        /\ thread.from = asked[Len(asked)].at
        /\ thread.need = asked[Len(asked)].size
        /\ thread.got = Least(thread.i * BUFFER_SIZE, thread.need)

\* No reply is under way but the one to the last request.
Replies ==
    /\ client = "idle" => AllDone /\ back = << >> /\ (asked # << >> => taken = Reply)
    /\ client = "waiting" /\ OneToDo => back = << >>
    /\ client = "waiting" /\ AllDone => back = Reply \/ back = << >>

StepInv == faults = {} => Honest /\ InOrder /\ (AllDone \/ OneToDo) /\ Replies

LEMMA StepInit == Init => StepInv
BY DEF Init, StepInv, Honest, InOrder, AllDone, Replies, AtHeader

LEMMA RecvHeaderStep ==
    ASSUME StreamInv, StepInv, RecvHeader, faults' = {} PROVE StepInv'
<1>1. PICK n \in Received(HEADER) :
        /\ read' = read + n
        /\ faults' = faults \cup Cut(n, HEADER, written - read)
        /\ \/ n < HEADER /\ UNCHANGED thread
           \/ /\ n = HEADER
              /\ \E size \in HeaderSize :
                    thread' = [pc |-> "payload", from |-> read, need |-> size, i |-> 0, got |-> 0]
    BY DEF RecvHeader
<1>2. /\ n \in Nat /\ 0 < n /\ n <= HEADER /\ read \in Nat /\ written \in Nat /\ read + n <= written
    BY ReceivedBounds DEF StreamInv, Types
<1>3. faults = {} /\ Cut(n, HEADER, written - read) = {} BY <1>1
<1>4. Honest /\ InOrder /\ (AllDone \/ OneToDo) /\ Replies BY <1>3 DEF StepInv
<1>5. thread = AtHeader BY DEF RecvHeader, StreamInv, Types, Receiving, Ended
<1>6. OneToDo /\ ~AllDone BY <1>2, <1>4, <1>5 DEF AllDone
<1> DEFINE last == Len(asked)
<1>7. last \in DOMAIN asked /\ Len(handled) \in Nat
    BY <1>6 DEF OneToDo, StreamInv, Types
<1>8. asked[last].at \in Nat /\ asked[last].size \in Nat /\ asked[last].announced = asked[last].size
    BY <1>4, <1>7, SentHasType DEF StreamInv, Types, Honest
<1>9. read = asked[last].at /\ asked[last].at + HEADER + asked[last].size = written
    BY <1>5, <1>6 DEF OneToDo
<1>10. n = HEADER
    <2> DEFINE size == asked[last].size
    <2>3. size \in Nat /\ read + HEADER + size = written BY <1>8, <1>9
    <2> HIDE DEF size
    <2>1. written - read = HEADER + size BY <1>2, <2>3
    <2>4. HEADER <= written - read BY <2>1, <2>3
    <2>2. Least(HEADER, written - read) = HEADER BY <2>4 DEF Least
    <2> QED BY <1>2, <1>3, <2>2 DEF Cut
<1>11. HeaderSize = {asked[last].size}
    <2>1. ASSUME NEW k \in DOMAIN asked, asked[k].at = read PROVE k = last
        <3>1. k \in 1..last /\ last \in Nat BY <1>7 DEF StreamInv, Types
        <3>2. k < last => asked[k].at < asked[last].at BY <1>7 DEF StreamInv, Layout
        <3>3. asked[k].at \in Nat BY SentHasType DEF StreamInv, Types
        <3> QED BY <2>1, <3>1, <3>2, <3>3, <1>8, <1>9
    <2>2. {k \in DOMAIN asked : asked[k].at = read} = {last} BY <2>1, <1>7, <1>9
    <2> QED BY <2>2, <1>8 DEF HeaderSize
<1>12. thread' = [pc |-> "payload", from |-> asked[last].at, need |-> asked[last].size, i |-> 0, got |-> 0]
    BY <1>1, <1>2, <1>9, <1>10, <1>11
<1>13. /\ thread'.pc = "payload" /\ thread'.from = asked[last].at /\ thread'.need = asked[last].size
       /\ thread'.got = 0 /\ thread'.i = 0 /\ thread' # AtHeader
    BY <1>12 DEF AtHeader
<1>14. 0 = Least(0 * BUFFER_SIZE, asked[last].size) BY <1>8 DEF Least
<1>15. UNCHANGED <<client, asked, written, handled, back, taken>> BY DEF RecvHeader, clientVars
<1>16. OneToDo' /\ ~AllDone' BY <1>6, <1>13, <1>14, <1>15 DEF OneToDo, AllDone
<1>17. Replies' BY <1>4, <1>6, <1>15, <1>16 DEF Replies, AllDone
<1>18. Honest' /\ InOrder' BY <1>4, <1>15 DEF Honest, InOrder
<1> QED BY <1>16, <1>17, <1>18 DEF StepInv

LEMMA RecvPayloadStep ==
    ASSUME StreamInv, StepInv, RecvPayload, faults' = {} PROVE StepInv'
<1>1. PICK n \in Received(Asked) :
        /\ read' = read + n
        /\ faults' = faults \cup Cut(n, Asked, written - read)
        /\ thread' = IF thread.got + n > thread.need THEN AtHeader
                     ELSE [thread EXCEPT !.i = @ + 1, !.got = @ + n]
    BY DEF RecvPayload, TooLong
<1>2. /\ n \in Nat /\ 0 < n /\ n <= BUFFER_SIZE /\ read \in Nat /\ written \in Nat
      /\ read + n <= written
    BY ReceivedBounds DEF StreamInv, Types, Asked
<1>3. faults = {} /\ Cut(n, Asked, written - read) = {} BY <1>1
<1>4. Honest /\ InOrder /\ (AllDone \/ OneToDo) /\ Replies BY <1>3 DEF StepInv
<1>5. /\ thread.pc = "payload" /\ thread.from \in Nat /\ thread.need \in Nat
      /\ thread.i \in Nat /\ thread.got \in Nat
    BY ThreadFields DEF RecvPayload, TooLong, StreamInv
<1>6. OneToDo BY <1>4, <1>5 DEF AllDone
<1> DEFINE room == thread.i * BUFFER_SIZE
<1>7. room \in Nat /\ room < thread.need /\ (thread.i + 1) * BUFFER_SIZE = room + BUFFER_SIZE
    BY <1>5 DEF RecvPayload, TooLong, Looping
<1>8. thread.got = Least(room, thread.need) BY <1>5, <1>6 DEF OneToDo
<1>9. written - read = thread.need - thread.got
    <2>1. read = thread.from + HEADER + thread.got BY <1>5 DEF StreamInv, Position
    <2>2. thread.from + HEADER + thread.need = written BY <1>5, <1>6 DEF OneToDo
    <2> QED BY <2>1, <2>2, <1>5
<1>10. n = Least(BUFFER_SIZE, written - read) BY <1>2, <1>3 DEF Cut, Least, Asked
<1> HIDE DEF room
<1>11. thread.got = room BY <1>5, <1>7, <1>8 DEF Least
<1>12. room + n = Least(room + BUFFER_SIZE, thread.need) /\ room + n <= thread.need
    BY <1>2, <1>5, <1>7, <1>9, <1>10, <1>11 DEF Least
<1>13. thread' # AtHeader
    <2>1. thread' = [thread EXCEPT !.i = @ + 1, !.got = @ + n] BY <1>1, <1>2, <1>5, <1>7, <1>11, <1>12
    <2>2. thread'.pc = "payload" BY <2>1, ThreadFields DEF RecvPayload, TooLong, StreamInv, Receiving
    <2> QED BY <2>2 DEF AtHeader
<1>14. /\ thread'.pc = "payload" /\ thread'.from = thread.from /\ thread'.need = thread.need
       /\ thread'.i = thread.i + 1 /\ thread'.got = thread.got + n
    BY <1>1, <1>13, TurnOfLoop
<1>15. thread'.got = Least(thread'.i * BUFFER_SIZE, thread'.need)
    BY <1>7, <1>11, <1>12, <1>14
<1>16. UNCHANGED <<client, asked, written, handled, back, taken>> BY DEF RecvPayload, TooLong, clientVars
<1>17. OneToDo' /\ ~AllDone'
    BY <1>5, <1>6, <1>13, <1>14, <1>15, <1>16 DEF OneToDo, AllDone
<1>18. Replies'
    <2>1. ~AllDone BY <1>5 DEF AllDone
    <2>2. client # "idle" /\ (client = "waiting" => back = << >>) BY <1>4, <1>6, <2>1 DEF Replies
    <2> QED BY <2>2, <1>16, <1>17 DEF Replies
<1>19. Honest' /\ InOrder' BY <1>4, <1>16 DEF Honest, InOrder
<1> QED BY <1>17, <1>18, <1>19 DEF StepInv

LEMMA SetPayloadStep ==
    ASSUME StreamInv, StepInv, SetPayload, faults' = {} PROVE StepInv'
<1>1. faults = {} BY FaultsStay DEF Next, Thread
<1>2. Honest /\ InOrder /\ (AllDone \/ OneToDo) /\ Replies BY <1>1 DEF StepInv
<1>3. /\ thread.pc = "payload" /\ thread.from \in Nat /\ thread.need \in Nat
      /\ thread.i \in Nat /\ thread.got \in Nat
    BY ThreadFields DEF SetPayload, StreamInv
<1>4. OneToDo /\ ~AllDone BY <1>2, <1>3 DEF AllDone
<1>5. thread.got = thread.need
    <2> DEFINE room == thread.i * BUFFER_SIZE
    <2>1. room \in Nat /\ ~(room < thread.need) BY <1>3 DEF SetPayload, Looping
    <2>2. thread.got = Least(room, thread.need) BY <1>3, <1>4 DEF OneToDo
    <2> HIDE DEF room
    <2> QED BY <2>1, <2>2, <1>3 DEF Least
<1> DEFINE new == [from |-> thread.from, size |-> thread.need]
<1>6. /\ handled' = Append(handled, new)
      /\ \E answers, ends \in BOOLEAN :
            /\ back' = IF answers THEN back \o Reply ELSE back
            /\ thread' = IF ends THEN Ended ELSE AtHeader
            /\ faults' = faults \cup IF answers \/ ends THEN {} ELSE {"silent"}
    BY <1>5 DEF SetPayload
<1>7. UNCHANGED <<client, asked, written, taken, read>> BY DEF SetPayload, clientVars
<1>8. new \in Handled /\ new.from = asked[Len(asked)].at /\ new.size = asked[Len(asked)].size
    BY <1>3, <1>4 DEF Handled, OneToDo
<1> HIDE DEF new
<1>9. /\ Len(handled) \in Nat /\ Len(handled') = Len(handled) + 1 /\ Len(handled') = Len(asked)
      /\ DOMAIN handled' = 1..(Len(handled) + 1) /\ DOMAIN handled = 1..Len(handled)
      /\ \A k \in DOMAIN handled : handled'[k] = handled[k]
      /\ handled'[Len(handled) + 1] = new
    BY <1>4, <1>6, <1>8, AppendProperties DEF OneToDo, StreamInv, Types
<1>10. InOrder'
    <2>1. Len(asked') \in {Len(handled'), Len(handled') + 1} BY <1>7, <1>9
    <2>2. ASSUME NEW k \in DOMAIN handled'
          PROVE  handled'[k].from = asked[k].at /\ handled'[k].size = asked[k].size
        <3>1. CASE k \in DOMAIN handled BY <3>1, <1>2, <1>9 DEF InOrder
        <3>2. CASE k = Len(handled) + 1 BY <3>2, <1>8, <1>9
        <3> QED BY <3>1, <3>2, <1>9
    <2> QED BY <2>1, <2>2, <1>7 DEF InOrder
<1>11. AllDone' /\ ~OneToDo'
    <2>1. thread'.pc # "payload" BY <1>6 DEF AtHeader, Ended
    <2>2. read = written
        BY <1>3, <1>4, <1>5 DEF StreamInv, Position, OneToDo
    <2>3. Len(handled') = Len(asked') /\ Len(asked') \in Nat BY <1>7, <1>9
    <2> QED BY <2>1, <2>2, <2>3, <1>7 DEF AllDone, OneToDo
<1>12. Replies'
    <2>1. client # "idle" BY <1>2, <1>4 DEF Replies
    <2>2. ASSUME client = "waiting" PROVE back' = Reply \/ back' = << >>
        <3>1. back = << >> BY <2>2, <1>2, <1>4 DEF Replies
        <3>2. Reply \in Seq(Nat) BY DEF Reply, StreamInv, Types
        <3>3. << >> \o Reply = Reply BY <3>2
        <3> QED BY <3>1, <3>3, <1>6
    <2>3. Reply' = Reply BY <1>7 DEF Reply
    <2> QED BY <2>1, <2>2, <2>3, <1>7, <1>11 DEF Replies
<1>13. Honest' BY <1>2, <1>7 DEF Honest
<1> QED BY <1>10, <1>11, <1>12, <1>13 DEF StepInv

LEMMA WriteStep ==
    ASSUME StreamInv, StepInv, Write, faults' = {} PROVE StepInv'
<1>1. PICK r \in Request :
        /\ asked' = Append(asked, [at |-> written, size |-> r.size, announced |-> r.announced])
        /\ written' = written + HEADER + r.size
        /\ faults' = faults \cup IF r.announced = r.size THEN {} ELSE {"misannounced"}
    BY DEF Write
<1>2. faults = {} /\ r.announced = r.size /\ r.size \in Nat BY <1>1
<1>3. Honest /\ InOrder /\ Replies BY <1>2 DEF StepInv
<1>4. AllDone /\ back = << >> BY <1>3 DEF Write, Replies
<1> DEFINE new == [at |-> written, size |-> r.size, announced |-> r.announced]
<1>5. new \in Sent /\ new.at = written /\ new.size = r.size /\ new.announced = r.size
    BY <1>2 DEF Sent, StreamInv, Types
<1> HIDE DEF new
<1>6. asked' = Append(asked, new) BY <1>1 DEF new
<1>7. /\ Len(asked) \in Nat /\ Len(asked') = Len(asked) + 1 /\ Len(handled) = Len(asked)
      /\ DOMAIN asked' = 1..(Len(asked) + 1) /\ DOMAIN asked = 1..Len(asked)
      /\ DOMAIN handled = 1..Len(asked)
      /\ \A k \in DOMAIN asked : asked'[k] = asked[k]
      /\ asked'[Len(asked) + 1] = new
    BY <1>4, <1>5, <1>6, AppendProperties DEF AllDone, StreamInv, Types
<1>8. UNCHANGED <<read, thread, handled, back, taken>> /\ client' = "waiting" BY DEF Write
<1>9. Honest'
    <2> SUFFICES ASSUME NEW k \in DOMAIN asked' PROVE asked'[k].announced = asked'[k].size
        BY DEF Honest
    <2>1. CASE k \in DOMAIN asked BY <2>1, <1>3, <1>7 DEF Honest
    <2>2. CASE k = Len(asked) + 1 BY <2>2, <1>5, <1>7
    <2> QED BY <2>1, <2>2, <1>7
<1>10. InOrder' BY <1>3, <1>7, <1>8 DEF InOrder
<1>11. OneToDo' /\ ~AllDone'
    <2>1. Len(asked') = Len(handled') + 1 /\ Len(handled') \in Nat BY <1>7, <1>8
    <2>2. asked'[Len(asked')].at = written /\ asked'[Len(asked')].size = r.size BY <1>5, <1>7
    <2>3. thread'.pc # "payload" /\ (thread' = AtHeader => read' = written)
        BY <1>4, <1>8 DEF AllDone
    <2> QED BY <2>1, <2>2, <2>3, <1>1 DEF OneToDo, AllDone
<1>12. Replies' BY <1>4, <1>8, <1>11 DEF Replies
<1> QED BY <1>9, <1>10, <1>11, <1>12 DEF StepInv

LEMMA ReadSomeStep ==
    ASSUME StreamInv, StepInv, ReadSome, faults' = {} PROVE StepInv'
<1>1. PICK n \in 1..Least(MAX_REPLY_LEN, Len(back)) :
        /\ taken' = SubSeq(back, 1, n)
        /\ back' = SubSeq(back, n + 1, Len(back))
        /\ faults' = faults \cup Cut(n, MAX_REPLY_LEN, Len(back))
    BY DEF ReadSome
<1>2. faults = {} /\ Cut(n, MAX_REPLY_LEN, Len(back)) = {} BY <1>1
<1>3. Honest /\ InOrder /\ (AllDone \/ OneToDo) /\ Replies BY <1>2 DEF StepInv
<1>4. Len(back) \in Nat /\ n \in 1..Len(back) BY <1>1 DEF Least, StreamInv, Types
<1>5. back # << >> BY <1>4
<1>6. AllDone /\ back = Reply BY <1>3, <1>5 DEF ReadSome, Replies
<1>7. Reply \in Seq(Nat) /\ Len(Reply) = REPLY BY DEF Reply, StreamInv, Types
<1>8. n = REPLY BY <1>1, <1>2, <1>4, <1>6, <1>7 DEF Cut, Least
<1>9. taken' = Reply /\ back' = << >>
    <2>1. SubSeq(Reply, 1, REPLY) = Reply BY <1>7
    <2>2. SubSeq(Reply, REPLY + 1, REPLY) = << >> BY <1>7
    <2> QED BY <2>1, <2>2, <1>1, <1>6, <1>7, <1>8
<1>10. UNCHANGED <<asked, written, read, thread, handled>> /\ client' = "idle" BY DEF ReadSome
<1>11. AllDone' /\ Honest' /\ InOrder' BY <1>3, <1>6, <1>10 DEF AllDone, Honest, InOrder
<1>12. Reply' = Reply BY <1>10 DEF Reply
<1>13. Replies' BY <1>9, <1>10, <1>11, <1>12 DEF Replies
<1> QED BY <1>11, <1>13 DEF StepInv

LEMMA EndOfStreamStep ==
    ASSUME StreamInv, StepInv, EndOfStream, faults' = {} PROVE StepInv'
<1>1. /\ client' = "gone" /\ client = "gone" /\ read = written
      /\ UNCHANGED <<asked, written, handled, read, back, faults>>
    BY DEF EndOfStream, clientVars
<1>2. Honest /\ InOrder /\ (AllDone \/ OneToDo) BY <1>1 DEF StepInv
<1>3. thread.pc # "payload"
    <2> SUFFICES ASSUME thread.pc = "payload" PROVE FALSE OBVIOUS
    <2>1. /\ thread.from \in Nat /\ thread.need \in Nat /\ thread.i \in Nat /\ thread.got \in Nat
        BY ThreadFields DEF StreamInv
    <2>2. OneToDo BY <1>2 DEF AllDone
    <2> DEFINE room == thread.i * BUFFER_SIZE
    <2>3. room \in Nat /\ room < thread.need BY <2>1 DEF EndOfStream, Looping
    <2>4. thread.got = Least(room, thread.need) BY <2>2 DEF OneToDo
    <2> HIDE DEF room
    <2>5. thread.got < thread.need BY <2>1, <2>3, <2>4 DEF Least
    <2>6. read = thread.from + HEADER + thread.got BY DEF StreamInv, Position
    <2>7. thread.from + HEADER + thread.need = written BY <2>2 DEF OneToDo
    <2> QED BY <2>1, <2>5, <2>6, <2>7, <1>1
<1>4. thread' = Ended BY <1>3 DEF EndOfStream
<1>5. thread'.pc # "payload" /\ thread' # AtHeader BY <1>4 DEF Ended, AtHeader
<1>6. AllDone' \/ OneToDo' BY <1>1, <1>2, <1>5 DEF AllDone, OneToDo
<1>7. Honest' /\ InOrder' /\ Replies' BY <1>1, <1>2 DEF Honest, InOrder, Replies
<1> QED BY <1>6, <1>7 DEF StepInv

LEMMA StepStep == StreamInv /\ StepInv /\ [Next]_vars => StepInv'
<1> SUFFICES ASSUME StreamInv, StepInv, [Next]_vars, faults' = {} PROVE StepInv'
    BY DEF StepInv
<1>1. CASE ServerClosed \/ Close \/ UNCHANGED vars
    <2>1. UNCHANGED <<asked, written, read, thread, handled, back, taken, faults>>
        BY <1>1 DEF ServerClosed, Close, vars
    <2>2. client' = "gone" \/ client' = client BY <1>1 DEF ServerClosed, Close, vars
    <2> QED BY <2>1, <2>2 DEF StepInv, Honest, InOrder, AllDone, OneToDo, Replies, Reply
<1> QED BY <1>1, RecvHeaderStep, RecvPayloadStep, SetPayloadStep, EndOfStreamStep, WriteStep,
           ReadSomeStep DEF Next, Thread

\* Server and client stay in step as long as every read is whole, every size is
\* announced as it is and no handler is silent: whatever the lengths and the
\* requests, each request is handled once, whole and in its turn.
THEOREM StaysInStep == Spec => []InStep
<1>1. StepInv /\ StreamInv => InStep
    <2> SUFFICES ASSUME StepInv, StreamInv, faults = {} PROVE InStep BY DEF InStep
    <2>1. InOrder /\ (AllDone \/ OneToDo) BY DEF StepInv
    <2>2. thread = AtHeader => read \in {written} \cup {asked[k].at : k \in DOMAIN asked}
        <3>1. CASE AllDone BY <3>1 DEF AllDone
        <3>2. CASE OneToDo
            <4>1. Len(asked) \in DOMAIN asked BY <3>2 DEF OneToDo, StreamInv, Types
            <4> QED BY <3>2, <4>1 DEF OneToDo
        <3> QED BY <2>1, <3>1, <3>2
    <2> QED BY <2>1, <2>2 DEF InStep, InOrder
<1> QED BY StreamInit, StreamStep, StepInit, StepStep, <1>1, PTL DEF Spec

\* And the reply in the client's hands is the whole reply to its last request.
THEOREM RepliesAreOwn == Spec => []OwnReply
<1>1. StepInv => OwnReply BY DEF StepInv, OwnReply, Replies, Reply
<1> QED BY StreamInit, StreamStep, StepInit, StepStep, <1>1, PTL DEF Spec
=============================================================================
