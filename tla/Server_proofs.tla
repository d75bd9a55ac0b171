---------------------------- MODULE Server_proofs ----------------------------
(***************************************************************************)
(* Proofs about Server, for every value of its constants.  The threads use *)
(* the storage as MemoryManager says, so that what is proved of it holds   *)
(* in the server; and each thread keeps to the protocol.                   *)
(***************************************************************************)
EXTENDS Server, MemoryManager_proofs

USE TimesAssumption, GarbageAssumption, NoneAssumption

\* The well-formed requests a handler can be in the middle of.
KeyRequest == [code : {"PUBLIC_KEY"}, ID : ID, name : Name, usable : BOOLEAN]
SaveRequest(c) ==
    [code : {"SEND_FILE"}, ID : ID, fileName : FileName, content : Content, key : {c}]
VerdictRequest == [code : {"CRC_OK", "CRC_NOT_OK", "CRC_ERROR"}, ID : ID, fileName : FileName]

\* Where a thread s is says which request i it has in hand, what it expects and
\* how many files it has received.
Phase(c, s, i) ==
    /\ s.pc \in {"idle", "closed"} => i = None /\ s.expectedReq = "REGISTRATION"
    /\ s.pc = "signed" => i \in KeyRequest /\ s.expectedReq \in {"REGISTRATION", "PUBLIC_KEY"}
    /\ s.pc \in {"decrypted", "saving"} =>
         /\ i \in SaveRequest(c)
         /\ s.plaintext \in Content
         /\ s.expectedReq = "SEND_FILE" /\ s.repeats < TIMES
    /\ s.pc = "removing" => i \in VerdictRequest /\ s.expectedReq = "CRC_OK"
    /\ s.pc \in {"signed", "decrypted", "saving", "removing"} => i # None

Counted(s) ==
    /\ s.expectedReq = "CRC_OK" => s.repeats \in 1..TIMES
    /\ s.expectedReq \in {"REGISTRATION", "PUBLIC_KEY"} => s.repeats = 0

Expects(s, code) == s.expectedReq = code \/ s.pc = "closed"

\* Agreement of a thread s with the reply o it has sent.
Agrees(s, i, o) == o # None =>
    /\ i = None
    /\ o.code = "REGISTRATION_SUCCESS" => Expects(s, "PUBLIC_KEY")
    /\ o.code = "REGISTRATION_FAIL" => Expects(s, "REGISTRATION")
    /\ o.code = "SEND_AES" => Expects(s, "SEND_FILE")
    /\ o.code = "GOT_FILE_WITH_CRC" => Expects(s, "CRC_OK")
    /\ o.code = "RECEIVED_APPROVAL" => Expects(s, "SEND_FILE")

\* One connection: l is its link, s its thread, i its request, o its reply.
Thread(c, l, s, i, o) ==
    /\ l \in {"unused", "open", "shut"}
    /\ s \in Session
    /\ i \in Requests(c) \cup {None}
    /\ o \in Replies \cup {None}
    /\ l = "unused" => s.pc = "idle" /\ o = None
    /\ Phase(c, s, i)
    /\ Counted(s)
    /\ Agrees(s, i, o)

ThreadsInv ==
    /\ link \in [Conn -> {"unused", "open", "shut"}]
    /\ session \in [Conn -> Session]
    /\ DOMAIN inbox = Conn /\ inbox = [c \in Conn |-> inbox[c]]
    /\ DOMAIN outbox = Conn /\ outbox = [c \in Conn |-> outbox[c]]
    /\ \A c \in Conn : Thread(c, link[c], session[c], inbox[c], outbox[c])

\* The step leaves every connection but c as it is.
OnlyThread(c) ==
    /\ link' \in [Conn -> {"unused", "open", "shut"}]
    /\ session' \in [Conn -> Session]
    /\ inbox' = [d \in Conn |-> inbox'[d]]
    /\ outbox' = [d \in Conn |-> outbox'[d]]
    /\ \A d \in Conn : d # c =>
         /\ link'[d] = link[d] /\ session'[d] = session[d]
         /\ inbox'[d] = inbox[d] /\ outbox'[d] = outbox[d]

LEMMA OneThread ==
    ASSUME ThreadsInv, NEW c \in Conn, OnlyThread(c),
           Thread(c, link'[c], session'[c], inbox'[c], outbox'[c])
    PROVE  ThreadsInv'
<1>1. \A d \in Conn : Thread(d, link'[d], session'[d], inbox'[d], outbox'[d])
  <2> SUFFICES ASSUME NEW d \in Conn
               PROVE  Thread(d, link'[d], session'[d], inbox'[d], outbox'[d])
    OBVIOUS
  <2>1. CASE d = c
    BY <2>1
  <2>2. CASE d # c
    <3>1. Thread(d, link[d], session[d], inbox[d], outbox[d])
      BY DEF ThreadsInv
    <3> QED
      BY <2>2, <3>1 DEF OnlyThread
  <2> QED
    BY <2>1, <2>2
<1> QED
  BY <1>1 DEF ThreadsInv, OnlyThread

\* The four ways a step changes its thread.
LEMMA ThreadChanges ==
    ASSUME ThreadsInv, NEW c \in Conn, NEW s \in Session, NEW o
    PROVE  /\ Become(c, s) /\ UNCHANGED <<link, inbox, outbox>> =>
                OnlyThread(c) /\ session'[c] = s
           /\ Answer(c, o, s) => /\ OnlyThread(c) /\ session'[c] = s
                                 /\ link'[c] = link[c] /\ inbox'[c] = None /\ outbox'[c] = o
           /\ Silent(c, s) => /\ OnlyThread(c) /\ session'[c] = s
                              /\ link'[c] = link[c] /\ inbox'[c] = None
                              /\ outbox'[c] = outbox[c]
  BY DEF ThreadsInv, Become, Answer, Silent, Finish, OnlyThread

\* Which request a handler has, from its code.
LEMMA RequestOfCode ==
    ASSUME NEW c \in Conn, NEW i \in Requests(c), i \notin IllegalRequests
    PROVE  /\ i.code = "REGISTRATION" => i.name \in Name
           /\ i.code = "PUBLIC_KEY" => i \in KeyRequest
           /\ i.code = "SEND_FILE" => i \in SaveRequest(c)
           /\ i.code \in {"CRC_OK", "CRC_NOT_OK", "CRC_ERROR"} => i \in VerdictRequest
  BY DEF Requests, KeyRequest, SaveRequest, VerdictRequest

\* A handler starts with a well-formed request the thread expects.
LEMMA Started ==
    ASSUME ThreadsInv, NEW c \in Conn, NEW codes, Starts(c, codes)
    PROVE  /\ session[c] \in Session /\ session[c].pc = "receiving"
           /\ inbox[c] \in Requests(c) /\ inbox[c] \notin IllegalRequests
           /\ inbox[c].code \in codes
           /\ outbox[c] = None
           /\ link[c] # "unused"
           /\ Counted(session[c])
<1>1. Thread(c, link[c], session[c], inbox[c], outbox[c])
  BY DEF ThreadsInv
<1> QED
  BY <1>1 DEF Starts, Handling, Thread, Agrees

\* Leaving the request without an answer and receiving again keeps the protocol.
LEMMA RaiseThread ==
    ASSUME ThreadsInv, NEW c \in Conn, Raise(c), inbox[c] # None
    PROVE  ThreadsInv'
<1> DEFINE s == [session[c] EXCEPT !.pc = "receiving", !.plaintext = None]
<1>1. Thread(c, link[c], session[c], inbox[c], outbox[c])
  BY DEF ThreadsInv
<1>2. /\ s \in Session /\ s.pc = "receiving"
      /\ s.expectedReq = session[c].expectedReq /\ s.repeats = session[c].repeats
  BY <1>1 DEF Thread, Session
<1>3. /\ OnlyThread(c) /\ session'[c] = s
      /\ link'[c] = link[c] /\ inbox'[c] = None /\ outbox'[c] = outbox[c]
  BY <1>2, ThreadChanges DEF Raise
<1>4. outbox[c] = None /\ link[c] # "unused"
  BY <1>1 DEF Thread, Agrees, Phase
<1>5. Thread(c, link[c], s, None, None)
  BY <1>1, <1>2, <1>4 DEF Thread, Phase, Counted, Agrees
<1> QED
  BY <1>3, <1>4, <1>5, OneThread

LEMMA ClosedSession ==
    /\ NewSession("closed") \in Session /\ NewSession("closed").pc = "closed"
    /\ NewSession("closed").expectedReq = "REGISTRATION"
    /\ NewSession("closed").repeats = 0
  BY DEF NewSession, Session

\* So does ending the connection, with an answer or without.
LEMMA ClosedThread ==
    ASSUME NEW c \in Conn, NEW l \in {"open", "shut"}, NEW o \in Replies \cup {None}
    PROVE  Thread(c, l, NewSession("closed"), None, o)
  BY ClosedSession DEF Thread, Phase, Counted, Agrees, Expects

LEMMA GiveUpThread ==
    ASSUME ThreadsInv, NEW c \in Conn, GiveUp(c), inbox[c] # None
    PROVE  ThreadsInv'
<1>1. Thread(c, link[c], session[c], inbox[c], outbox[c])
  BY DEF ThreadsInv
<1>2. /\ OnlyThread(c) /\ session'[c] = NewSession("closed")
      /\ link'[c] = link[c] /\ inbox'[c] = None /\ outbox'[c] = outbox[c]
  BY ClosedSession, ThreadChanges DEF GiveUp
<1>3. link[c] \in {"open", "shut"} /\ outbox[c] \in Replies \cup {None}
  BY <1>1 DEF Thread, Phase
<1> QED
  BY <1>2, <1>3, ClosedThread, OneThread

\* An answer that agrees with what the thread expects from then on.
LEMMA AnswerThread ==
    ASSUME ThreadsInv, NEW c \in Conn, NEW s \in Session, NEW o \in Replies,
           inbox[c] # None, s.pc = "receiving", Counted(s), Agrees(s, None, o),
           Answer(c, o, s)
    PROVE  ThreadsInv'
<1>1. Thread(c, link[c], session[c], inbox[c], outbox[c])
  BY DEF ThreadsInv
<1>2. link[c] \in {"open", "shut"}
  BY <1>1 DEF Thread, Phase
<1>3. Thread(c, link[c], s, None, o)
  BY <1>2 DEF Thread, Phase
<1> QED
  BY <1>3, ThreadChanges, OneThread

\* Going on to the next step of a handler.
LEMMA BecomeThread ==
    ASSUME ThreadsInv, NEW c \in Conn, NEW s \in Session,
           inbox[c] # None, Phase(c, s, inbox[c]), Counted(s),
           Become(c, s), UNCHANGED <<link, inbox, outbox>>
    PROVE  ThreadsInv'
<1>1. Thread(c, link[c], session[c], inbox[c], outbox[c])
  BY DEF ThreadsInv
<1>2. link[c] \in {"open", "shut"} /\ outbox[c] = None
  BY <1>1 DEF Thread, Phase, Agrees
<1>3. Thread(c, link[c], s, inbox[c], outbox[c])
  BY <1>1, <1>2 DEF Thread, Agrees
<1> QED
  BY <1>3, ThreadChanges, OneThread

LEMMA ApprovalReply == RECEIVED_APPROVAL \in Replies /\ RECEIVED_APPROVAL.code = "RECEIVED_APPROVAL"
  BY DEF RECEIVED_APPROVAL, Replies

\* Every step of a handler keeps its thread to the protocol.
LEMMA RefusalThreads ==
    ASSUME ThreadsInv, NEW c \in Conn, Refuse(c) \/ RefuseIllegal(c)
    PROVE  ThreadsInv'
<1>1. CASE Refuse(c)
  BY <1>1, RaiseThread DEF Refuse, Handling
<1>2. CASE RefuseIllegal(c)
  <2>1. inbox[c] # None
    BY <1>2 DEF RefuseIllegal, Handling
  <2>2. ASSUME inbox[c].code = "REGISTRATION",
               Answer(c, [code |-> "REGISTRATION_FAIL"], session[c])
        PROVE  ThreadsInv'
    <3> DEFINE o == [code |-> "REGISTRATION_FAIL"]
    <3>1. o \in Replies
      BY DEF Replies
    <3>2. session[c] \in Session /\ session[c].pc = "receiving" /\ Counted(session[c])
      BY <1>2 DEF RefuseIllegal, Handling, ThreadsInv, Thread
    <3>3. session[c].expectedReq = "REGISTRATION"
      BY <1>2, <2>2 DEF RefuseIllegal, Unexpected
    <3>4. Agrees(session[c], None, o)
      BY <3>3 DEF Agrees, Expects
    <3> QED
      BY <2>1, <2>2, <3>1, <3>2, <3>4, AnswerThread
  <2> QED
    BY <1>2, <2>1, <2>2, RaiseThread, GiveUpThread DEF RefuseIllegal
<1> QED
  BY <1>1, <1>2

LEMMA RegisterThreads ==
    ASSUME ThreadsInv, NEW c \in Conn, Register(c)
    PROVE  ThreadsInv'
<1>1. /\ session[c] \in Session /\ session[c].pc = "receiving" /\ inbox[c] # None
      /\ session[c].expectedReq = "REGISTRATION" /\ Counted(session[c])
  BY Started DEF Register, Starts, Handling, Unexpected
<1>2. ASSUME NEW r \in ID,
             Answer(c, [code |-> "REGISTRATION_SUCCESS", ID |-> r],
                    [session[c] EXCEPT !.expectedReq = "PUBLIC_KEY"])
      PROVE  ThreadsInv'
  <2> DEFINE s == [session[c] EXCEPT !.expectedReq = "PUBLIC_KEY"]
             o == [code |-> "REGISTRATION_SUCCESS", ID |-> r]
  <2>1. s \in Session /\ s.pc = "receiving" /\ s.expectedReq = "PUBLIC_KEY" /\ s.repeats = 0
    BY <1>1 DEF Session, Counted
  <2>2. o \in Replies
    BY DEF Replies
  <2>3. Counted(s) /\ Agrees(s, None, o)
    BY <2>1 DEF Counted, Agrees, Expects
  <2> QED
    BY <1>1, <1>2, <2>1, <2>2, <2>3, AnswerThread
<1>3. ASSUME Answer(c, [code |-> "REGISTRATION_FAIL"], session[c])
      PROVE  ThreadsInv'
  <2> DEFINE o == [code |-> "REGISTRATION_FAIL"]
  <2>1. o \in Replies
    BY DEF Replies
  <2>2. Agrees(session[c], None, o)
    BY <1>1 DEF Agrees, Expects
  <2> QED
    BY <1>1, <1>3, <2>1, <2>2, AnswerThread
<1> QED
  BY <1>2, <1>3 DEF Register

LEMMA KeyThreads ==
    ASSUME ThreadsInv, NEW c \in Conn, SignPublicKey(c) \/ SignAESKey(c)
    PROVE  ThreadsInv'
<1>1. CASE SignPublicKey(c)
  <2>1. Starts(c, {"PUBLIC_KEY"})
    BY <1>1 DEF SignPublicKey
  <2>2. /\ session[c] \in Session /\ inbox[c] # None
        /\ inbox[c] \in Requests(c) /\ inbox[c] \notin IllegalRequests
        /\ inbox[c].code = "PUBLIC_KEY" /\ Counted(session[c])
        /\ session[c].expectedReq \in {"REGISTRATION", "PUBLIC_KEY"}
    BY <2>1, Started DEF Starts, Handling, Unexpected
  <2>3. inbox[c] \in KeyRequest
    BY <2>2, RequestOfCode
  <2> DEFINE s == [session[c] EXCEPT !.pc = "signed"]
  <2>4. /\ s \in Session /\ s.pc = "signed"
        /\ s.expectedReq = session[c].expectedReq /\ s.repeats = session[c].repeats
    BY <2>2 DEF Session
  <2>5. Phase(c, s, inbox[c]) /\ Counted(s)
    BY <2>2, <2>3, <2>4 DEF Phase, Counted
  <2>6. \/ Become(c, s) /\ UNCHANGED <<link, inbox, outbox>>
        \/ Raise(c)
    BY <1>1 DEF SignPublicKey
  <2> QED
    BY <2>2, <2>4, <2>5, <2>6, BecomeThread, RaiseThread
<1>2. CASE SignAESKey(c)
  <2>1. Thread(c, link[c], session[c], inbox[c], outbox[c])
    BY DEF ThreadsInv
  <2>2. /\ session[c] \in Session /\ inbox[c] \in KeyRequest /\ inbox[c] # None
        /\ session[c].repeats = 0
    BY <1>2, <2>1 DEF SignAESKey, Thread, Phase, Counted
  <2> DEFINE s == [session[c] EXCEPT !.pc = "receiving", !.expectedReq = "SEND_FILE"]
             o == [code |-> "SEND_AES", key |-> c]
  <2>3. /\ s \in Session /\ s.pc = "receiving" /\ s.expectedReq = "SEND_FILE"
    BY <2>2 DEF Session
  <2>4. o \in Replies
    BY DEF Replies
  <2>5. Counted(s) /\ Agrees(s, None, o)
    BY <2>3 DEF Counted, Agrees, Expects
  <2> QED
    BY <1>2, <2>2, <2>3, <2>4, <2>5, AnswerThread, RaiseThread DEF SignAESKey
<1> QED
  BY <1>1, <1>2

LEMMA GotFileSession ==
    ASSUME NEW s \in Session, NEW n \in 0..TIMES
    PROVE  LET got == [s EXCEPT !.pc = "receiving", !.expectedReq = "CRC_OK",
                                !.repeats = n, !.plaintext = None]
           IN  got \in Session /\ got.pc = "receiving" /\ got.expectedReq = "CRC_OK"
                 /\ got.repeats = n
  BY DEF Session

LEMMA FileThreads ==
    ASSUME ThreadsInv, NEW c \in Conn,
           Decrypt(c) \/ SaveFile(c) \/ WriteFile(c) \/ InsertFile(c)
    PROVE  ThreadsInv'
<1>0. Thread(c, link[c], session[c], inbox[c], outbox[c])
  BY DEF ThreadsInv
<1>1. CASE Decrypt(c)
  <2> DEFINE text == Decrypted(KeyOf(inbox[c].ID), inbox[c].key, inbox[c].content)
             s == [session[c] EXCEPT !.pc = "decrypted", !.plaintext = text]
  <2>0. Starts(c, {"SEND_FILE"})
    BY <1>1 DEF Decrypt
  <2>1. /\ session[c] \in Session /\ inbox[c] # None
        /\ inbox[c] \in Requests(c) /\ inbox[c] \notin IllegalRequests
        /\ inbox[c].code = "SEND_FILE"
        /\ session[c].expectedReq = "SEND_FILE" /\ ~TooMany(c)
    BY <2>0, Started DEF Starts, Handling, Unexpected
  <2>a. session[c].repeats < TIMES
    BY <2>1 DEF TooMany, Session
  <2>2. inbox[c] \in SaveRequest(c) /\ text \in Content
    BY <2>1, RequestOfCode DEF Decrypted, SaveRequest
  <2>3. /\ s \in Session /\ s.pc = "decrypted" /\ s.plaintext = text
        /\ s.expectedReq = "SEND_FILE" /\ s.repeats < TIMES
    BY <2>1, <2>a, <2>2 DEF Session
  <2>4. Phase(c, s, inbox[c]) /\ Counted(s)
    BY <2>1, <2>2, <2>3 DEF Phase, Counted
  <2>5. \/ Become(c, s) /\ UNCHANGED <<link, inbox, outbox>>
        \/ GiveUp(c)
    BY <1>1 DEF Decrypt
  <2> QED
    BY <2>1, <2>3, <2>4, <2>5, BecomeThread, GiveUpThread
<1>2. CASE SaveFile(c)
  <2>1. /\ session[c] \in Session /\ inbox[c] # None /\ inbox[c] \in SaveRequest(c)
        /\ session[c].expectedReq = "SEND_FILE" /\ session[c].repeats < TIMES
        /\ session[c].plaintext \in Content
    BY <1>0, <1>2 DEF SaveFile, Thread, Phase
  <2> DEFINE s == [session[c] EXCEPT !.pc = "saving"]
  <2>2. /\ s \in Session /\ s.pc = "saving" /\ s.plaintext = session[c].plaintext
        /\ s.expectedReq = "SEND_FILE" /\ s.repeats < TIMES
    BY <2>1 DEF Session
  <2>3. Phase(c, s, inbox[c]) /\ Counted(s)
    BY <2>1, <2>2 DEF Phase, Counted
  <2>4. \/ Become(c, s) /\ UNCHANGED <<link, inbox, outbox>>
        \/ GiveUp(c)
    BY <1>2 DEF SaveFile
  <2> QED
    BY <2>1, <2>2, <2>3, <2>4, BecomeThread, GiveUpThread
<1>3. ASSUME session[c].pc = "saving", GotFile(c)
      PROVE  ThreadsInv'
  <2>1. /\ session[c] \in Session /\ inbox[c] # None
        /\ session[c].repeats < TIMES /\ session[c].plaintext \in Content
    BY <1>0, <1>3 DEF Thread, Phase
  <2> DEFINE s == [session[c] EXCEPT !.pc = "receiving", !.expectedReq = "CRC_OK",
                                     !.repeats = session[c].repeats + 1, !.plaintext = None]
             o == [code |-> "GOT_FILE_WITH_CRC", crc |-> session[c].plaintext]
  <2>a. session[c].repeats + 1 \in 1..TIMES /\ session[c].repeats + 1 \in 0..TIMES
    BY <2>1 DEF Session
  <2>2. /\ s \in Session /\ s.pc = "receiving" /\ s.expectedReq = "CRC_OK"
        /\ s.repeats \in 1..TIMES
    BY <2>1, <2>a, GotFileSession
  <2>3. o \in Replies
    BY <2>1 DEF Replies
  <2>4. Counted(s) /\ Agrees(s, None, o)
    BY <2>2 DEF Counted, Agrees, Expects
  <2> QED
    BY <1>3, <2>1, <2>2, <2>3, <2>4, AnswerThread DEF GotFile
<1>4. CASE WriteFile(c)
  <2>1. CASE GotFile(c)
    BY <1>3, <1>4, <2>1 DEF WriteFile
  <2>2. CASE UNCHANGED netVars
    BY <2>2 DEF netVars, ThreadsInv
  <2> QED
    BY <1>4, <2>1, <2>2 DEF WriteFile
<1>5. CASE InsertFile(c)
  BY <1>3, <1>5 DEF InsertFile
<1> QED
  BY <1>1, <1>2, <1>4, <1>5

LEMMA VerdictThreads ==
    ASSUME ThreadsInv, NEW c \in Conn,
           CrcNotOk(c) \/ CrcOk(c) \/ CrcError(c) \/ RemoveRow(c)
    PROVE  ThreadsInv'
<1>0. Thread(c, link[c], session[c], inbox[c], outbox[c])
  BY DEF ThreadsInv
<1>1. CASE CrcNotOk(c)
  <2>1. Starts(c, {"CRC_NOT_OK"})
    BY <1>1 DEF CrcNotOk
  <2>2. /\ session[c] \in Session /\ session[c].pc = "receiving" /\ inbox[c] # None
    BY <2>1, Started DEF Starts, Handling
  <2> DEFINE s == [session[c] EXCEPT !.expectedReq = "SEND_FILE"]
  <2>3. s \in Session /\ s.pc = "receiving" /\ s.expectedReq = "SEND_FILE"
    BY <2>2 DEF Session
  <2>4. Counted(s) /\ Agrees(s, None, RECEIVED_APPROVAL)
    BY <2>3, ApprovalReply DEF Counted, Agrees, Expects
  <2> QED
    BY <1>1, <2>2, <2>3, <2>4, ApprovalReply, AnswerThread DEF CrcNotOk
<1>2. ASSUME inbox[c] # None, Answer(c, RECEIVED_APPROVAL, NewSession("closed"))
      PROVE  ThreadsInv'
  <2>1. link[c] \in {"open", "shut"}
    BY <1>0, <1>2 DEF Thread, Phase
  <2>2. /\ OnlyThread(c) /\ session'[c] = NewSession("closed")
        /\ link'[c] = link[c] /\ inbox'[c] = None /\ outbox'[c] = RECEIVED_APPROVAL
    BY <1>2, ClosedSession, ThreadChanges
  <2> QED
    BY <2>1, <2>2, ApprovalReply, ClosedThread, OneThread
<1>3. CASE CrcOk(c)
  <2>1. inbox[c] # None
    BY <1>3 DEF CrcOk, Starts, Handling
  <2> QED
    BY <1>2, <1>3, <2>1, GiveUpThread DEF CrcOk
<1>4. CASE CrcError(c)
  <2>1. Starts(c, {"CRC_ERROR"})
    BY <1>4 DEF CrcError
  <2>2. /\ session[c] \in Session /\ inbox[c] # None
        /\ inbox[c] \in Requests(c) /\ inbox[c] \notin IllegalRequests
        /\ inbox[c].code = "CRC_ERROR" /\ Counted(session[c])
        /\ session[c].expectedReq = "CRC_OK"
    BY <2>1, Started DEF Starts, Handling, Unexpected
  <2>3. inbox[c] \in VerdictRequest
    BY <2>2, RequestOfCode
  <2> DEFINE s == [session[c] EXCEPT !.pc = "removing"]
  <2>4. /\ s \in Session /\ s.pc = "removing"
        /\ s.expectedReq = session[c].expectedReq /\ s.repeats = session[c].repeats
    BY <2>2 DEF Session
  <2>5. Phase(c, s, inbox[c]) /\ Counted(s)
    BY <2>2, <2>3, <2>4 DEF Phase, Counted
  <2>6. \/ Become(c, s) /\ UNCHANGED <<link, inbox, outbox>>
        \/ GiveUp(c)
    BY <1>4 DEF CrcError
  <2> QED
    BY <2>2, <2>4, <2>5, <2>6, BecomeThread, GiveUpThread
<1>5. CASE RemoveRow(c)
  <2>1. inbox[c] # None
    BY <1>0, <1>5 DEF RemoveRow, Thread, Phase
  <2> QED
    BY <1>2, <1>5, <2>1 DEF RemoveRow
<1> QED
  BY <1>1, <1>3, <1>4, <1>5

LEMMA EndOfInputThreads ==
    ASSUME ThreadsInv, NEW c \in Conn, EndOfInput(c)
    PROVE  ThreadsInv'
<1>1. Thread(c, link[c], session[c], inbox[c], outbox[c])
  BY DEF ThreadsInv
<1>2. /\ OnlyThread(c) /\ session'[c] = NewSession("closed")
      /\ link'[c] = link[c] /\ inbox'[c] = None /\ outbox'[c] = outbox[c]
  BY ClosedSession DEF EndOfInput, Become, ThreadsInv, OnlyThread
<1>3. link[c] \in {"open", "shut"} /\ outbox[c] \in Replies \cup {None}
  BY <1>1 DEF EndOfInput, Thread
<1> QED
  BY <1>2, <1>3, ClosedThread, OneThread

\* What peers do keeps the threads to the protocol, whatever they send and when.
LEMMA PeerThreads ==
    ASSUME ThreadsInv, NEW c \in Conn, Peer(c)
    PROVE  ThreadsInv'
<1>0. Thread(c, link[c], session[c], inbox[c], outbox[c])
  BY DEF ThreadsInv
<1>1. CASE Connect(c)
  <2>1. /\ OnlyThread(c) /\ session'[c] = NewSession("receiving") /\ link'[c] = "open"
        /\ inbox'[c] = None /\ outbox'[c] = None
        /\ NewSession("receiving") \in Session /\ NewSession("receiving").pc = "receiving"
        /\ NewSession("receiving").repeats = 0
        /\ NewSession("receiving").expectedReq = "REGISTRATION"
    BY <1>0, <1>1 DEF Connect, Become, NewSession, Session, ThreadsInv, OnlyThread, Thread, Phase
  <2>2. Thread(c, "open", NewSession("receiving"), None, None)
    BY <2>1 DEF Thread, Phase, Counted, Agrees
  <2> QED
    BY <2>1, <2>2, OneThread
<1>2. CASE Receive(c)
  <2>1. /\ OnlyThread(c) /\ session'[c] = session[c] /\ link'[c] = link[c]
        /\ inbox'[c] = inbox[c] /\ outbox'[c] = None
    BY <1>2 DEF Receive, ThreadsInv, OnlyThread
  <2>2. Thread(c, link[c], session[c], inbox[c], None)
    BY <1>0 DEF Thread, Agrees
  <2> QED
    BY <2>1, <2>2, OneThread
<1>3. CASE Disconnect(c)
  <2>1. /\ OnlyThread(c) /\ session'[c] = session[c] /\ link'[c] = "shut"
        /\ inbox'[c] = inbox[c] /\ outbox'[c] = None
    BY <1>3 DEF Disconnect, ThreadsInv, OnlyThread
  <2>2. Thread(c, "shut", session[c], inbox[c], None)
    BY <1>0 DEF Thread, Agrees
  <2> QED
    BY <2>1, <2>2, OneThread
<1>4. ASSUME NEW request \in Requests(c), Send(c, request)
      PROVE  ThreadsInv'
  <2>1. /\ OnlyThread(c) /\ session'[c] = session[c] /\ link'[c] = link[c]
        /\ inbox'[c] = request /\ outbox'[c] = None /\ link[c] = "open"
        /\ session[c].pc = "receiving"
    BY <1>4 DEF Send, ThreadsInv, OnlyThread
  <2>2. Thread(c, link[c], session[c], request, None)
    BY <1>0, <2>1 DEF Thread, Phase, Agrees
  <2> QED
    BY <2>1, <2>2, OneThread
<1> QED
  BY <1>1, <1>2, <1>3, <1>4 DEF Peer

LEMMA RestartThreads ==
    ASSUME ThreadsInv, ServerRestart
    PROVE  ThreadsInv'
<1>1. PICK lost \in SUBSET Conn :
        outbox' = [c \in Conn |-> IF c \in lost THEN None ELSE outbox[c]]
  BY DEF ServerRestart
<1>2. ASSUME NEW c \in Conn
      PROVE  Thread(c, link'[c], session'[c], inbox'[c], outbox'[c])
  <2>1. Thread(c, link[c], session[c], inbox[c], outbox[c])
    BY DEF ThreadsInv
  <2>2. link'[c] = link[c] /\ inbox'[c] = None /\ outbox'[c] \in {None, outbox[c]}
    BY <1>1 DEF ServerRestart
  <2>3. CASE link[c] = "unused"
    <3>1. session'[c] = session[c]
      BY <2>3 DEF ServerRestart
    <3>2. outbox'[c] = None
      BY <2>1, <2>2, <2>3 DEF Thread
    <3> QED
      BY <2>1, <2>2, <2>3, <3>1, <3>2 DEF Thread, Phase
  <2>4. CASE link[c] # "unused"
    <3>1. session'[c] = NewSession("closed")
      BY <2>4 DEF ServerRestart
    <3> QED
      BY <2>1, <2>2, <2>4, <3>1, ClosedThread DEF Thread
  <2> QED
    BY <2>3, <2>4
<1>3. session' \in [Conn -> Session]
  BY ClosedSession DEF ServerRestart, ThreadsInv
<1> QED
  BY <1>1, <1>2, <1>3 DEF ServerRestart, ThreadsInv

LEMMA ThreadsInit == ServerInit => ThreadsInv
<1> SUFFICES ASSUME ServerInit PROVE ThreadsInv
  OBVIOUS
<1>1. /\ NewSession("idle") \in Session /\ NewSession("idle").pc = "idle"
      /\ NewSession("idle").repeats = 0 /\ NewSession("idle").expectedReq = "REGISTRATION"
  BY DEF NewSession, Session
<1>2. \A c \in Conn : Thread(c, "unused", NewSession("idle"), None, None)
  BY <1>1 DEF Thread, Phase, Counted, Agrees
<1> QED
  BY <1>1, <1>2 DEF ServerInit, ThreadsInv

LEMMA ThreadsStep == ThreadsInv /\ [ServerNext]_serverVars => ThreadsInv'
<1> SUFFICES ASSUME ThreadsInv, [ServerNext]_serverVars PROVE ThreadsInv'
  OBVIOUS
<1>1. ASSUME NEW c \in Conn, Handler(c)
      PROVE  ThreadsInv'
  BY <1>1, RefusalThreads, RegisterThreads, KeyThreads, FileThreads, VerdictThreads,
     EndOfInputThreads DEF Handler
<1>2. CASE UNCHANGED serverVars
  BY <1>2 DEF serverVars, netVars, ThreadsInv
<1> QED
  BY <1>1, <1>2, PeerThreads, RestartThreads DEF ServerNext

LEMMA ThreadsAlways == ServerSpec => []ThreadsInv
<1> QED
  BY ThreadsInit, ThreadsStep, PTL DEF ServerSpec

----------------------------------------------------------------------------
(* The threads and the storage *)

\* A step of a thread uses one method of the storage, or leaves it alone; only the
\* second step of the handler of PUBLIC_KEY stores a key.
LEMMA HandlerStorage ==
    ASSUME ThreadsInv, NEW c \in Conn, Handler(c)
    PROVE  \/ UserStep \/ FileStep \/ LockedStep \/ UNCHANGED vars
           \/ SignAESKey(c) /\ inbox[c].ID \in ID /\ signAESKey(inbox[c].ID, c)
<1>0. Thread(c, link[c], session[c], inbox[c], outbox[c])
  BY DEF ThreadsInv
<1>1. CASE Refuse(c) \/ RefuseIllegal(c) \/ CrcNotOk(c) \/ Decrypt(c) \/ EndOfInput(c)
  BY <1>1 DEF Refuse, RefuseIllegal, CrcNotOk, Decrypt, EndOfInput
<1>2. CASE Register(c)
  <2>1. Starts(c, {"REGISTRATION"})
    BY <1>2 DEF Register
  <2>2. /\ inbox[c] \in Requests(c) /\ inbox[c] \notin IllegalRequests
        /\ inbox[c].code = "REGISTRATION"
    BY <2>1, Started DEF Starts, Handling
  <2>3. inbox[c].name \in Name
    BY <2>2, RequestOfCode
  <2>4. (\E r \in ID : regUser(inbox[c].name, r)) \/ UNCHANGED vars
    BY <1>2 DEF Register
  <2> QED
    BY <2>3, <2>4 DEF UserStep
<1>3. CASE SignPublicKey(c)
  <2>1. Starts(c, {"PUBLIC_KEY"})
    BY <1>3 DEF SignPublicKey
  <2>2. /\ inbox[c] \in Requests(c) /\ inbox[c] \notin IllegalRequests
        /\ inbox[c].code = "PUBLIC_KEY"
    BY <2>1, Started DEF Starts, Handling
  <2>3. inbox[c].ID \in ID /\ inbox[c].name \in Name
    BY <2>2, RequestOfCode DEF KeyRequest
  <2>4. signPublicKey(inbox[c].ID, inbox[c].name) \/ UNCHANGED vars
    BY <1>3 DEF SignPublicKey
  <2> QED
    BY <2>3, <2>4 DEF UserStep
<1>4. CASE SignAESKey(c)
  <2>1. inbox[c].ID \in ID
    BY <1>0, <1>4 DEF SignAESKey, Thread, Phase, KeyRequest
  <2>2. signAESKey(inbox[c].ID, c) \/ UNCHANGED vars
    BY <1>4 DEF SignAESKey
  <2> QED
    BY <1>4, <2>1, <2>2
<1>5. CASE SaveFile(c)
  <2>1. inbox[c].ID \in ID /\ inbox[c].fileName \in FileName /\ session[c].plaintext \in Content
    BY <1>0, <1>5 DEF SaveFile, Thread, Phase, SaveRequest
  <2>2. \/ saveFile(c, inbox[c].ID, inbox[c].fileName, session[c].plaintext)
        \/ UNCHANGED vars
    BY <1>5 DEF SaveFile
  <2> QED
    BY <2>1, <2>2 DEF FileStep
<1>6. CASE WriteFile(c) \/ InsertFile(c) \/ RemoveRow(c)
  BY <1>6 DEF WriteFile, InsertFile, RemoveRow, LockedStep
<1>7. ASSUME NEW code \in {"CRC_OK", "CRC_ERROR"}, Starts(c, {code})
      PROVE  inbox[c].ID \in ID /\ inbox[c].fileName \in FileName
  <2>1. /\ inbox[c] \in Requests(c) /\ inbox[c] \notin IllegalRequests
        /\ inbox[c].code = code
    BY <1>7, Started DEF Starts, Handling
  <2> QED
    BY <2>1, RequestOfCode DEF VerdictRequest
<1>8. CASE CrcOk(c)
  <2>1. inbox[c].ID \in ID /\ inbox[c].fileName \in FileName
    BY <1>7, <1>8 DEF CrcOk
  <2>2. approveFile(inbox[c].ID, inbox[c].fileName) \/ UNCHANGED vars
    BY <1>8 DEF CrcOk
  <2> QED
    BY <2>1, <2>2 DEF FileStep
<1>9. CASE CrcError(c)
  <2>1. inbox[c].ID \in ID /\ inbox[c].fileName \in FileName
    BY <1>7, <1>9 DEF CrcError
  <2>2. removeFile(c, inbox[c].ID, inbox[c].fileName) \/ UNCHANGED vars
    BY <1>9 DEF CrcError
  <2> QED
    BY <2>1, <2>2 DEF FileStep
<1> QED
  BY <1>1, <1>2, <1>3, <1>4, <1>5, <1>6, <1>8, <1>9 DEF Handler

\* A step of a thread, of a peer or of the process is a step of the storage or
\* leaves it alone.
LEMMA StorageStep == ThreadsInv /\ [ServerNext]_serverVars => [Next]_vars
<1> SUFFICES ASSUME ThreadsInv, [ServerNext]_serverVars PROVE [Next]_vars
  OBVIOUS
<1>1. ASSUME NEW c \in Conn, Handler(c)
      PROVE  [Next]_vars
  BY <1>1, HandlerStorage DEF Next, KeyStep
<1>2. ASSUME NEW c \in Conn, Peer(c)
      PROVE  UNCHANGED vars
  BY <1>2 DEF Peer, Connect, Receive, Disconnect, Send
<1>3. CASE ServerRestart
  BY <1>3 DEF ServerRestart, Next
<1>4. CASE UNCHANGED serverVars
  BY <1>4 DEF serverVars
<1> QED
  BY <1>1, <1>2, <1>3, <1>4 DEF ServerNext

\* The server implements the storage: whatever the peers send and however the
\* threads interleave, the shared object is only ever used as MemoryManager says.
THEOREM ServerUsesStorage == ServerSpec => Spec
<1>1. ServerInit => Init
  BY DEF ServerInit
<1> QED
  BY <1>1, ThreadsAlways, StorageStep, PTL DEF ServerSpec, Spec

\* So the storage's invariants hold under the threads.
THEOREM ServerKeepsFiles ==
    ServerSpec => [](ClientsAgree /\ UniqueNames /\ OneEntryPerFile /\ RowsListed /\ InsertIsNew
                       /\ PathsDistinct)
  BY ServerUsesStorage, ClientsConsistent, FilesConsistent, PathsStayDistinct, PTL

LEMMA ThreadsTyped ==
    ASSUME TypeOK, ThreadsInv
    PROVE  ServerTypeOK
<1> DEFINE AllRequests == UNION {Requests(c) : c \in Conn}
<1>1. \A c \in Conn : inbox[c] \in Requests(c) \cup {None} /\ outbox[c] \in Replies \cup {None}
  BY DEF ThreadsInv, Thread
<1>2. \A c \in Conn : inbox[c] \in AllRequests \cup {None}
  BY <1>1
<1> HIDE DEF AllRequests
<1>3. inbox \in [Conn -> AllRequests \cup {None}]
  <2>1. [c \in Conn |-> inbox[c]] \in [Conn -> AllRequests \cup {None}]
    BY <1>2
  <2> QED
    BY <2>1 DEF ThreadsInv
<1>4. outbox \in [Conn -> Replies \cup {None}]
  <2> DEFINE R == Replies \cup {None}
  <2>1. \A c \in Conn : outbox[c] \in R
    BY <1>1
  <2> HIDE DEF R
  <2>2. [c \in Conn |-> outbox[c]] \in [Conn -> R]
    BY <2>1
  <2>3. outbox \in [Conn -> R]
    BY <2>2 DEF ThreadsInv
  <2> QED
    BY <2>3 DEF R
<1>5. link \in [Conn -> {"unused", "open", "shut"}] /\ session \in [Conn -> Session]
  BY DEF ThreadsInv
<1> QED
  BY <1>3, <1>4, <1>5 DEF ServerTypeOK, AllRequests

\* The type invariant of the server, for every set of connections and requests.
THEOREM ServerTypeCorrect == ServerSpec => []ServerTypeOK
<1>1. TypeOK /\ ThreadsInv => ServerTypeOK
  BY ThreadsTyped
<1> QED
  BY <1>1, ServerUsesStorage, TypeCorrect, ThreadsAlways, PTL

\* A thread's expectation agrees with the reply its client is about to read.
THEOREM RepliesAgree == ServerSpec => []ReplyAgrees
<1>1. ThreadsInv => ReplyAgrees
  BY DEF ReplyAgrees, ThreadsInv, Thread, Agrees, Expects
<1> QED
  BY <1>1, ThreadsAlways, PTL

\* No connection makes more than TIMES sends, and "Resending too many times" is
\* dead code, for every limit TIMES.
THEOREM SendsStayCounted == ServerSpec => []SendsCounted
<1>1. ThreadsInv => SendsCounted
  BY DEF SendsCounted, ThreadsInv, Thread, Counted
<1> QED
  BY <1>1, ThreadsAlways, PTL

----------------------------------------------------------------------------
(* The lock *)

InLock == {"saving", "removing"}

\* A step of a thread outside the lock, to a point outside the lock.
LEMMA OutsideLock ==
    ASSUME TypeOK, ThreadsInv, LockOwned, UNCHANGED lock,
           NEW c \in Conn, OnlyThread(c),
           session[c].pc \notin InLock, session'[c].pc \notin InLock
    PROVE  LockOwned'
<1>1. ~(lock # Free /\ lock.conn = c)
  BY DEF LockOwned, InLock
<1>2. lock # Free => lock.conn \in Conn
  BY DEF TypeOK, Saving, Removing
<1> QED
  BY <1>1, <1>2 DEF LockOwned, OnlyThread, InLock

\* A thread takes the lock, for the file of its request.
LEMMA EntersLock ==
    ASSUME ThreadsInv, LockOwned, lock = Free, NEW c \in Conn, OnlyThread(c),
           session'[c].pc \in InLock, inbox'[c] = inbox[c], inbox[c] # None,
           lock'.step # "free", lock'.conn = c,
           lock'.ID = inbox[c].ID, lock'.fileName = inbox[c].fileName
    PROVE  LockOwned'
<1>1. lock' # Free
  BY DEF Free
<1>2. \A d \in Conn : session[d].pc \notin InLock
  BY DEF LockOwned, InLock
<1> QED
  BY <1>1, <1>2 DEF LockOwned, OnlyThread, InLock

\* The holder of the lock gives it back as it leaves saveFile or removeFile.
LEMMA LeavesLock ==
    ASSUME LockOwned, NEW c \in Conn, OnlyThread(c), session'[c].pc \notin InLock,
           lock # Free => lock.conn = c, lock' = Free
    PROVE  LockOwned'
  BY DEF LockOwned, OnlyThread, InLock

\* The ends of a handler are outside the lock.
LEMMA EndsOutside ==
    ASSUME ThreadsInv, NEW c \in Conn
    PROVE  /\ Raise(c) => OnlyThread(c) /\ session'[c].pc \notin InLock
           /\ GiveUp(c) => OnlyThread(c) /\ session'[c].pc \notin InLock
           /\ \A o, s : Answer(c, o, s) /\ s \in Session /\ s.pc \notin InLock =>
                OnlyThread(c) /\ session'[c].pc \notin InLock
           /\ \A s : s \in Session /\ Become(c, s) /\ UNCHANGED <<link, inbox, outbox>> =>
                OnlyThread(c) /\ session'[c] = s
<1>1. session[c] \in Session
  BY DEF ThreadsInv
<1>2. LET s == [session[c] EXCEPT !.pc = "receiving", !.plaintext = None]
      IN  s \in Session /\ s.pc = "receiving"
  BY <1>1 DEF Session
<1>3. Raise(c) => OnlyThread(c) /\ session'[c].pc \notin InLock
  BY <1>2, ThreadChanges DEF Raise, InLock
<1>4. GiveUp(c) => OnlyThread(c) /\ session'[c].pc \notin InLock
  BY ClosedSession, ThreadChanges DEF GiveUp, InLock
<1> QED
  BY <1>3, <1>4, ThreadChanges

LEMMA UnlockedHandlerLock ==
    ASSUME TypeOK, ThreadsInv, LockOwned, NEW c \in Conn,
           \/ Refuse(c) \/ RefuseIllegal(c) \/ Register(c) \/ SignPublicKey(c)
           \/ SignAESKey(c) \/ Decrypt(c) \/ CrcNotOk(c) \/ CrcOk(c) \/ EndOfInput(c)
    PROVE  LockOwned'
<1>0. /\ session[c] \in Session
      /\ session[c].pc \notin InLock
      /\ UNCHANGED lock
  BY DEF ThreadsInv, Refuse, RefuseIllegal, Register, SignPublicKey, SignAESKey, Decrypt, CrcNotOk,
         CrcOk, EndOfInput, Starts, Handling, InLock, vars, regUser, signPublicKey,
         signAESKey, approveFile
<1>1. /\ [session[c] EXCEPT !.pc = "signed"] \in Session
      /\ [session[c] EXCEPT !.pc = "signed"].pc = "signed"
      /\ [session[c] EXCEPT !.expectedReq = "PUBLIC_KEY"] \in Session
      /\ [session[c] EXCEPT !.expectedReq = "PUBLIC_KEY"].pc = session[c].pc
      /\ [session[c] EXCEPT !.expectedReq = "SEND_FILE"] \in Session
      /\ [session[c] EXCEPT !.expectedReq = "SEND_FILE"].pc = session[c].pc
      /\ [session[c] EXCEPT !.pc = "receiving", !.expectedReq = "SEND_FILE"] \in Session
      /\ [session[c] EXCEPT !.pc = "receiving", !.expectedReq = "SEND_FILE"].pc = "receiving"
  BY <1>0 DEF Session
<1>2. OnlyThread(c) /\ session'[c].pc \notin InLock
  <2>1. CASE Refuse(c)
    BY <2>1, EndsOutside DEF Refuse
  <2>2. CASE RefuseIllegal(c)
    BY <2>2, <1>0, EndsOutside DEF RefuseIllegal
  <2>3. CASE Register(c)
    BY <2>3, <1>0, <1>1, EndsOutside DEF Register
  <2>4. CASE SignPublicKey(c)
    BY <2>4, <1>1, EndsOutside DEF SignPublicKey, InLock
  <2>5. CASE SignAESKey(c)
    BY <2>5, <1>1, EndsOutside DEF SignAESKey, InLock
  <2>6. CASE Decrypt(c)
    <3>0. ThreadsInv'
      BY <2>6, FileThreads
    <3>1. ASSUME NEW text,
                 Become(c, [session[c] EXCEPT !.pc = "decrypted", !.plaintext = text]),
                 UNCHANGED <<link, inbox, outbox>>
          PROVE  OnlyThread(c) /\ session'[c].pc \notin InLock
      <4>1. session'[c] = [session[c] EXCEPT !.pc = "decrypted", !.plaintext = text]
        BY <3>1 DEF ThreadsInv, Become
      <4>2. session'[c].pc = "decrypted"
        BY <4>1, <1>0 DEF Session
      <4>3. OnlyThread(c)
        BY <3>0, <3>1 DEF ThreadsInv, Become, OnlyThread
      <4> QED
        BY <4>2, <4>3 DEF InLock
    <3> QED
      BY <2>6, <3>1, EndsOutside DEF Decrypt
  <2>7. CASE CrcNotOk(c)
    BY <2>7, <1>0, <1>1, EndsOutside DEF CrcNotOk
  <2>8. CASE CrcOk(c)
    BY <2>8, ClosedSession, EndsOutside DEF CrcOk, InLock
  <2>9. CASE EndOfInput(c)
    BY <2>9, ClosedSession DEF EndOfInput, Become, ThreadsInv, OnlyThread, InLock
  <2> QED
    BY <2>1, <2>2, <2>3, <2>4, <2>5, <2>6, <2>7, <2>8, <2>9
<1> QED
  BY <1>0, <1>2, OutsideLock

LEMMA LockingHandlerLock ==
    ASSUME TypeOK, ThreadsInv, LockOwned, NEW c \in Conn,
           \/ SaveFile(c) \/ WriteFile(c) \/ InsertFile(c) \/ CrcError(c) \/ RemoveRow(c)
    PROVE  LockOwned'
<1>0. /\ session[c] \in Session
      /\ inbox[c] # None
  BY DEF ThreadsInv, Thread, Phase, SaveFile, WriteFile, InsertFile, CrcError, RemoveRow,
         Starts, Handling
<1>1. /\ [session[c] EXCEPT !.pc = "saving"] \in Session
      /\ [session[c] EXCEPT !.pc = "saving"].pc = "saving"
      /\ [session[c] EXCEPT !.pc = "removing"] \in Session
      /\ [session[c] EXCEPT !.pc = "removing"].pc = "removing"
  BY <1>0 DEF Session
<1>2. ASSUME UNCHANGED vars, GiveUp(c), session[c].pc \notin InLock
      PROVE  LockOwned'
  BY <1>2, EndsOutside, OutsideLock DEF vars
<1>3. CASE SaveFile(c)
  <2>1. session[c].pc \notin InLock
    BY <1>3 DEF SaveFile, InLock
  <2>2. ASSUME saveFile(c, inbox[c].ID, inbox[c].fileName, session[c].plaintext),
               Become(c, [session[c] EXCEPT !.pc = "saving"]),
               UNCHANGED <<link, inbox, outbox>>
        PROVE  LockOwned'
    <3>1. /\ lock = Free
          /\ lock'.step \in {"rewrite", "create"} /\ lock'.conn = c
          /\ lock'.ID = inbox[c].ID /\ lock'.fileName = inbox[c].fileName
      <4>1. lock = Free /\ \E p, next : /\ next \in {"rewrite", "create"}
                                       /\ lock' = [step |-> next, conn |-> c, ID |-> inbox[c].ID,
                                                   fileName |-> inbox[c].fileName, pathName |-> p,
                                                   content |-> session[c].plaintext]
        BY <2>2, Zenon DEF saveFile
      <4> QED
        BY <4>1
    <3>2. OnlyThread(c) /\ session'[c].pc = "saving"
      BY <1>1, <2>2, EndsOutside
    <3> QED
      BY <1>0, <2>2, <3>1, <3>2, EntersLock DEF InLock
  <2> QED
    BY <1>2, <1>3, <2>1, <2>2 DEF SaveFile
<1>4. ASSUME lock # Free, lock.conn = c, lock' = Free, GotFile(c), session[c].pc = "saving"
      PROVE  LockOwned'
  <2> DEFINE s == [session[c] EXCEPT !.pc = "receiving", !.expectedReq = "CRC_OK",
                                     !.repeats = session[c].repeats + 1, !.plaintext = None]
  <2>1. session[c].repeats + 1 \in 0..TIMES
    BY <1>0, <1>4 DEF ThreadsInv, Thread, Phase, Session
  <2>2. s \in Session /\ s.pc = "receiving"
    BY <1>0, <2>1, GotFileSession
  <2> HIDE DEF s
  <2>3. \E o : Answer(c, o, s)
    BY <1>4 DEF GotFile, s
  <2>4. OnlyThread(c) /\ session'[c].pc \notin InLock
    BY <2>2, <2>3, EndsOutside DEF InLock
  <2> QED
    BY <1>4, <2>4, LeavesLock
<1>5. CASE WriteFile(c)
  <2>1. /\ lock.step \in {"rewrite", "create"} /\ lock.conn = c /\ lock # Free
        /\ session[c].pc = "saving"
    BY <1>5 DEF WriteFile, writeFile, Free
  <2>2. CASE lock.step = "rewrite"
    BY <1>4, <1>5, <2>1, <2>2 DEF WriteFile, writeFile
  <2>3. CASE lock.step = "create"
    <3>1. lock \in Saving
      BY <2>1, LockCases
    <3>2. lock' = [lock EXCEPT !.step = "created"] /\ UNCHANGED netVars
      BY <1>5, <2>3 DEF WriteFile, writeFile
    <3>3. /\ lock' # Free /\ lock'.conn = lock.conn /\ lock'.ID = lock.ID
          /\ lock'.fileName = lock.fileName
      BY <3>1, <3>2 DEF Saving, Free
    <3> QED
      BY <2>1, <3>2, <3>3 DEF LockOwned, netVars
  <2> QED
    BY <2>1, <2>2, <2>3
<1>6. CASE InsertFile(c)
  BY <1>4, <1>6 DEF InsertFile, insertFile, Free
<1>7. CASE CrcError(c)
  <2>1. session[c].pc \notin InLock
    BY <1>7 DEF CrcError, Starts, Handling, InLock
  <2>2. ASSUME removeFile(c, inbox[c].ID, inbox[c].fileName),
               Become(c, [session[c] EXCEPT !.pc = "removing"]),
               UNCHANGED <<link, inbox, outbox>>
        PROVE  LockOwned'
    <3>1. /\ lock = Free
          /\ lock'.step = "unlinked" /\ lock'.conn = c
          /\ lock'.ID = inbox[c].ID /\ lock'.fileName = inbox[c].fileName
      BY <2>2 DEF removeFile
    <3>2. OnlyThread(c) /\ session'[c].pc = "removing"
      BY <1>1, <2>2, EndsOutside
    <3> QED
      BY <1>0, <2>2, <3>1, <3>2, EntersLock DEF InLock
  <2> QED
    BY <1>2, <1>7, <2>1, <2>2 DEF CrcError
<1>8. CASE RemoveRow(c)
  <2>1. lock.conn = c /\ lock' = Free
    BY <1>8 DEF RemoveRow, removeRow
  <2>2. OnlyThread(c) /\ session'[c].pc \notin InLock
    BY <1>8, ClosedSession, EndsOutside DEF RemoveRow, InLock
  <2> QED
    BY <2>1, <2>2, LeavesLock
<1> QED
  BY <1>3, <1>5, <1>6, <1>7, <1>8

LEMMA PeerLock ==
    ASSUME TypeOK, ThreadsInv, LockOwned, NEW c \in Conn, Peer(c)
    PROVE  LockOwned'
<1>1. CASE Connect(c)
  <2>1. session[c].pc = "idle"
    BY <1>1 DEF Connect, ThreadsInv, Thread
  <2>2. NewSession("receiving") \in Session /\ NewSession("receiving").pc = "receiving"
    BY DEF NewSession, Session
  <2>3. OnlyThread(c) /\ session'[c].pc = "receiving" /\ UNCHANGED lock
    BY <1>1, <2>2 DEF Connect, Become, ThreadsInv, OnlyThread, vars
  <2> QED
    BY <2>1, <2>3, OutsideLock DEF InLock
<1>2. CASE Receive(c) \/ Disconnect(c)
  BY <1>2 DEF Receive, Disconnect, LockOwned, vars
<1>3. ASSUME NEW request \in Requests(c), Send(c, request)
      PROVE  LockOwned'
  BY <1>3, OutsideLock DEF Send, OnlyThread, ThreadsInv, InLock, vars
<1> QED
  BY <1>1, <1>2, <1>3 DEF Peer

LEMMA RestartLock ==
    ASSUME ThreadsInv, ServerRestart
    PROVE  LockOwned'
<1>1. \A c \in Conn : session'[c].pc \in {"idle", "closed"}
  <2> SUFFICES ASSUME NEW c \in Conn
               PROVE  session'[c].pc \in {"idle", "closed"}
    OBVIOUS
  <2>1. link[c] = "unused" => session[c].pc = "idle"
    BY DEF ThreadsInv, Thread
  <2> QED
    BY <2>1, ClosedSession DEF ServerRestart
<1>2. lock' = Free
  BY DEF ServerRestart, Restart
<1> QED
  BY <1>1, <1>2 DEF LockOwned

\* The lock is never leaked: whatever the peers do and wherever a restart falls,
\* the lock is held exactly while one thread is inside saveFile or removeFile, for
\* the file of the request that thread has in hand.
THEOREM LockStaysOwned == ServerSpec => []LockOwned
<1>1. ServerInit => LockOwned
  <2>1. NewSession("idle").pc = "idle"
    BY DEF NewSession
  <2> QED
    BY <2>1 DEF ServerInit, Init, LockOwned
<1>2. TypeOK /\ ThreadsInv /\ LockOwned /\ [ServerNext]_serverVars => LockOwned'
  <2> SUFFICES ASSUME TypeOK, ThreadsInv, LockOwned, [ServerNext]_serverVars
               PROVE  LockOwned'
    OBVIOUS
  <2>1. ASSUME NEW c \in Conn, Handler(c)
        PROVE  LockOwned'
    BY <2>1, UnlockedHandlerLock, LockingHandlerLock DEF Handler
  <2>2. CASE UNCHANGED serverVars
    BY <2>2 DEF serverVars, vars, netVars, LockOwned
  <2> QED
    BY <2>1, <2>2, PeerLock, RestartLock DEF ServerNext
<1> QED
  BY <1>1, <1>2, ServerUsesStorage, TypeCorrect, ThreadsAlways, PTL DEF ServerSpec

----------------------------------------------------------------------------
(* The AES keys in memory *)

\* Nothing but a restart takes a key out of memory, and nothing but an exchange under
\* the same identifier replaces it: the identifier regUser returns is not that of a
\* client already there.
LEMMA KeyKept ==
    ASSUME TypeOK, ClientsAgree, UniqueNames, NEW r \in ID, KeyOf(r) # NoKey,
           \/ UserStep \/ FileStep \/ LockedStep \/ UNCHANGED vars
           \/ \E s \in ID, key \in Conn : s # r /\ signAESKey(s, key)
    PROVE  KeyOf(r)' = KeyOf(r)
<1> DEFINE kept == clients'[r] \in Client /\ clients'[r].AESKey = clients[r].AESKey
<1>1. clients[r] \in Client /\ clients[r].AESKey # NoKey
  BY DEF KeyOf, TypeOK
<1>2. ASSUME NEW s \in ID, NEW name \in Name, regUser(name, s)
      PROVE  kept
  <2>1. dbClients[s] = NoClient
    BY <1>2, RegisteredRow
  <2>2. clients[s] = NoClient
    BY <2>1 DEF ClientsAgree
  <2> QED
    BY <1>1, <1>2, <2>2, NoClientAssumption DEF regUser, TypeOK
<1>3. ASSUME NEW s \in ID, NEW name \in Name, signPublicKey(s, name)
      PROVE  kept
  <2>1. clients'[r] = IF r = s THEN [clients[r] EXCEPT !.publicKey = TRUE] ELSE clients[r]
    BY <1>3 DEF signPublicKey, TypeOK
  <2>2. /\ [clients[r] EXCEPT !.publicKey = TRUE] \in Client
        /\ [clients[r] EXCEPT !.publicKey = TRUE].AESKey = clients[r].AESKey
    BY <1>1 DEF Client
  <2> QED
    BY <1>1, <2>1, <2>2
<1>4. ASSUME NEW s \in ID, NEW key \in Conn, s # r, signAESKey(s, key)
      PROVE  kept
  BY <1>1, <1>4 DEF signAESKey, TypeOK
<1>5. FileStep \/ LockedStep \/ UNCHANGED vars => kept
  BY <1>1, ClientsKept
<1> HIDE DEF kept
<1>6. kept
  BY <1>2, <1>3, <1>4, <1>5 DEF UserStep
<1> QED
  BY <1>1, <1>6, NoClientAssumption DEF kept, KeyOf

\* An exchange stores the key it was given.
LEMMA KeyStored ==
    ASSUME TypeOK, NEW r \in ID, NEW key \in Conn, signAESKey(r, key)
    PROVE  KeyOf(r)' = key
<1>1. clients[r] \in Client /\ clients'[r] = [clients[r] EXCEPT !.AESKey = key]
  BY DEF signAESKey, TypeOK
<1>2. clients'[r] # NoClient /\ clients'[r].AESKey = key
  BY <1>1, NoClientAssumption DEF Client
<1> QED
  BY <1>2 DEF KeyOf

SomeKey == \E r \in ID : KeyOf(r) # NoKey

LEMMA KeyStays ==
    ASSUME TypeOK, ClientsAgree, UniqueNames, [Next]_vars, UNCHANGED boots, SomeKey
    PROVE  SomeKey'
<1>1. PICK r \in ID : KeyOf(r) # NoKey
  BY DEF SomeKey
<1>2. ~Restart
  BY DEF Restart, TypeOK
<1>3. ASSUME NEW s \in ID, NEW key \in Conn, signAESKey(s, key)
      PROVE  SomeKey'
  BY <1>3, KeyStored, NoKeyAssumption DEF SomeKey
<1>4. CASE UserStep \/ FileStep \/ LockedStep \/ UNCHANGED vars
  BY <1>1, <1>4, KeyKept DEF SomeKey
<1> QED
  BY <1>2, <1>3, <1>4 DEF Next, KeyStep

Keyed(s) == s.expectedReq \in {"SEND_FILE", "CRC_OK"}

\* Only the second step of the handler of PUBLIC_KEY lets a thread expect a file
\* that did not expect a file or a verdict before, and it stores a key.
LEMMA KeyedByKey ==
    ASSUME ThreadsInv, NEW c \in Conn, Handler(c), NEW d \in Conn,
           Keyed(session'[d]), ~SignAESKey(c)
    PROVE  Keyed(session[d])
<1>0. session \in [Conn -> Session] /\ session[c] \in Session
  BY DEF ThreadsInv
<1>1. Thread(c, link[c], session[c], inbox[c], outbox[c])
  BY DEF ThreadsInv
<1> USE DEF Keyed
<1>2. ASSUME Raise(c)
      PROVE  Keyed(session[d])
  BY <1>0, <1>2 DEF Raise, Silent, Finish, Become, Session
<1>3. ASSUME NEW s, Become(c, s), s.expectedReq = "REGISTRATION" \/ Keyed(session[c])
      PROVE  Keyed(session[d])
  BY <1>0, <1>3 DEF Become
<1>4. ASSUME GiveUp(c)
      PROVE  Keyed(session[d])
  BY <1>3, <1>4, ClosedSession DEF GiveUp, Silent, Finish
<1>5. CASE Refuse(c)
  BY <1>2, <1>5 DEF Refuse
<1>6. CASE RefuseIllegal(c)
  <2>1. ASSUME Answer(c, [code |-> "REGISTRATION_FAIL"], session[c])
        PROVE  Keyed(session[d])
    BY <1>0, <2>1 DEF Answer, Finish, Become
  <2> QED
    BY <1>2, <1>4, <1>6, <2>1 DEF RefuseIllegal
<1>7. CASE Register(c)
  BY <1>0, <1>7 DEF Register, Answer, Finish, Become, Session
<1>8. CASE SignPublicKey(c)
  <2>1. ASSUME Become(c, [session[c] EXCEPT !.pc = "signed"])
        PROVE  Keyed(session[d])
    BY <1>0, <2>1 DEF Become, Session
  <2> QED
    BY <1>2, <1>8, <2>1 DEF SignPublicKey
<1>9. CASE Decrypt(c)
  <2>1. Keyed(session[c])
    BY <1>9 DEF Decrypt, Starts, Handling, Unexpected
  <2> QED
    BY <1>3, <1>4, <1>9, <2>1 DEF Decrypt
<1>10. CASE SaveFile(c) \/ WriteFile(c) \/ InsertFile(c)
  <2>1. Keyed(session[c])
    BY <1>1, <1>10 DEF SaveFile, WriteFile, InsertFile, Thread, Phase
  <2> QED
    BY <1>3, <1>4, <1>10, <2>1 DEF SaveFile, WriteFile, InsertFile, GotFile, Answer, Finish, netVars
<1>11. CASE CrcNotOk(c) \/ CrcOk(c) \/ CrcError(c) \/ RemoveRow(c)
  <2>1. Keyed(session[c])
    BY <1>1, <1>11 DEF CrcNotOk, CrcOk, CrcError, RemoveRow, Starts, Handling, Unexpected, Thread, Phase
  <2> QED
    BY <1>3, <1>4, <1>11, <2>1 DEF CrcNotOk, CrcOk, CrcError, RemoveRow, Answer, Finish
<1>12. CASE EndOfInput(c)
  BY <1>3, <1>12, ClosedSession DEF EndOfInput
<1> QED
  BY <1>5, <1>6, <1>7, <1>8, <1>9, <1>10, <1>11, <1>12 DEF Handler

LEMMA KeyLoadedStep ==
    ASSUME TypeOK, ClientsAgree, UniqueNames, ThreadsInv, KeyLoaded,
           [ServerNext]_serverVars
    PROVE  KeyLoaded'
<1> SUFFICES ASSUME NEW d \in Conn, Keyed(session'[d])
             PROVE  SomeKey'
  BY DEF KeyLoaded, Keyed, SomeKey
<1>1. ASSUME Keyed(session[d]), UNCHANGED boots
      PROVE  SomeKey'
  BY <1>1, StorageStep, KeyStays DEF KeyLoaded, Keyed, SomeKey
<1>2. ASSUME NEW c \in Conn, Handler(c)
      PROVE  SomeKey'
  <2>1. CASE SignAESKey(c)
    <3>1. CASE Keyed(session[d])
      <4>1. UNCHANGED boots
        BY <2>1 DEF SignAESKey, signAESKey, vars
      <4> QED
        BY <1>1, <3>1, <4>1
    <3>2. CASE ~Keyed(session[d])
      <4>1. inbox[c] \in KeyRequest /\ session \in [Conn -> Session]
        BY <2>1 DEF SignAESKey, ThreadsInv, Thread, Phase
      <4>2. signAESKey(inbox[c].ID, c)
        <5>1. ~Raise(c)
          BY <3>2, <4>1 DEF Raise, Silent, Finish, Become, Session, Keyed
        <5> QED
          BY <2>1, <5>1 DEF SignAESKey
      <4>3. inbox[c].ID \in ID
        BY <4>1 DEF KeyRequest
      <4> QED
        BY <4>2, <4>3, KeyStored, NoKeyAssumption DEF SomeKey
    <3> QED
      BY <3>1, <3>2
  <2>2. CASE ~SignAESKey(c)
    <3>1. UNCHANGED boots
      BY <1>2, <2>2 DEF Handler, Refuse, RefuseIllegal, Register, SignPublicKey, Decrypt, SaveFile,
         WriteFile, InsertFile, CrcNotOk, CrcOk, CrcError, RemoveRow, EndOfInput, vars, regUser,
         signPublicKey, saveFile, writeFile, insertFile, approveFile, removeFile, removeRow
    <3> QED
      BY <1>1, <1>2, <2>2, <3>1, KeyedByKey
  <2> QED
    BY <2>1, <2>2
<1>3. ASSUME NEW c \in Conn, Peer(c)
      PROVE  SomeKey'
  <2>1. UNCHANGED boots
    BY <1>3 DEF Peer, Connect, Receive, Disconnect, Send, vars
  <2>2. Keyed(session[d])
    <3>1. NewSession("receiving").expectedReq = "REGISTRATION"
      BY DEF NewSession
    <3> QED
      BY <1>3, <3>1 DEF Peer, Connect, Receive, Disconnect, Send, Become, ThreadsInv, Keyed
  <2> QED
    BY <1>1, <2>1, <2>2
<1>4. CASE ServerRestart
  <2>1. session'[d].expectedReq = "REGISTRATION"
    BY <1>4, ClosedSession DEF ServerRestart, ThreadsInv, Thread, Phase
  <2> QED
    BY <2>1 DEF Keyed
<1>5. CASE UNCHANGED serverVars
  BY <1>1, <1>5 DEF serverVars, vars, netVars
<1> QED
  BY <1>2, <1>3, <1>4, <1>5 DEF ServerNext

\* A thread that lets its client send a file never finds the server without keys,
\* though loadDB brings the clients back without theirs: the threads of the process
\* before are gone, and a client must exchange keys on its new connection.
THEOREM KeyStaysLoaded == ServerSpec => []KeyLoaded
<1>1. ServerInit => KeyLoaded
  <2>1. NewSession("idle").expectedReq = "REGISTRATION"
    BY DEF NewSession
  <2> QED
    BY <2>1 DEF ServerInit, KeyLoaded
<1>2. /\ TypeOK /\ ClientsAgree /\ UniqueNames /\ ThreadsInv
      /\ KeyLoaded /\ [ServerNext]_serverVars
      => KeyLoaded'
  BY KeyLoadedStep
<1> QED
  BY <1>1, <1>2, ServerUsesStorage, TypeCorrect, ClientsConsistent, ThreadsAlways, PTL
     DEF ServerSpec

\* The server implements the vault, under every interleaving of its threads and any peers.
THEOREM ServerImplementsVault == ServerSpec => ImplementsVault
  BY ServerUsesStorage, StorageImplementsVault
=============================================================================
