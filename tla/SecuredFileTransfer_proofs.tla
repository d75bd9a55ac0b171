--------------------- MODULE SecuredFileTransfer_proofs ---------------------
(***************************************************************************)
(* Proofs about the whole system, for every number of hosts, runs, crashes *)
(* and restarts: what the client programs and the server's threads know of *)
(* each other at every moment.                                             *)
(***************************************************************************)
EXTENDS SecuredFileTransfer, Server_proofs

USE TimesAssumption, GarbageAssumption, NoneAssumption, HostOfAssumption, NameOfAssumption, FileOfAssumption, ContentOfAssumption,
    SizeOfAssumption, ZeroByteIDAssumption, BoundsAssumption, NoMessageAssumption,
    NoInfoAssumption

----------------------------------------------------------------------------
(* What a handler does for its client *)

\* It goes on with the request.
Works(c) ==
    /\ inbox[c] # None
    /\ UNCHANGED <<link, inbox, outbox>>
    /\ session'[c].pc \notin {"idle", "closed"}
    /\ session'[c].expectedReq = session[c].expectedReq
    /\ session'[c].repeats = session[c].repeats

\* It answers the request i with the reply o.
Answers(c, i, o) ==
    /\ i # None /\ o # None
    /\ link'[c] = link[c] /\ inbox'[c] = None
    /\ session'[c].pc \in {"receiving", "closed"}
    /\ \/ /\ i.code = "REGISTRATION" /\ o.code = "REGISTRATION_FAIL"
       \/ /\ i.code = "REGISTRATION" /\ o.code = "REGISTRATION_SUCCESS"
          /\ i.name \in Name /\ regUser(i.name, o.ID) /\ HasName(dbClients', o.ID, i.name)
       \/ /\ i.code = "PUBLIC_KEY" /\ o = [code |-> "SEND_AES", key |-> c]
          /\ session'[c].repeats = session[c].repeats
       \/ /\ i.code = "SEND_FILE" /\ o.code = "GOT_FILE_WITH_CRC"
          /\ session'[c].repeats = session[c].repeats + 1
       \/ /\ i.code \in {"CRC_OK", "CRC_NOT_OK", "CRC_ERROR"} /\ o.code = "RECEIVED_APPROVAL"
          /\ session'[c].pc = "closed" \/ session'[c].repeats = session[c].repeats

\* It leaves the request i without an answer.
Ignores(c, i) ==
    /\ i # None
    /\ link'[c] = link[c] /\ inbox'[c] = None /\ outbox'[c] = outbox[c]
    /\ session'[c].pc = "receiving"
    /\ \/ session[c].pc = "receiving" /\ Unexpected(c)
       \/ i.code = "UNKNOWN"
       \/ i.code = "PUBLIC_KEY" /\ \/ i \in IllegalRequests \/ ~i.usable
                                   \/ ~HasName(clients, i.ID, i.name)

\* It ends the connection.
Closes(c) ==
    /\ link'[c] = link[c] /\ inbox'[c] = None /\ outbox'[c] = outbox[c]
    /\ session'[c].pc = "closed"

HandlerEffect(c) ==
    /\ OnlyThread(c)
    /\ \/ Works(c) \/ Answers(c, inbox[c], outbox'[c]) \/ Ignores(c, inbox[c]) \/ Closes(c)

LEMMA RaiseIgnores ==
    ASSUME ThreadsInv, NEW c \in Conn, Raise(c)
    PROVE  /\ OnlyThread(c) /\ session'[c].pc = "receiving"
           /\ link'[c] = link[c] /\ inbox'[c] = None /\ outbox'[c] = outbox[c]
<1> DEFINE s == [session[c] EXCEPT !.pc = "receiving", !.plaintext = None]
<1>0. session[c] \in Session
  BY DEF ThreadsInv
<1>1. s \in Session /\ s.pc = "receiving"
  BY <1>0 DEF Session
<1>2. Silent(c, s)
  BY DEF Raise
<1> HIDE DEF s
<1> QED
  BY <1>1, <1>2, ThreadChanges

LEMMA GiveUpCloses ==
    ASSUME ThreadsInv, NEW c \in Conn, GiveUp(c)
    PROVE  OnlyThread(c) /\ Closes(c)
  BY ClosedSession, ThreadChanges DEF GiveUp, Closes

\* A thread that goes on keeps its expectation and its count.
LEMMA BecomeWorks ==
    ASSUME ThreadsInv, NEW c \in Conn, inbox[c] # None,
           NEW s \in Session, Become(c, s), UNCHANGED <<link, inbox, outbox>>,
           s.pc \notin {"idle", "closed"},
           s.expectedReq = session[c].expectedReq, s.repeats = session[c].repeats
    PROVE  OnlyThread(c) /\ Works(c)
  BY ThreadChanges DEF Works

LEMMA RefusalEffect ==
    ASSUME ThreadsInv, NEW c \in Conn, Refuse(c) \/ RefuseIllegal(c)
    PROVE  HandlerEffect(c)
<1>1. session[c] \in Session /\ session[c].pc = "receiving" /\ inbox[c] # None
  BY DEF ThreadsInv, Refuse, RefuseIllegal, Handling
<1>2. CASE Refuse(c)
  BY <1>1, <1>2, RaiseIgnores DEF Refuse, HandlerEffect, Ignores
<1>3. CASE RefuseIllegal(c)
  <2>1. CASE inbox[c].code = "PUBLIC_KEY" /\ Raise(c)
    BY <1>1, <1>3, <2>1, RaiseIgnores DEF RefuseIllegal, HandlerEffect, Ignores
  <2>2. CASE GiveUp(c)
    BY <2>2, GiveUpCloses DEF HandlerEffect
  <2>3. CASE inbox[c].code = "REGISTRATION" /\ Answer(c, [code |-> "REGISTRATION_FAIL"], session[c])
    <3> DEFINE o == [code |-> "REGISTRATION_FAIL"]
    <3>1. o # None /\ o.code = "REGISTRATION_FAIL"
      BY DEF Replies
    <3> HIDE DEF o
    <3>2. Answer(c, o, session[c])
      BY <2>3 DEF o
    <3> QED
      BY <1>1, <2>3, <3>1, <3>2, ThreadChanges DEF HandlerEffect, Answers
  <2> QED
    BY <1>3, <2>1, <2>2, <2>3 DEF RefuseIllegal
<1> QED
  BY <1>2, <1>3

LEMMA RegisterEffect ==
    ASSUME ThreadsInv, NEW c \in Conn, Register(c)
    PROVE  HandlerEffect(c)
<1>1. /\ session[c] \in Session /\ session[c].pc = "receiving" /\ inbox[c] # None
      /\ inbox[c].code = "REGISTRATION" /\ inbox[c].name \in Name
  BY Started, RequestOfCode DEF Register, Starts, Handling
<1>2. ASSUME NEW r \in ID, regUser(inbox[c].name, r),
             Answer(c, [code |-> "REGISTRATION_SUCCESS", ID |-> r],
                    [session[c] EXCEPT !.expectedReq = "PUBLIC_KEY"])
      PROVE  HandlerEffect(c)
  <2> DEFINE s == [session[c] EXCEPT !.expectedReq = "PUBLIC_KEY"]
             o == [code |-> "REGISTRATION_SUCCESS", ID |-> r]
  <2>1. s \in Session /\ s.pc = "receiving"
    BY <1>1 DEF Session
  <2>2. o # None /\ o.code = "REGISTRATION_SUCCESS" /\ o.ID = r
    BY DEF Replies
  <2>3. HasName(dbClients', r, inbox[c].name)
    BY <1>2 DEF regUser
  <2>4. Answer(c, o, s)
    BY <1>2
  <2> HIDE DEF o, s
  <2>5. regUser(inbox[c].name, o.ID)
    BY <1>2, <2>2
  <2> QED
    BY <1>1, <2>1, <2>2, <2>3, <2>4, <2>5, ThreadChanges DEF HandlerEffect, Answers
<1>3. ASSUME Answer(c, [code |-> "REGISTRATION_FAIL"], session[c])
      PROVE  HandlerEffect(c)
  <2> DEFINE o == [code |-> "REGISTRATION_FAIL"]
  <2>1. o # None /\ o.code = "REGISTRATION_FAIL"
    BY DEF Replies
  <2>2. Answer(c, o, session[c])
    BY <1>3
  <2> HIDE DEF o
  <2> QED
    BY <1>1, <2>1, <2>2, ThreadChanges DEF HandlerEffect, Answers
<1> QED
  BY <1>2, <1>3 DEF Register

LEMMA KeyEffect ==
    ASSUME ThreadsInv, NEW c \in Conn, SignPublicKey(c) \/ SignAESKey(c)
    PROVE  HandlerEffect(c)
<1>0. Thread(c, link[c], session[c], inbox[c], outbox[c])
  BY DEF ThreadsInv
<1>1. CASE SignPublicKey(c)
  <2>1. /\ session[c] \in Session /\ inbox[c] # None /\ inbox[c].code = "PUBLIC_KEY"
    BY <1>1, Started DEF SignPublicKey, Starts, Handling
  <2> DEFINE s == [session[c] EXCEPT !.pc = "signed"]
  <2>2. /\ s \in Session /\ s.pc = "signed"
        /\ s.expectedReq = session[c].expectedReq /\ s.repeats = session[c].repeats
    BY <2>1 DEF Session
  <2>3. \/ Become(c, s) /\ UNCHANGED <<link, inbox, outbox>>
        \/ Raise(c) /\ ~HasName(clients, inbox[c].ID, inbox[c].name)
    BY <1>1 DEF SignPublicKey
  <2> HIDE DEF s
  <2> QED
    BY <2>1, <2>2, <2>3, BecomeWorks, RaiseIgnores DEF HandlerEffect, Ignores
<1>2. CASE SignAESKey(c)
  <2>1. /\ session[c] \in Session /\ inbox[c] # None /\ inbox[c].code = "PUBLIC_KEY"
    BY <1>0, <1>2 DEF SignAESKey, Thread, Phase, KeyRequest
  <2> DEFINE s == [session[c] EXCEPT !.pc = "receiving", !.expectedReq = "SEND_FILE"]
             o == [code |-> "SEND_AES", key |-> c]
  <2>2. s \in Session /\ s.pc = "receiving" /\ s.repeats = session[c].repeats
    BY <2>1 DEF Session
  <2>3. o # None
    BY DEF Replies
  <2>4. Answer(c, o, s) \/ (Raise(c) /\ ~inbox[c].usable)
    BY <1>2 DEF SignAESKey
  <2>5. CASE Raise(c) /\ ~inbox[c].usable
    BY <2>1, <2>5, RaiseIgnores DEF HandlerEffect, Ignores
  <2>6. CASE Answer(c, o, s)
    <3> HIDE DEF s
    <3>1. /\ OnlyThread(c) /\ session'[c] = s
          /\ link'[c] = link[c] /\ inbox'[c] = None /\ outbox'[c] = o
      BY <2>2, <2>6, ThreadChanges
    <3> QED
      BY <2>1, <2>2, <2>3, <3>1 DEF HandlerEffect, Answers
  <2> QED
    BY <2>4, <2>5, <2>6
<1> QED
  BY <1>1, <1>2

LEMMA FileEffect ==
    ASSUME ThreadsInv, NEW c \in Conn,
           Decrypt(c) \/ SaveFile(c) \/ WriteFile(c) \/ InsertFile(c)
    PROVE  HandlerEffect(c)
<1>0. Thread(c, link[c], session[c], inbox[c], outbox[c]) /\ session[c] \in Session
  BY DEF ThreadsInv
<1>1. CASE Decrypt(c)
  <2> DEFINE text == Decrypted(KeyOf(inbox[c].ID), inbox[c].key, inbox[c].content)
             s == [session[c] EXCEPT !.pc = "decrypted", !.plaintext = text]
  <2>1. /\ inbox[c] # None /\ inbox[c] \in Requests(c) /\ inbox[c] \notin IllegalRequests
        /\ inbox[c].code = "SEND_FILE"
    BY <1>1, Started DEF Decrypt, Starts, Handling
  <2>2. text \in Content
    <3>1. inbox[c] \in SaveRequest(c)
      BY <2>1, RequestOfCode
    <3> QED
      BY <3>1 DEF Decrypted, SaveRequest
  <2>3. /\ s \in Session /\ s.pc = "decrypted"
        /\ s.expectedReq = session[c].expectedReq /\ s.repeats = session[c].repeats
    BY <1>0, <2>2 DEF Session
  <2>4. (Become(c, s) /\ UNCHANGED <<link, inbox, outbox>>) \/ GiveUp(c)
    BY <1>1 DEF Decrypt
  <2> HIDE DEF s
  <2> QED
    BY <2>1, <2>3, <2>4, BecomeWorks, GiveUpCloses DEF HandlerEffect
<1>2. CASE SaveFile(c)
  <2> DEFINE s == [session[c] EXCEPT !.pc = "saving"]
  <2>1. inbox[c] # None
    BY <1>0, <1>2 DEF SaveFile, Thread, Phase
  <2>2. /\ s \in Session /\ s.pc = "saving"
        /\ s.expectedReq = session[c].expectedReq /\ s.repeats = session[c].repeats
    BY <1>0 DEF Session
  <2>3. (Become(c, s) /\ UNCHANGED <<link, inbox, outbox>>) \/ GiveUp(c)
    BY <1>2 DEF SaveFile
  <2> HIDE DEF s
  <2> QED
    BY <2>1, <2>2, <2>3, BecomeWorks, GiveUpCloses DEF HandlerEffect
<1>3. ASSUME session[c].pc = "saving"
      PROVE  /\ inbox[c] # None /\ inbox[c].code = "SEND_FILE"
             /\ session[c].repeats + 1 \in 0..TIMES /\ session[c].plaintext \in Content
  <2>1. /\ inbox[c] \in SaveRequest(c) /\ inbox[c] # None
        /\ session[c].repeats < TIMES /\ session[c].plaintext \in Content
    BY <1>0, <1>3 DEF Thread, Phase
  <2>2. session[c].repeats \in 0..TIMES
    BY <1>0 DEF Session
  <2> QED
    BY <2>1, <2>2 DEF SaveRequest
<1>4. ASSUME session[c].pc = "saving", GotFile(c)
      PROVE  HandlerEffect(c)
  <2> DEFINE s == [session[c] EXCEPT !.pc = "receiving", !.expectedReq = "CRC_OK",
                                     !.repeats = session[c].repeats + 1, !.plaintext = None]
             o == [code |-> "GOT_FILE_WITH_CRC", crc |-> session[c].plaintext]
  <2>0. session[c] \in Session /\ session[c].repeats + 1 \in 0..TIMES
    BY <1>0, <1>3, <1>4
  <2>1. s \in Session /\ s.pc = "receiving" /\ s.repeats = session[c].repeats + 1
    <3> DEFINE n == session[c].repeats + 1
    <3>1. n \in 0..TIMES
      BY <2>0
    <3> HIDE DEF n
    <3>2. /\ [session[c] EXCEPT !.pc = "receiving", !.expectedReq = "CRC_OK",
                                 !.repeats = n, !.plaintext = None] \in Session
          /\ [session[c] EXCEPT !.pc = "receiving", !.expectedReq = "CRC_OK",
                                 !.repeats = n, !.plaintext = None].pc = "receiving"
          /\ [session[c] EXCEPT !.pc = "receiving", !.expectedReq = "CRC_OK",
                                 !.repeats = n, !.plaintext = None].repeats = n
      BY <2>0, <3>1 DEF Session
    <3> QED
      BY <3>2 DEF n
  <2>2. o # None /\ o.code = "GOT_FILE_WITH_CRC"
    BY <1>3, <1>4 DEF Replies
  <2>3. Answer(c, o, s)
    BY <1>4 DEF GotFile
  <2> HIDE DEF o, s
  <2> QED
    BY <1>3, <1>4, <2>1, <2>2, <2>3, ThreadChanges DEF HandlerEffect, Answers
<1>5. CASE WriteFile(c)
  <2>1. CASE UNCHANGED netVars
    <3>1. OnlyThread(c)
      BY <2>1 DEF netVars, OnlyThread, ThreadsInv
    <3> QED
      BY <1>3, <1>5, <2>1, <3>1 DEF WriteFile, netVars, HandlerEffect, Works
  <2> QED
    BY <1>4, <1>5, <2>1 DEF WriteFile
<1>6. CASE InsertFile(c)
  BY <1>4, <1>6 DEF InsertFile
<1> QED
  BY <1>1, <1>2, <1>5, <1>6

LEMMA VerdictEffect ==
    ASSUME ThreadsInv, NEW c \in Conn,
           CrcNotOk(c) \/ CrcOk(c) \/ CrcError(c) \/ RemoveRow(c)
    PROVE  HandlerEffect(c)
<1>0. Thread(c, link[c], session[c], inbox[c], outbox[c]) /\ session[c] \in Session
  BY DEF ThreadsInv
<1>a. RECEIVED_APPROVAL # None /\ RECEIVED_APPROVAL.code = "RECEIVED_APPROVAL"
  BY ApprovalReply
<1>1. CASE CrcNotOk(c)
  <2>1. session[c].pc = "receiving" /\ inbox[c] # None /\ inbox[c].code = "CRC_NOT_OK"
    BY <1>1, Started DEF CrcNotOk, Starts, Handling
  <2> DEFINE s == [session[c] EXCEPT !.expectedReq = "SEND_FILE"]
  <2>2. s \in Session /\ s.pc = "receiving" /\ s.repeats = session[c].repeats
    BY <1>0, <2>1 DEF Session
  <2>3. Answer(c, RECEIVED_APPROVAL, s)
    BY <1>1 DEF CrcNotOk
  <2> HIDE DEF s
  <2> QED
    BY <1>a, <2>1, <2>2, <2>3, ThreadChanges DEF HandlerEffect, Answers
<1>2. ASSUME inbox[c] # None, inbox[c].code \in {"CRC_OK", "CRC_NOT_OK", "CRC_ERROR"},
             Answer(c, RECEIVED_APPROVAL, NewSession("closed"))
      PROVE  HandlerEffect(c)
  BY <1>a, <1>2, ClosedSession, ThreadChanges DEF HandlerEffect, Answers
<1>3. CASE CrcOk(c)
  <2>1. inbox[c] # None /\ inbox[c].code = "CRC_OK"
    BY <1>3, Started DEF CrcOk, Starts, Handling
  <2> QED
    BY <1>2, <1>3, <2>1, GiveUpCloses DEF CrcOk, HandlerEffect
<1>4. CASE CrcError(c)
  <2>1. inbox[c] # None
    BY <1>4, Started DEF CrcError, Starts, Handling
  <2> DEFINE s == [session[c] EXCEPT !.pc = "removing"]
  <2>2. /\ s \in Session /\ s.pc = "removing"
        /\ s.expectedReq = session[c].expectedReq /\ s.repeats = session[c].repeats
    BY <1>0 DEF Session
  <2>3. (Become(c, s) /\ UNCHANGED <<link, inbox, outbox>>) \/ GiveUp(c)
    BY <1>4 DEF CrcError
  <2> HIDE DEF s
  <2> QED
    BY <2>1, <2>2, <2>3, BecomeWorks, GiveUpCloses DEF HandlerEffect
<1>5. CASE RemoveRow(c)
  <2>1. /\ inbox[c] # None
        /\ inbox[c].code \in {"CRC_OK", "CRC_NOT_OK", "CRC_ERROR"}
    BY <1>0, <1>5 DEF RemoveRow, Thread, Phase, VerdictRequest
  <2> QED
    BY <1>2, <1>5, <2>1 DEF RemoveRow
<1> QED
  BY <1>1, <1>3, <1>4, <1>5

\* Every step of a handler is of one of the four kinds.
LEMMA HandlerDoes ==
    ASSUME ThreadsInv, NEW c \in Conn, Handler(c)
    PROVE  HandlerEffect(c)
<1>1. CASE EndOfInput(c)
  BY <1>1, ClosedSession DEF EndOfInput, Become, ThreadsInv, OnlyThread, HandlerEffect, Closes
<1> QED
  BY <1>1, RefusalEffect, RegisterEffect, KeyEffect, FileEffect, VerdictEffect DEF Handler

----------------------------------------------------------------------------
(* What a program does on its connection *)

\* The step leaves the other connections, and thread s, request i and reply o on c.
OnConnection(c, s, i, o) ==
    OnlyThread(c) /\ session'[c] = s /\ inbox'[c] = i /\ outbox'[c] = o

LEMMA NoneOnConnection ==
    ASSUME ThreadsInv, NEW c \in Conn, UNCHANGED netVars
    PROVE  OnConnection(c, session[c], inbox[c], outbox[c])
  BY DEF netVars, ThreadsInv, OnlyThread, OnConnection

LEMMA ConnectOn ==
    ASSUME ThreadsInv, NEW c \in Conn, Connect(c)
    PROVE  OnConnection(c, NewSession("receiving"), None, None)
<1>1. Thread(c, link[c], session[c], inbox[c], outbox[c])
  BY DEF ThreadsInv
<1>2. NewSession("receiving") \in Session
  BY DEF NewSession, Session
<1>3. OnlyThread(c) /\ session'[c] = NewSession("receiving")
  BY <1>2 DEF Connect, Become, ThreadsInv, OnlyThread
<1> QED
  BY <1>1, <1>3 DEF Connect, OnConnection, Thread, Phase

LEMMA SendOn ==
    ASSUME ThreadsInv, NEW c \in Conn, NEW q, Send(c, q)
    PROVE  OnConnection(c, session[c], q, None)
  BY DEF Send, ThreadsInv, OnlyThread, OnConnection

\* A reply is there only when no request is.
LEMMA ReceiveOn ==
    ASSUME ThreadsInv, NEW c \in Conn, Receive(c)
    PROVE  OnConnection(c, session[c], None, None)
<1>1. Thread(c, link[c], session[c], inbox[c], outbox[c])
  BY DEF ThreadsInv
<1>2. inbox[c] = None
  BY <1>1 DEF Receive, Thread, Agrees
<1> QED
  BY <1>2 DEF Receive, ThreadsInv, OnlyThread, OnConnection

LEMMA DisconnectOn ==
    ASSUME ThreadsInv, NEW c \in Conn, Disconnect(c)
    PROVE  OnConnection(c, session[c], inbox[c], None)
  BY DEF Disconnect, ThreadsInv, OnlyThread, OnConnection

LEMMA ExchangeOn ==
    ASSUME ThreadsInv, NEW c \in Conn, NEW q, Exchange(c, q)
    PROVE  OnConnection(c, session[c], IF session[c].pc = "closed" THEN None ELSE q, None)
  BY DEF Exchange, ThreadsInv, OnlyThread, OnConnection

\* The server takes what an exchange leaves for a request in turn: when a reply
\* that asks for one is there, the thread is not at its start.
LEMMA ExchangeThread ==
    ASSUME ThreadsInv, NEW c \in Conn, NEW q \in Requests(c), Exchange(c, q),
           outbox[c] # None,
           outbox[c].code \in {"SEND_AES", "GOT_FILE_WITH_CRC", "RECEIVED_APPROVAL"}
    PROVE  ThreadsInv'
<1>1. Thread(c, link[c], session[c], inbox[c], outbox[c])
  BY DEF ThreadsInv
<1>2. session[c].pc = "closed" \/ session[c].expectedReq \in {"SEND_FILE", "CRC_OK"}
  BY <1>1 DEF Thread, Agrees, Expects
<1>3. inbox[c] = None
  BY <1>1 DEF Thread, Agrees
<1>4. session[c].pc \in {"receiving", "closed"}
  BY <1>1, <1>2, <1>3 DEF Thread, Phase, Session
<1> DEFINE i == IF session[c].pc = "closed" THEN None ELSE q
<1>5. Thread(c, link[c], session[c], i, None)
  BY <1>1, <1>4 DEF Thread, Phase, Agrees
<1>6. link'[c] = link[c]
  BY DEF Exchange
<1> QED
  BY <1>5, <1>6, ExchangeOn, OneThread DEF OnConnection

----------------------------------------------------------------------------
(* The programs keep to the protocol *)

Identified == {"create", "keying", "sending", "rejecting", "approving", "aborting"}

\* Run c has an identifier when it needs one, me.info is there when it reads it,
\* and the key it gets is that of its own connection.
RunInv(c) ==
    /\ client[c].pc \in Identified => client[c].userId \in ID
    /\ client[c].pc = "load" => meInfo[HostOf[c]] # None
    /\ outbox[c] # None /\ outbox[c].code = "SEND_AES" => outbox[c].key = c

RunsInv ==
    /\ client \in [Conn -> Run]
    /\ meInfo \in [Host -> UserInfo \cup {None, Partial}]
    /\ crashes \in 0..MaxCrash
    /\ \A c \in Conn : RunInv(c)

\* Each request a program sends is one the server knows.
LEMMA ProgramRequests ==
    ASSUME RunsInv, NEW c \in Conn
    PROVE  /\ RegistrationRequest(c) \in Requests(c)
           /\ client[c].userId \in ID => FileRequest(c, c) \in Requests(c)
           /\ client[c].userId \in ID =>
                \A code \in {"CRC_OK", "CRC_NOT_OK", "CRC_ERROR"} : CrcRequest(c, code) \in Requests(c)
           /\ \A info \in UserInfo :
                [code |-> "PUBLIC_KEY", ID |-> info.ID, name |-> info.name, usable |-> TRUE]
                  \in Requests(c)
<1>1. /\ HostOf[c] \in Host /\ NameOf[HostOf[c]] \in Name /\ FileOf[HostOf[c]] \in FileName
      /\ ContentOf[c] \in Content
  OBVIOUS
<1>2. RegistrationRequest(c) \in Requests(c)
  BY <1>1 DEF RegistrationRequest, Requests
<1>3. ASSUME client[c].userId \in ID
      PROVE  FileRequest(c, c) \in Requests(c)
  <2>1. FileFate(SizeOf[c]) \in {"misframed", "illegal", "handled"}
    BY DEF FileFate
  <2>2. [code |-> "UNKNOWN"] \in Requests(c) /\ [code |-> "SEND_FILE"] \in Requests(c)
    BY DEF Requests, IllegalRequests, Codes
  <2>3. [code |-> "SEND_FILE", ID |-> client[c].userId, fileName |-> FileOf[HostOf[c]],
         content |-> ContentOf[c], key |-> c] \in Requests(c)
    BY <1>1, <1>3 DEF Requests
  <2> QED
    BY <2>1, <2>2, <2>3 DEF FileRequest
<1>4. ASSUME client[c].userId \in ID, NEW code \in {"CRC_OK", "CRC_NOT_OK", "CRC_ERROR"}
      PROVE  CrcRequest(c, code) \in Requests(c)
  BY <1>1, <1>4 DEF CrcRequest, Requests
<1>5. ASSUME NEW info \in UserInfo
      PROVE  [code |-> "PUBLIC_KEY", ID |-> info.ID, name |-> info.name, usable |-> TRUE]
               \in Requests(c)
  BY DEF UserInfo, Requests
<1> QED
  BY <1>2, <1>3, <1>4, <1>5

ClientStep(c) == Launch(c) \/ Program(c) \/ Crash(c)

\* The step is an exchange: a reply that asks for it is there.
Exchanges(c) == \E q \in Requests(c) :
    /\ Exchange(c, q)
    /\ outbox[c] # None
    /\ outbox[c].code \in {"SEND_AES", "GOT_FILE_WITH_CRC", "RECEIVED_APPROVAL"}

\* A program acts as a peer the server knows, or on its host only.
LEMMA ClientPeers ==
    ASSUME RunsInv, NEW c \in Conn, ClientStep(c)
    PROVE  Peer(c) \/ UNCHANGED serverVars \/ Exchanges(c)
<1>1. CASE Launch(c) \/ Registered(c) \/ RegistrationFailed(c) \/ End(c) \/ ServerClosed(c)
           \/ Crash(c)
  BY <1>1 DEF Launch, Registered, RegistrationFailed, End, ServerClosed, Crash, Peer
<1>2. CASE CheckInfo(c)
  BY <1>2, ProgramRequests DEF CheckInfo, Peer
<1>3. CASE CreateInfo(c)
  BY <1>3 DEF CreateInfo
<1>4. CASE LoadInfo(c)
  <2> DEFINE info == meInfo[HostOf[c]]
  <2>1. client[c].pc = "load" /\ info \in UserInfo \cup {Partial}
    BY <1>4 DEF LoadInfo, RunsInv, RunInv
  <2>2. CASE info = Partial
    BY <1>4, <2>2 DEF LoadInfo, Peer
  <2>3. CASE info \in UserInfo /\ info # Partial
    BY <1>4, <2>3, ProgramRequests DEF LoadInfo, Peer
  <2> QED
    BY <2>1, <2>2, <2>3
<1>5. client[c].pc \in Identified => client[c].userId \in ID
  BY DEF RunsInv, RunInv
<1>6. CASE SendFirst(c)
  <2>1. outbox[c].key = c
    BY <1>6 DEF SendFirst, Reply, RunsInv, RunInv
  <2>2. FileRequest(c, outbox[c].key) \in Requests(c)
    BY <1>5, <1>6, <2>1, ProgramRequests DEF SendFirst, Reply, Identified
  <2> QED
    BY <1>6, <2>2 DEF SendFirst, Reply, Exchanges
<1>7. CASE CompareCrc(c)
  <2>1. \A code \in {"CRC_OK", "CRC_NOT_OK", "CRC_ERROR"} : CrcRequest(c, code) \in Requests(c)
    BY <1>5, <1>7, ProgramRequests DEF CompareCrc, Reply, Identified
  <2>2. \E code \in {"CRC_OK", "CRC_NOT_OK", "CRC_ERROR"} : Exchange(c, CrcRequest(c, code))
    BY <1>7 DEF CompareCrc
  <2> QED
    BY <1>7, <2>1, <2>2 DEF CompareCrc, Reply, Exchanges
<1>8. CASE Resend(c)
  BY <1>5, <1>8, ProgramRequests DEF Resend, Reply, Identified, Exchanges
<1> QED
  BY <1>1, <1>2, <1>3, <1>4, <1>6, <1>7, <1>8 DEF ClientStep, Program

\* It touches its own connection only, and nothing of the storage.
LEMMA ClientThreads ==
    ASSUME ThreadsInv, RunsInv, NEW c \in Conn, ClientStep(c)
    PROVE  ThreadsInv' /\ OnlyThread(c) /\ UNCHANGED vars
<1>1. CASE Peer(c)
  BY <1>1, PeerThreads, ConnectOn, SendOn, ReceiveOn, DisconnectOn
     DEF Peer, OnConnection, Connect, Send, Receive, Disconnect
<1>2. CASE UNCHANGED serverVars
  BY <1>2, ThreadsStep, NoneOnConnection DEF OnConnection, serverVars
<1>3. CASE Exchanges(c)
  BY <1>3, ExchangeThread, ExchangeOn DEF OnConnection, Exchange, Exchanges
<1> QED
  BY <1>1, <1>2, <1>3, ClientPeers

\* The step leaves the programs of the other runs.
OnlyRun(c) ==
    /\ client' \in [Conn -> Run]
    /\ \A d \in Conn : d # c => client'[d] = client[d]

LEMMA GotoRun ==
    ASSUME RunsInv, NEW c \in Conn, NEW pc, Goto(c, pc),
           pc \in {"start", "check", "create", "load"} \cup Waiting \cup Over
    PROVE  /\ OnlyRun(c) /\ client'[c].pc = pc
           /\ client'[c].userId = client[c].userId /\ client'[c].times = client[c].times
<1>1. client \in [Conn -> Run] /\ client[c] \in Run
  BY DEF RunsInv
<1> DEFINE r == [client[c] EXCEPT !.pc = pc]
<1>2. r \in Run /\ r.pc = pc /\ r.userId = client[c].userId /\ r.times = client[c].times
  BY <1>1 DEF Run
<1>3. client' = [client EXCEPT ![c] = r]
  BY <1>1 DEF Goto
<1> HIDE DEF r
<1> QED
  BY <1>1, <1>2, <1>3 DEF OnlyRun

\* The run takes an identifier as it goes on.
LEMMA IdentifiedRun ==
    ASSUME RunsInv, NEW c \in Conn, NEW pc \in {"create", "keying"}, NEW r \in ID,
           client' = [client EXCEPT ![c].pc = pc, ![c].userId = r]
    PROVE  OnlyRun(c) /\ client'[c].pc = pc /\ client'[c].userId = r
             /\ client'[c].times = client[c].times
<1>1. client \in [Conn -> Run] /\ client[c] \in Run
  BY DEF RunsInv
<1> DEFINE run == [client[c] EXCEPT !.pc = pc, !.userId = r]
<1>2. run \in Run /\ run.pc = pc /\ run.userId = r /\ run.times = client[c].times
  BY <1>1 DEF Run, Waiting
<1>3. client' = [client EXCEPT ![c] = run]
  BY <1>1
<1> HIDE DEF run
<1>4. client'[c] = run /\ client' \in [Conn -> Run]
  <2> DEFINE runs == [client EXCEPT ![c] = run]
  <2>1. runs[c] = run /\ runs \in [Conn -> Run]
    BY <1>1, <1>2
  <2>2. client' = runs
    BY <1>3
  <2> HIDE DEF runs
  <2> QED
    BY <2>1, <2>2
<1>5. \A d \in Conn : d # c => client'[d] = client[d]
  BY <1>1, <1>3
<1> QED
  BY <1>2, <1>4, <1>5 DEF OnlyRun

LEMMA AnotherRound ==
    ASSUME RunsInv, NEW c \in Conn, ~LastRound(c),
           client' = [client EXCEPT ![c].pc = "rejecting", ![c].times = @ + 1]
    PROVE  OnlyRun(c) /\ client'[c].pc = "rejecting" /\ client'[c].userId = client[c].userId
             /\ client'[c].times = client[c].times + 1
<1>1. client \in [Conn -> Run] /\ client[c] \in Run
  BY DEF RunsInv
<1> DEFINE n == client[c].times + 1
           run == [client[c] EXCEPT !.pc = "rejecting", !.times = n]
<1>2. n \in 0..FILE_SENDING_TIMES
  BY <1>1 DEF LastRound, Run
<1> HIDE DEF n
<1>3. run \in Run /\ run.pc = "rejecting" /\ run.userId = client[c].userId /\ run.times = n
  BY <1>1, <1>2 DEF Run, Waiting
<1>4. client' = [client EXCEPT ![c] = run]
  BY <1>1 DEF n
<1> HIDE DEF run
<1> QED
  BY <1>1, <1>3, <1>4 DEF OnlyRun, n

\* What the step of run c owes the other runs: their programs and connections are
\* as they were, and no me.info disappears.
LEMMA OtherRuns ==
    ASSUME RunsInv, NEW c \in Conn, OnlyRun(c), OnlyThread(c), RunInv(c)',
           meInfo' \in [Host -> UserInfo \cup {None, Partial}], crashes' \in 0..MaxCrash,
           \A h \in Host : meInfo[h] # None => meInfo'[h] # None
    PROVE  RunsInv'
<1> SUFFICES ASSUME NEW d \in Conn, d # c
             PROVE  RunInv(d)'
  BY DEF RunsInv, OnlyRun
<1>1. client'[d] = client[d] /\ outbox'[d] = outbox[d] /\ HostOf[d] \in Host
  BY DEF OnlyRun, OnlyThread
<1> QED
  BY <1>1 DEF RunsInv, RunInv

\* A run that is over, that waits for nothing or that has its identifier.
LEMMA SettledRun ==
    ASSUME NEW c \in Conn, outbox'[c] = None, client'[c].pc # "load",
           client'[c].pc \in Identified => client'[c].userId \in ID
    PROVE  RunInv(c)'
  BY DEF RunInv

LEMMA ClientRuns ==
    ASSUME ThreadsInv, RunsInv, NEW c \in Conn, ClientStep(c)
    PROVE  RunsInv'
<1>0. OnlyThread(c)
  BY ClientThreads
<1>1. ASSUME UNCHANGED <<meInfo, crashes>>, OnlyRun(c), RunInv(c)'
      PROVE  RunsInv'
  BY <1>0, <1>1, OtherRuns DEF RunsInv
<1>2. client[c].pc \in Identified => client[c].userId \in ID
  BY DEF RunsInv, RunInv
<1>3. CASE Launch(c)
  BY <1>1, <1>3, GotoRun, ConnectOn, SettledRun DEF Launch, OnConnection, Identified
<1>4. CASE CheckInfo(c)
  <2>1. CASE Send(c, RegistrationRequest(c)) /\ Goto(c, "registering")
    BY <1>1, <1>4, <2>1, GotoRun, SendOn, SettledRun DEF CheckInfo, OnConnection, Identified, Waiting
  <2>2. CASE meInfo[HostOf[c]] # None /\ UNCHANGED serverVars /\ Goto(c, "load")
    BY <1>1, <1>4, <2>2, GotoRun DEF CheckInfo, RunInv, RunsInv, serverVars, netVars, Identified
  <2> QED
    BY <1>4, <2>1, <2>2 DEF CheckInfo
<1>5. CASE Registered(c)
  <2>1. outbox[c].code = "REGISTRATION_SUCCESS" /\ outbox[c] \in Replies
    BY <1>5, NoneAssumption DEF Registered, Reply, ThreadsInv, Thread
  <2>2. outbox[c].ID \in ID
    BY <2>1 DEF Replies
  <2>3. UserIds(outbox[c].ID) \subseteq ID
    BY <2>2 DEF UserIds
  <2>4. OnlyRun(c) /\ client'[c].pc = "create" /\ client'[c].userId \in ID
    BY <1>5, <2>3, IdentifiedRun DEF Registered
  <2>5. RunInv(c)'
    BY <1>5, <2>4, ReceiveOn, SettledRun DEF Registered, OnConnection
  <2>6. /\ meInfo' \in [Host -> UserInfo \cup {None, Partial}]
        /\ \A h \in Host : meInfo[h] # None => meInfo'[h] # None
    BY <1>5 DEF Registered, RunsInv
  <2> QED
    BY <1>0, <1>5, <2>4, <2>5, <2>6, OtherRuns DEF Registered, RunsInv
<1>6. CASE CreateInfo(c)
  <2> DEFINE info == [name |-> NameOf[HostOf[c]], ID |-> client[c].userId]
  <2>1. info \in UserInfo
    BY <1>2, <1>6 DEF CreateInfo, Identified, UserInfo
  <2>2. meInfo' = [meInfo EXCEPT ![HostOf[c]] = info]
    BY <1>6 DEF CreateInfo
  <2> HIDE DEF info
  <2>3. /\ meInfo' \in [Host -> UserInfo \cup {None, Partial}]
        /\ \A h \in Host : meInfo[h] # None => meInfo'[h] # None
        /\ meInfo'[HostOf[c]] # None
    BY <2>1, <2>2 DEF RunsInv
  <2>4. OnlyRun(c) /\ client'[c].pc = "load"
    BY <1>6, GotoRun DEF CreateInfo
  <2>5. RunInv(c)'
    BY <1>6, <2>3, <2>4 DEF CreateInfo, RunInv, RunsInv, serverVars, netVars, Identified
  <2> QED
    BY <1>0, <1>6, <2>3, <2>4, <2>5, OtherRuns DEF CreateInfo, RunsInv
<1>7. CASE LoadInfo(c)
  <2> DEFINE info == meInfo[HostOf[c]]
  <2>1. client[c].pc = "load" /\ info \in UserInfo \cup {Partial}
    BY <1>7 DEF LoadInfo, RunsInv, RunInv
  <2>2. CASE info = Partial
    BY <1>1, <1>7, <2>2, GotoRun, DisconnectOn, SettledRun
       DEF LoadInfo, OnConnection, Identified, Over
  <2>3. CASE info \in UserInfo /\ info # Partial
    <3>1. info.ID \in ID
      BY <2>3 DEF UserInfo
    <3>2. OnlyRun(c) /\ client'[c].pc = "keying" /\ client'[c].userId \in ID
      BY <1>7, <2>3, <3>1, IdentifiedRun DEF LoadInfo
    <3> QED
      BY <1>1, <1>7, <2>3, <3>2, SendOn, SettledRun DEF LoadInfo, OnConnection
  <2> QED
    BY <2>1, <2>2, <2>3
<1>8. ASSUME NEW q, Exchange(c, q), NEW pc \in Identified \ {"create"}, Goto(c, pc),
             client[c].pc \in Identified, UNCHANGED <<meInfo, crashes>>
      PROVE  RunsInv'
  BY <1>1, <1>2, <1>8, GotoRun, ExchangeOn, SettledRun DEF OnConnection, Identified, Waiting
<1>9. CASE SendFirst(c) \/ Resend(c)
  BY <1>8, <1>9 DEF SendFirst, Resend, Reply, Identified
<1>10. CASE CompareCrc(c)
  <2>1. CASE /\ ~LastRound(c) /\ Exchange(c, CrcRequest(c, "CRC_NOT_OK"))
             /\ client' = [client EXCEPT ![c].pc = "rejecting", ![c].times = @ + 1]
    BY <1>1, <1>2, <1>10, <2>1, AnotherRound, ExchangeOn, SettledRun
       DEF CompareCrc, Reply, OnConnection, Identified
  <2> QED
    BY <1>8, <1>10, <2>1 DEF CompareCrc, Reply, Identified
<1>11. ASSUME NEW pc \in Over, Goto(c, pc), Disconnect(c), meInfo' = meInfo,
              crashes' \in 0..MaxCrash
       PROVE  RunsInv'
  BY <1>0, <1>11, GotoRun, DisconnectOn, SettledRun, OtherRuns
     DEF OnConnection, Over, Identified, RunsInv
<1>12. CASE RegistrationFailed(c) \/ End(c) \/ ServerClosed(c)
  BY <1>11, <1>12 DEF RegistrationFailed, End, ServerClosed, Over, RunsInv
<1>13. CASE Crash(c)
  <2>1. crashes' \in 0..MaxCrash
    BY <1>13 DEF Crash, RunsInv
  <2> QED
    BY <1>11, <1>13, <2>1 DEF Crash, Over
<1> QED
  BY <1>3, <1>4, <1>5, <1>6, <1>7, <1>9, <1>10, <1>12, <1>13 DEF ClientStep, Program

LEMMA HandlerRuns ==
    ASSUME ThreadsInv, RunsInv, NEW c \in Conn, HandlerStep(c)
    PROVE  RunsInv'
<1>1. HandlerEffect(c)
  BY HandlerDoes DEF HandlerStep
<1>2. UNCHANGED clientVars
  BY DEF HandlerStep
<1>3. client' = client /\ meInfo' = meInfo /\ crashes' = crashes
  BY <1>2 DEF clientVars
<1>4. ASSUME NEW d \in Conn
      PROVE  outbox'[d] # None /\ outbox'[d].code = "SEND_AES" => outbox'[d].key = d
  <2>1. outbox[d] # None /\ outbox[d].code = "SEND_AES" => outbox[d].key = d
    BY DEF RunsInv, RunInv
  <2>2. CASE outbox'[d] = outbox[d]
    BY <2>1, <2>2
  <2>3. CASE d = c /\ Answers(c, inbox[c], outbox'[c])
    BY <2>3 DEF Answers
  <2> QED
    BY <1>1, <2>2, <2>3 DEF HandlerEffect, OnlyThread, Works, Ignores, Closes
<1> QED
  BY <1>3, <1>4 DEF RunsInv, RunInv

LEMMA CrashRuns ==
    ASSUME RunsInv, ServerCrash \/ UNCHANGED systemVars
    PROVE  RunsInv'
<1>1. \A c \in Conn : outbox'[c] = None \/ outbox'[c] = outbox[c]
  BY DEF ServerCrash, ServerRestart, systemVars, serverVars, netVars
<1>2. client' = client /\ meInfo' = meInfo /\ crashes' = crashes
  BY DEF ServerCrash, systemVars, clientVars
<1> QED
  BY <1>1, <1>2 DEF RunsInv, RunInv

LEMMA RunsInit == SystemInit => ThreadsInv /\ RunsInv
<1> SUFFICES ASSUME SystemInit PROVE ThreadsInv /\ RunsInv
  OBVIOUS
<1> DEFINE r == [pc |-> "start", userId |-> None, times |-> 0]
<1>1. r \in Run /\ r.pc = "start"
  BY DEF Run
<1>2. client = [c \in Conn |-> r]
  BY DEF SystemInit
<1> HIDE DEF r
<1>3. client \in [Conn -> Run] /\ \A c \in Conn : client[c].pc = "start" /\ outbox[c] = None
  BY <1>1, <1>2 DEF SystemInit, ServerInit
<1>4. \A c \in Conn : RunInv(c)
  BY <1>3 DEF RunInv, Identified
<1> QED
  BY <1>3, <1>4, ThreadsInit DEF SystemInit, RunsInv

\* Every step of the system is a step of a program, of a thread or of the process.
LEMMA SystemSteps ==
    ASSUME [SystemNext]_systemVars
    PROVE  \/ \E c \in Conn : ClientStep(c) \/ HandlerStep(c)
           \/ ServerCrash \/ UNCHANGED systemVars
  BY DEF SystemNext, ClientStep, Quiet

LEMMA RunsStep ==
    ThreadsInv /\ RunsInv /\ [SystemNext]_systemVars => ThreadsInv' /\ RunsInv' /\ [Next]_vars
<1> SUFFICES ASSUME ThreadsInv, RunsInv, [SystemNext]_systemVars
             PROVE  ThreadsInv' /\ RunsInv' /\ [Next]_vars
  OBVIOUS
<1>1. ASSUME NEW c \in Conn, ClientStep(c)
      PROVE  ThreadsInv' /\ RunsInv' /\ [Next]_vars
  BY <1>1, ClientThreads, ClientRuns
<1>2. ASSUME [ServerNext]_serverVars
      PROVE  ThreadsInv' /\ [Next]_vars
  BY <1>2, ThreadsStep, StorageStep
<1>3. ASSUME NEW c \in Conn, HandlerStep(c)
      PROVE  ThreadsInv' /\ RunsInv' /\ [Next]_vars
  BY <1>2, <1>3, HandlerRuns DEF HandlerStep, ServerNext
<1>4. CASE ServerCrash \/ UNCHANGED systemVars
  BY <1>2, <1>4, CrashRuns DEF ServerCrash, ServerNext, systemVars
<1> QED
  BY <1>1, <1>3, <1>4, SystemSteps

LEMMA RunsAlways == SystemSpec => [](ThreadsInv /\ RunsInv)
  BY RunsInit, RunsStep, PTL DEF SystemSpec

\* The server's storage is used as MemoryManager says while client programs talk to
\* it, for every number of hosts and runs, whatever is killed and whenever.
THEOREM SystemUsesStorage == SystemSpec => Spec
<1>1. SystemInit => Init
  BY DEF SystemInit, ServerInit
<1> QED
  BY <1>1, RunsAlways, RunsStep, PTL DEF SystemSpec, Spec

\* What a program does leaves the lock to its holder: an exchange finds its thread
\* outside the lock.
LEMMA ClientLock ==
    ASSUME TypeOK, ThreadsInv, RunsInv, LockOwned, NEW c \in Conn, ClientStep(c)
    PROVE  LockOwned'
<1>0. OnlyThread(c) /\ UNCHANGED vars
  BY ClientThreads
<1>1. CASE UNCHANGED serverVars
  BY <1>1 DEF serverVars, vars, netVars, LockOwned
<1>2. CASE Exchanges(c)
  <2>1. session' = session /\ outbox[c] # None
    BY <1>2 DEF Exchanges, Exchange
  <2>2. session[c].pc \notin InLock
    BY <2>1 DEF ThreadsInv, Thread, Agrees, Phase, InLock
  <2> QED
    BY <1>0, <2>1, <2>2, OutsideLock DEF vars
<1> QED
  BY <1>1, <1>2, ClientPeers, PeerLock

\* Nor does it take a key out of memory, or let a thread expect a file.
LEMMA ClientKeys ==
    ASSUME ThreadsInv, RunsInv, KeyLoaded, NEW c \in Conn, ClientStep(c)
    PROVE  KeyLoaded'
<1>0. OnlyThread(c) /\ UNCHANGED vars
  BY ClientThreads
<1>1. session'[c] = session[c] \/ session'[c].expectedReq = "REGISTRATION"
  <2>1. NewSession("receiving").expectedReq = "REGISTRATION"
    BY DEF NewSession
  <2> QED
    BY <2>1, ClientPeers DEF Peer, Connect, Send, Receive, Disconnect, serverVars, netVars,
       Exchanges, Exchange, Become, ThreadsInv
<1>2. \A r \in ID : KeyOf(r)' = KeyOf(r)
  BY <1>0 DEF KeyOf, vars
<1> QED
  BY <1>0, <1>1, <1>2 DEF KeyLoaded, OnlyThread

ServerHolds == LockOwned /\ KeyLoaded

LEMMA ServerHoldsStep ==
    ASSUME TypeOK, ClientsAgree, UniqueNames, ThreadsInv, RunsInv, ServerHolds,
           [SystemNext]_systemVars
    PROVE  ServerHolds'
<1>1. ASSUME NEW c \in Conn, ClientStep(c)
      PROVE  ServerHolds'
  BY <1>1, ClientLock, ClientKeys DEF ServerHolds
<1>2. ASSUME NEW c \in Conn, HandlerStep(c)
      PROVE  ServerHolds'
  <2>1. Handler(c) /\ [ServerNext]_serverVars
    BY <1>2 DEF HandlerStep, ServerNext
  <2> QED
    BY <2>1, UnlockedHandlerLock, LockingHandlerLock, KeyLoadedStep DEF Handler, ServerHolds
<1>3. CASE ServerCrash
  BY <1>3, RestartLock, KeyLoadedStep DEF ServerCrash, ServerNext, ServerHolds
<1>4. CASE UNCHANGED systemVars
  <2>1. LockOwned'
    BY <1>4 DEF systemVars, serverVars, vars, netVars, LockOwned, ServerHolds
  <2>2. KeyLoaded'
    BY <1>4, KeyLoadedStep DEF systemVars, ServerHolds
  <2> QED
    BY <2>1, <2>2 DEF ServerHolds
<1> QED
  BY <1>1, <1>2, <1>3, <1>4, SystemSteps

\* What the server promises its threads and their peers it keeps for the client
\* programs, which answer a reply with the next request in one step.
THEOREM SystemKeepsServer ==
    SystemSpec => [](LockOwned /\ KeyLoaded /\ ReplyAgrees /\ SendsCounted)
<1>1. SystemInit => ServerHolds
  <2>1. NewSession("idle").pc = "idle" /\ NewSession("idle").expectedReq = "REGISTRATION"
    BY DEF NewSession
  <2> QED
    BY <2>1 DEF SystemInit, ServerInit, Init, LockOwned, KeyLoaded, ServerHolds
<1>2. ThreadsInv => ReplyAgrees /\ SendsCounted
  BY DEF ReplyAgrees, SendsCounted, ThreadsInv, Thread, Counted, Agrees, Expects
<1>3. /\ TypeOK /\ ClientsAgree /\ UniqueNames /\ ThreadsInv /\ RunsInv /\ ServerHolds
      /\ [SystemNext]_systemVars
      => ServerHolds'
  BY ServerHoldsStep
<1>4. ServerHolds => LockOwned /\ KeyLoaded
  BY DEF ServerHolds
<1> QED
  BY <1>1, <1>2, <1>3, <1>4, SystemUsesStorage, TypeCorrect, ClientsConsistent, RunsAlways, PTL
     DEF SystemSpec

\* So the whole system implements the vault.
THEOREM SystemImplementsVault == SystemSpec => ImplementsVault
  BY SystemUsesStorage, StorageImplementsVault

\* The type invariant of the whole system.
THEOREM SystemTypeCorrect == SystemSpec => []SystemTypeOK
<1>1. TypeOK /\ ThreadsInv /\ RunsInv => SystemTypeOK
  BY ThreadsTyped DEF RunsInv, SystemTypeOK
<1> QED
  BY <1>1, SystemUsesStorage, TypeCorrect, RunsAlways, PTL

----------------------------------------------------------------------------
(* The two programs agree on what comes next *)

\* A run makes fewer resends than the server takes files, reads back the identifier
\* it wrote, and sends a file whose size the server reads as the client means it.
Compatible ==
    /\ FILE_SENDING_TIMES < TIMES
    /\ ZeroByteID = {}
    /\ \A c \in Conn : FileFate(SizeOf[c]) # "misframed"

UserOf(c) == NameOf[HostOf[c]]

\* The request of run c is one its thread answers.
Asked(c) ==
    /\ inbox[c] # None
    /\ client[c].pc = "registering" =>
         /\ inbox[c].code = "REGISTRATION" /\ inbox[c].name = UserOf(c)
         /\ session[c].expectedReq = "REGISTRATION"
    /\ client[c].pc = "keying" =>
         /\ inbox[c].code = "PUBLIC_KEY" /\ inbox[c] \notin IllegalRequests
         /\ inbox[c].usable
         /\ inbox[c].ID \in ID /\ HasName(dbClients, inbox[c].ID, inbox[c].name)
         /\ session[c].expectedReq \in {"REGISTRATION", "PUBLIC_KEY"}
    /\ client[c].pc = "sending" =>
         /\ inbox[c].code = "SEND_FILE" /\ session[c].expectedReq = "SEND_FILE"
         /\ session[c].repeats = client[c].times
    /\ client[c].pc = "rejecting" =>
         /\ inbox[c].code = "CRC_NOT_OK" /\ session[c].expectedReq = "CRC_OK"
         /\ session[c].repeats = client[c].times
    /\ client[c].pc = "approving" =>
         inbox[c].code = "CRC_OK" /\ session[c].expectedReq = "CRC_OK"
    /\ client[c].pc = "aborting" =>
         inbox[c].code = "CRC_ERROR" /\ session[c].expectedReq = "CRC_OK"

\* The thread's count is n, unless it has ended.
Has(c, n) == session[c].pc = "closed" \/ session[c].repeats = n

\* The reply to run c is one it waits for.
Told(c) ==
    /\ outbox[c] # None
    /\ client[c].pc = "registering" =>
         /\ outbox[c].code \in {"REGISTRATION_SUCCESS", "REGISTRATION_FAIL"}
         /\ outbox[c].code = "REGISTRATION_SUCCESS" =>
              outbox[c].ID \in ID /\ HasName(dbClients, outbox[c].ID, UserOf(c))
    /\ client[c].pc = "keying" => outbox[c].code = "SEND_AES" /\ Has(c, 0)
    /\ client[c].pc = "sending" =>
         outbox[c].code = "GOT_FILE_WITH_CRC" /\ Has(c, client[c].times + 1)
    /\ client[c].pc = "rejecting" =>
         outbox[c].code = "RECEIVED_APPROVAL" /\ Has(c, client[c].times)
    /\ client[c].pc \in {"approving", "aborting"} => outbox[c].code = "RECEIVED_APPROVAL"

Ended(c) == session[c].pc = "closed" /\ outbox[c] = None

BetweenReplies == {"check", "create", "load"}

Talks(c) ==
    /\ client[c].pc \in {"start", "registering", "keying"} \cup BetweenReplies =>
         client[c].times = 0
    /\ client[c].pc \in BetweenReplies =>
         /\ inbox[c] = None
         /\ session[c].pc = "closed" \/ session[c].expectedReq \in {"REGISTRATION", "PUBLIC_KEY"}
    /\ client[c].pc = "check" =>
         session[c].pc = "closed" \/ session[c].expectedReq = "REGISTRATION"
    /\ client[c].pc = "create" =>
         client[c].userId \in ID /\ HasName(dbClients, client[c].userId, UserOf(c))
    /\ client[c].pc \in Waiting => Asked(c) \/ Told(c) \/ Ended(c)

TalkInv == InfoIsRegistered /\ \A c \in Conn : Talks(c)

\* A registered name stays under its identifier.
LEMMA NamesStay ==
    ASSUME TypeOK, [Next]_vars, NEW r \in ID, NEW name, HasName(dbClients, r, name)
    PROVE  HasName(dbClients', r, name)
<1>1. ASSUME NEW s \in ID, NEW n \in Name, regUser(n, s)
      PROVE  HasName(dbClients', r, name)
  <2>1. PICK q \in ID : dbClients[q] = NoClient /\ dbClients' = [dbClients EXCEPT ![q] = NewClient(n)]
    BY <1>1 DEF regUser
  <2> QED
    BY <2>1 DEF HasName, TypeOK
<1>2. CASE UserStep \/ KeyStep
  BY <1>1, <1>2, TablesKept DEF UserStep, KeyStep, HasName
<1>3. CASE FileStep \/ LockedStep \/ Restart \/ UNCHANGED vars
  <2>1. dbClients' = dbClients
    BY <1>3 DEF FileStep, LockedStep, Restart, vars, saveFile, approveFile, removeFile,
       writeFile, insertFile, removeRow
  <2> QED
    BY <2>1
<1> QED
  BY <1>2, <1>3 DEF Next

\* A run keeps its place while its program and its connection rest.
LEMMA TalksRest ==
    ASSUME TypeOK, [Next]_vars, RunsInv, ThreadsInv, NEW c \in Conn, Talks(c),
           client'[c] = client[c], session'[c] = session[c],
           inbox'[c] = inbox[c], outbox'[c] = outbox[c]
    PROVE  Talks(c)'
<1>1. Asked(c) => Asked(c)'
  BY NamesStay DEF Asked, UserOf
<1>2. Told(c) => Told(c)'
  BY NamesStay DEF Told, Has, UserOf
<1>3. Ended(c) => Ended(c)'
  BY DEF Ended
<1>4. client[c].pc = "create" =>
        client[c].userId \in ID /\ HasName(dbClients', client[c].userId, UserOf(c))
  BY NamesStay DEF Talks
<1> QED
  BY <1>1, <1>2, <1>3, <1>4 DEF Talks, UserOf

LEMMA InfoStays ==
    ASSUME TypeOK, [Next]_vars, RunsInv, InfoIsRegistered, meInfo' = meInfo
    PROVE  InfoIsRegistered'
<1> SUFFICES ASSUME NEW h \in Host, meInfo[h] \notin {None, Partial}
             PROVE  meInfo[h].name = NameOf[h] /\ HasName(dbClients', meInfo[h].ID, NameOf[h])
  BY DEF InfoIsRegistered
<1>1. meInfo[h].name = NameOf[h] /\ HasName(dbClients, meInfo[h].ID, NameOf[h])
  BY DEF InfoIsRegistered
<1>2. meInfo[h].ID \in ID
  BY DEF RunsInv, UserInfo
<1> QED
  BY <1>1, <1>2, NamesStay

\* The thread never leaves a run's request without an answer.
LEMMA NotIgnored ==
    ASSUME Compatible, TypeOK, ClientsAgree, ThreadsInv, RunsInv, NEW c \in Conn,
           client[c].pc \in Waiting, Asked(c)
    PROVE  ~Ignores(c, inbox[c])
<1>1. client[c] \in Run /\ session[c] \in Session
  BY DEF RunsInv, ThreadsInv
<1>2. /\ client[c].times \in 0..FILE_SENDING_TIMES /\ session[c].repeats \in 0..TIMES
  BY <1>1 DEF Run, Session
<1>3. inbox[c].code # "UNKNOWN"
  BY DEF Asked, Waiting
<1>4. client[c].pc = "sending" => ~TooMany(c)
  BY <1>2 DEF Asked, TooMany, Compatible
<1>5. ~Unexpected(c)
  BY <1>2, <1>4 DEF Asked, Waiting, Unexpected
<1>6. inbox[c].code = "PUBLIC_KEY" => client[c].pc = "keying"
  BY DEF Asked, Waiting
<1>7. client[c].pc = "keying" => HasName(clients, inbox[c].ID, inbox[c].name)
  <2> SUFFICES ASSUME client[c].pc = "keying"
               PROVE  HasName(clients, inbox[c].ID, inbox[c].name)
    OBVIOUS
  <2> DEFINE r == inbox[c].ID
  <2>1. r \in ID /\ HasName(dbClients, r, inbox[c].name)
    BY DEF Asked
  <2> HIDE DEF r
  <2>2. dbClients[r] \in Client
    BY <2>1 DEF HasName, TypeOK
  <2> DEFINE keyless == [dbClients[r] EXCEPT !.AESKey = NoKey]
  <2>3. keyless \in Client /\ keyless.name = dbClients[r].name
    BY <2>2 DEF Client
  <2>4. clients[r] \in {dbClients[r], keyless}
    BY <2>1 DEF HasName, ClientsAgree
  <2> HIDE DEF keyless
  <2>5. HasName(clients, r, inbox[c].name)
    BY <2>1, <2>2, <2>3, <2>4, NoClientAssumption DEF HasName
  <2> QED
    BY <2>5 DEF r
<1> QED
  BY <1>3, <1>5, <1>6, <1>7 DEF Ignores, Asked

\* Its answer is the one the run waits for.
LEMMA AnswerTold ==
    ASSUME ThreadsInv, NEW c \in Conn, OnlyThread(c),
           client'[c] = client[c], client[c].pc \in Waiting, Asked(c), Talks(c),
           outbox'[c] \in Replies \cup {None},
           Answers(c, inbox[c], outbox'[c])
    PROVE  Told(c)'
<1>1. Counted(session[c]) /\ session[c] \in Session
  BY DEF ThreadsInv, Thread
<1>2. outbox'[c] # None
  BY DEF Answers
<1>3. CASE client[c].pc = "registering"
  <2>1. outbox'[c].code \in {"REGISTRATION_SUCCESS", "REGISTRATION_FAIL"}
    BY <1>3 DEF Answers, Asked
  <2>2. outbox'[c].code = "REGISTRATION_SUCCESS" =>
          outbox'[c].ID \in ID /\ HasName(dbClients', outbox'[c].ID, UserOf(c))
    <3>1. outbox'[c].code = "REGISTRATION_SUCCESS" => outbox'[c].ID \in ID
      BY <1>2 DEF Replies
    <3> QED
      BY <1>3, <3>1 DEF Answers, Asked
  <2> QED
    BY <1>2, <1>3, <2>1, <2>2 DEF Told, UserOf
<1>4. CASE client[c].pc = "keying"
  <2>1. session[c].repeats = 0
    BY <1>1, <1>4 DEF Asked, Counted
  <2>2. outbox'[c].code = "SEND_AES" /\ session'[c].repeats = 0
    BY <1>4, <2>1 DEF Answers, Asked
  <2> QED
    BY <1>2, <1>4, <2>2 DEF Told, Has
<1>5. CASE client[c].pc = "sending"
  BY <1>2, <1>5 DEF Answers, Asked, Told, Has
<1>6. CASE client[c].pc = "rejecting"
  BY <1>2, <1>6 DEF Answers, Asked, Told, Has
<1>7. CASE client[c].pc \in {"approving", "aborting"}
  BY <1>2, <1>7 DEF Answers, Asked, Told
<1> QED
  BY <1>3, <1>4, <1>5, <1>6, <1>7 DEF Waiting

\* A request is there when the thread goes on with it or answers it, and then the
\* run waits for it.
LEMMA HandlerTalks ==
    ASSUME Compatible, TypeOK, ClientsAgree, ThreadsInv, RunsInv, NEW c \in Conn,
           HandlerStep(c), Talks(c), ThreadsInv', [Next]_vars
    PROVE  Talks(c)'
<1>1. HandlerEffect(c) /\ client' = client
  BY HandlerDoes DEF HandlerStep, clientVars
<1>2. Thread(c, link[c], session[c], inbox[c], outbox[c])
  BY DEF ThreadsInv
<1>3. outbox'[c] \in Replies \cup {None}
  BY DEF ThreadsInv, Thread
<1>4. client[c].pc = "create" =>
        client[c].userId \in ID /\ HasName(dbClients', client[c].userId, UserOf(c))
  BY NamesStay DEF Talks
<1>5. CASE client[c].pc \in BetweenReplies
  <2>1. inbox[c] = None
    BY <1>5 DEF Talks
  <2>2. Closes(c)
    BY <1>1, <2>1 DEF HandlerEffect, Works, Answers, Ignores
  <2> QED
    BY <1>1, <1>4, <1>5, <2>1, <2>2 DEF Talks, Closes, BetweenReplies, Waiting, UserOf
<1>6. CASE client[c].pc \in Waiting
  <2> SUFFICES Asked(c)' \/ Told(c)' \/ Ended(c)'
    BY <1>1, <1>6 DEF Talks, BetweenReplies, Waiting
  <2>1. inbox[c] # None => Asked(c) /\ outbox[c] = None
    BY <1>2, <1>6 DEF Talks, Told, Ended, Thread, Agrees, Phase
  <2>2. CASE Works(c)
    <3>1. Asked(c)
      BY <2>1, <2>2 DEF Works
    <3> QED
      BY <1>1, <2>2, <3>1, NamesStay DEF Works, Asked, UserOf
  <2>3. CASE Answers(c, inbox[c], outbox'[c])
    <3>1. Asked(c)
      BY <2>1, <2>3 DEF Answers
    <3> QED
      BY <1>1, <1>3, <1>6, <2>3, <3>1, AnswerTold DEF HandlerEffect
  <2>4. CASE Ignores(c, inbox[c])
    <3>1. Asked(c)
      BY <2>1, <2>4 DEF Ignores
    <3> QED
      BY <1>6, <2>4, <3>1, NotIgnored
  <2>5. CASE Closes(c)
    <3>1. CASE outbox[c] = None
      BY <2>5, <3>1 DEF Closes, Ended
    <3>2. CASE outbox[c] # None
      <4>1. Told(c)
        BY <1>2, <1>6, <3>2 DEF Talks, Asked, Ended, Thread, Agrees
      <4> QED
        BY <1>1, <2>5, <4>1, NamesStay DEF Closes, Told, Has, UserOf
    <3> QED
      BY <3>1, <3>2
  <2> QED
    BY <1>1, <2>2, <2>3, <2>4, <2>5 DEF HandlerEffect
<1>7. CASE client[c].pc \notin BetweenReplies \cup Waiting
  BY <1>1, <1>7 DEF Talks, BetweenReplies, Waiting
<1> QED
  BY <1>5, <1>6, <1>7

\* A restart closes the connection, and the reply on its way may still come.
LEMMA CrashTalks ==
    ASSUME TypeOK, ThreadsInv, RunsInv, NEW c \in Conn, ServerCrash, Talks(c), [Next]_vars
    PROVE  Talks(c)'
<1>1. Thread(c, link[c], session[c], inbox[c], outbox[c])
  BY DEF ThreadsInv
<1>2. client' = client /\ inbox'[c] = None /\ (outbox'[c] = None \/ outbox'[c] = outbox[c])
  BY DEF ServerCrash, ServerRestart, clientVars
<1>3. session'[c] = session[c] \/ (link[c] # "unused" /\ session'[c].pc = "closed")
  BY ClosedSession DEF ServerCrash, ServerRestart
<1>4. client[c].pc = "create" =>
        client[c].userId \in ID /\ HasName(dbClients', client[c].userId, UserOf(c))
  BY NamesStay DEF Talks
<1>5. client[c].pc \in Waiting => link[c] # "unused"
  BY <1>1 DEF Talks, Asked, Told, Ended, Thread, Phase
<1>6. client[c].pc \in Waiting => session'[c].pc = "closed"
  BY <1>5, ClosedSession DEF ServerCrash, ServerRestart
<1>7. client[c].pc \in Waiting => Told(c)' \/ Ended(c)'
  <2> SUFFICES ASSUME client[c].pc \in Waiting, outbox'[c] # None
               PROVE  Told(c)'
    BY <1>6 DEF Ended
  <2>1. Told(c)
    BY <1>1, <1>2 DEF Talks, Asked, Ended, Thread, Agrees
  <2> QED
    BY <1>2, <1>6, <2>1, NamesStay DEF Told, Has, UserOf
<1> QED
  BY <1>2, <1>3, <1>4, <1>7 DEF Talks, UserOf, BetweenReplies

\* A run that is over waits for nothing.
LEMMA OverTalks ==
    ASSUME NEW c \in Conn, client'[c].pc \in Over
    PROVE  Talks(c)'
  BY DEF Talks, Over, Waiting, BetweenReplies

\* A run sends its next request, unless the server has closed the connection.
LEMMA AskedOrEnded ==
    ASSUME NEW c \in Conn, NEW q, session'[c] = session[c], outbox'[c] = None,
           inbox'[c] = IF session[c].pc = "closed" THEN None ELSE q,
           session[c].pc # "closed" /\ inbox'[c] = q => Asked(c)'
    PROVE  Asked(c)' \/ Ended(c)'
  BY DEF Ended

\* Where the thread is when a reply is there.
LEMMA Waited ==
    ASSUME ThreadsInv, NEW c \in Conn, NEW pc \in Waiting, NEW code, Reply(c, pc, code),
           Talks(c)
    PROVE  Told(c) /\ Agrees(session[c], inbox[c], outbox[c]) /\ outbox[c] \in Replies
<1>1. Thread(c, link[c], session[c], inbox[c], outbox[c])
  BY DEF ThreadsInv
<1> QED
  BY <1>1 DEF Reply, Talks, Asked, Ended, Thread, Agrees

LEMMA StartTalks ==
    ASSUME ThreadsInv, RunsInv, NEW c \in Conn, Talks(c), Launch(c) \/ CheckInfo(c)
    PROVE  Talks(c)'
<1>1. CASE Launch(c)
  <2>1. client'[c].pc = "check" /\ client'[c].times = 0
    BY <1>1, GotoRun DEF Launch, Talks
  <2>2. inbox'[c] = None /\ session'[c].expectedReq = "REGISTRATION"
    BY <1>1, ConnectOn DEF Launch, OnConnection, NewSession
  <2> QED
    BY <2>1, <2>2 DEF Talks, BetweenReplies, Waiting
<1>2. CASE CheckInfo(c) /\ Send(c, RegistrationRequest(c)) /\ Goto(c, "registering")
  <2>1. client'[c].pc = "registering" /\ client'[c].times = 0
    BY <1>2, GotoRun DEF CheckInfo, Talks, Waiting, BetweenReplies
  <2>2. session'[c] = session[c] /\ inbox'[c] = RegistrationRequest(c)
    BY <1>2, SendOn DEF OnConnection
  <2>3. session[c].expectedReq = "REGISTRATION"
    BY <1>2 DEF CheckInfo, Send, Talks
  <2>4. RegistrationRequest(c) # None
    BY ProgramRequests
  <2>5. Asked(c)'
    BY <2>1, <2>2, <2>3, <2>4 DEF Asked, RegistrationRequest, UserOf
  <2> QED
    BY <2>1, <2>5 DEF Talks, BetweenReplies
<1>3. CASE CheckInfo(c) /\ UNCHANGED serverVars /\ Goto(c, "load")
  <2>1. client'[c].pc = "load" /\ client'[c].times = 0
    BY <1>3, GotoRun DEF CheckInfo, Talks, BetweenReplies
  <2> QED
    BY <1>3, <2>1 DEF CheckInfo, Talks, BetweenReplies, Waiting, serverVars, netVars
<1> QED
  BY <1>1, <1>2, <1>3 DEF CheckInfo

LEMMA RegisteredTalks ==
    ASSUME Compatible, ThreadsInv, RunsInv, NEW c \in Conn, Talks(c), Registered(c)
    PROVE  Talks(c)'
<1>1. Told(c) /\ Agrees(session[c], inbox[c], outbox[c])
  BY Waited DEF Registered, Waiting
<1> DEFINE r == outbox[c].ID
<1>2. r \in ID /\ HasName(dbClients, r, UserOf(c))
  BY <1>1 DEF Registered, Reply, Told
<1>3. client' = [client EXCEPT ![c].pc = "create", ![c].userId = r]
  BY DEF Registered, UserIds, Compatible
<1> HIDE DEF r
<1>4. client'[c].pc = "create" /\ client'[c].userId = r /\ client'[c].times = 0
  BY <1>2, <1>3, IdentifiedRun DEF Registered, Reply, Talks
<1>5. session'[c] = session[c] /\ inbox'[c] = None
  BY ReceiveOn DEF Registered, OnConnection
<1>6. session[c].pc = "closed" \/ session[c].expectedReq = "PUBLIC_KEY"
  BY <1>1 DEF Agrees, Expects, Registered, Reply
<1>7. dbClients' = dbClients
  BY DEF Registered, Receive, vars
<1> QED
  BY <1>2, <1>4, <1>5, <1>6, <1>7 DEF Talks, BetweenReplies, Waiting, UserOf

LEMMA CreateTalks ==
    ASSUME RunsInv, NEW c \in Conn, Talks(c), CreateInfo(c)
    PROVE  Talks(c)'
<1>1. client'[c].pc = "load" /\ client'[c].times = 0
  BY GotoRun DEF CreateInfo, Talks, BetweenReplies
<1>2. UNCHANGED <<session, inbox, outbox>>
  BY DEF CreateInfo, serverVars, netVars
<1> QED
  BY <1>1, <1>2 DEF CreateInfo, Talks, BetweenReplies, Waiting

LEMMA LoadTalks ==
    ASSUME ThreadsInv, RunsInv, InfoIsRegistered, NEW c \in Conn, Talks(c), LoadInfo(c)
    PROVE  Talks(c)'
<1> DEFINE info == meInfo[HostOf[c]]
           q == [code |-> "PUBLIC_KEY", ID |-> info.ID, name |-> info.name, usable |-> TRUE]
<1>1. client[c].pc = "load" /\ info \in UserInfo \cup {Partial}
  BY DEF LoadInfo, RunsInv, RunInv
<1>2. CASE info = Partial
  BY <1>2, GotoRun, OverTalks DEF LoadInfo, Over
<1>3. CASE info \in UserInfo /\ info # Partial
  <2>1. /\ info.ID \in ID /\ info.name = UserOf(c)
        /\ HasName(dbClients, info.ID, UserOf(c))
    BY <1>3 DEF InfoIsRegistered, UserInfo, UserOf
  <2>2. client'[c].pc = "keying" /\ client'[c].times = 0
    BY <1>3, <2>1, IdentifiedRun DEF LoadInfo, Talks, BetweenReplies
  <2>3. Send(c, q) /\ q \in Requests(c)
    BY <1>3, ProgramRequests DEF LoadInfo
  <2>4. session'[c] = session[c] /\ inbox'[c] = q /\ dbClients' = dbClients
    BY <2>3, SendOn DEF OnConnection, Send, vars
  <2>5. session[c].expectedReq \in {"REGISTRATION", "PUBLIC_KEY"}
    BY <1>1, <2>3 DEF Send, Talks, BetweenReplies
  <2>6. q \notin IllegalRequests
    BY DEF IllegalRequests
  <2>7. /\ q # None /\ q.code = "PUBLIC_KEY" /\ q.usable
        /\ q.ID = info.ID /\ q.name = info.name
    BY <2>3
  <2> HIDE DEF q, info
  <2>8. Asked(c)'
    BY <2>1, <2>2, <2>4, <2>5, <2>6, <2>7 DEF Asked
  <2> QED
    BY <2>2, <2>8 DEF Talks, BetweenReplies
<1> QED
  BY <1>1, <1>2, <1>3

LEMMA SendTalks ==
    ASSUME Compatible, ThreadsInv, RunsInv, NEW c \in Conn, Talks(c), SendFirst(c) \/ Resend(c)
    PROVE  Talks(c)'
<1>1. /\ Told(c) /\ Agrees(session[c], inbox[c], outbox[c])
      /\ client[c].pc \in {"keying", "rejecting"}
  BY Waited DEF SendFirst, Resend, Reply, Waiting
<1> DEFINE q == FileRequest(c, c)
<1>2. Exchange(c, q)
  BY DEF SendFirst, Resend, Reply, RunsInv, RunInv
<1>3. q # None /\ q.code = "SEND_FILE"
  <2>1. q \in Requests(c)
    BY <1>1, ProgramRequests DEF RunsInv, RunInv, Identified
  <2>2. FileFate(SizeOf[c]) \in {"illegal", "handled"}
    BY DEF FileFate, Compatible
  <2>3. q.code = "SEND_FILE"
    BY <2>2 DEF FileRequest
  <2> QED
    BY <2>1, <2>3
<1> HIDE DEF q
<1>4. client'[c].pc = "sending" /\ client'[c].times = client[c].times
  BY GotoRun DEF SendFirst, Resend, Waiting
<1>5. session[c].pc = "closed"
        \/ (session[c].expectedReq = "SEND_FILE" /\ session[c].repeats = client[c].times)
  BY <1>1 DEF SendFirst, Resend, Reply, Agrees, Expects, Told, Has, Talks
<1>6. OnConnection(c, session[c], IF session[c].pc = "closed" THEN None ELSE q, None)
  BY <1>2, ExchangeOn
<1>7. Asked(c)' \/ Ended(c)'
  <2>1. session[c].pc # "closed" /\ inbox'[c] = q => Asked(c)'
    BY <1>3, <1>4, <1>5, <1>6 DEF Asked, OnConnection
  <2> QED
    BY <1>6, <2>1, AskedOrEnded DEF OnConnection
<1> QED
  BY <1>4, <1>7 DEF Talks, BetweenReplies

LEMMA CompareTalks ==
    ASSUME ThreadsInv, RunsInv, NEW c \in Conn, Talks(c), CompareCrc(c)
    PROVE  Talks(c)'
<1>1. Told(c) /\ Agrees(session[c], inbox[c], outbox[c]) /\ client[c].pc = "sending"
  BY Waited DEF CompareCrc, Reply, Waiting
<1>2. session[c].pc = "closed"
        \/ (session[c].expectedReq = "CRC_OK" /\ session[c].repeats = client[c].times + 1)
  BY <1>1 DEF CompareCrc, Reply, Agrees, Expects, Told, Has
<1>3. client[c].userId \in ID
  BY <1>1 DEF RunsInv, RunInv, Identified
<1>4. ASSUME NEW code \in {"CRC_OK", "CRC_NOT_OK", "CRC_ERROR"},
             Exchange(c, CrcRequest(c, code)),
             \/ code = "CRC_OK" /\ client'[c].pc = "approving"
             \/ code = "CRC_ERROR" /\ client'[c].pc = "aborting"
             \/ /\ code = "CRC_NOT_OK" /\ client'[c].pc = "rejecting"
                /\ client'[c].times = client[c].times + 1
      PROVE  Talks(c)'
  <2> DEFINE q == CrcRequest(c, code)
  <2>1. q # None /\ q.code = code
    BY <1>3, ProgramRequests DEF CrcRequest
  <2>2. OnConnection(c, session[c], IF session[c].pc = "closed" THEN None ELSE q, None)
    BY <1>4, ExchangeOn
  <2> HIDE DEF q
  <2>3. session[c].pc # "closed" /\ inbox'[c] = q => Asked(c)'
    BY <1>2, <1>4, <2>1, <2>2 DEF Asked, OnConnection
  <2>4. Asked(c)' \/ Ended(c)'
    BY <2>2, <2>3, AskedOrEnded DEF OnConnection
  <2> QED
    BY <1>4, <2>4 DEF Talks, BetweenReplies
<1>5. CASE /\ ~LastRound(c) /\ Exchange(c, CrcRequest(c, "CRC_NOT_OK"))
           /\ client' = [client EXCEPT ![c].pc = "rejecting", ![c].times = @ + 1]
  BY <1>4, <1>5, AnotherRound
<1>6. CASE Exchange(c, CrcRequest(c, "CRC_ERROR")) /\ Goto(c, "aborting")
  BY <1>4, <1>6, GotoRun DEF Waiting
<1>7. CASE Exchange(c, CrcRequest(c, "CRC_OK")) /\ Goto(c, "approving")
  BY <1>4, <1>7, GotoRun DEF Waiting
<1> QED
  BY <1>5, <1>6, <1>7 DEF CompareCrc

LEMMA ClientTalks ==
    ASSUME Compatible, ThreadsInv, RunsInv, InfoIsRegistered, NEW c \in Conn, Talks(c),
           ClientStep(c)
    PROVE  Talks(c)'
<1>1. CASE RegistrationFailed(c) \/ End(c) \/ ServerClosed(c) \/ Crash(c)
  <2>1. client'[c].pc \in Over
    BY <1>1, GotoRun DEF RegistrationFailed, End, ServerClosed, Crash, Over
  <2> QED
    BY <2>1, OverTalks
<1> QED
  BY <1>1, StartTalks, RegisteredTalks, CreateTalks, LoadTalks, SendTalks, CompareTalks
     DEF ClientStep, Program

\* Only createInfoFile writes a complete me.info, with the identifier the reply to
\* its registration gave it.
LEMMA ClientInfo ==
    ASSUME TypeOK, [Next]_vars, RunsInv, InfoIsRegistered, NEW c \in Conn, Talks(c),
           ClientStep(c), UNCHANGED vars
    PROVE  InfoIsRegistered'
<1>1. CASE Registered(c)
  BY <1>1 DEF Registered, InfoIsRegistered, RunsInv, vars
<1>2. CASE CreateInfo(c)
  <2>1. HasName(dbClients', client[c].userId, UserOf(c))
    BY <1>2 DEF CreateInfo, Talks, vars
  <2> DEFINE info == [name |-> UserOf(c), ID |-> client[c].userId]
  <2>2. info.name = UserOf(c) /\ info.ID = client[c].userId
    OBVIOUS
  <2>3. meInfo' = [meInfo EXCEPT ![HostOf[c]] = info]
    BY <1>2 DEF CreateInfo, UserOf
  <2> HIDE DEF info
  <2> QED
    BY <2>1, <2>2, <2>3 DEF InfoIsRegistered, RunsInv, UserOf, vars
<1>3. CASE meInfo' = meInfo
  BY <1>3, InfoStays
<1> QED
  BY <1>1, <1>2, <1>3 DEF ClientStep, Program, Launch, CheckInfo, RegistrationFailed, LoadInfo,
     SendFirst, CompareCrc, Resend, End, ServerClosed, Crash

LEMMA TalkInvStep ==
    ASSUME Compatible, TypeOK, ClientsAgree, ThreadsInv, RunsInv, TalkInv,
           [SystemNext]_systemVars
    PROVE  TalkInv'
<1>0. ThreadsInv' /\ RunsInv' /\ [Next]_vars
  BY RunsStep
<1>1. ASSUME NEW c \in Conn, OnlyThread(c), OnlyRun(c), Talks(c)', InfoIsRegistered'
      PROVE  TalkInv'
  <2> SUFFICES ASSUME NEW d \in Conn, d # c
               PROVE  Talks(d)'
    BY <1>1 DEF TalkInv
  <2> QED
    BY <1>0, <1>1, TalksRest DEF TalkInv, OnlyThread, OnlyRun
<1>2. ASSUME NEW c \in Conn, ClientStep(c)
      PROVE  TalkInv'
  <2>1. OnlyThread(c) /\ UNCHANGED vars
    BY <1>2, ClientThreads
  <2>2. Talks(c)' /\ InfoIsRegistered'
    BY <1>0, <1>2, <2>1, ClientTalks, ClientInfo DEF TalkInv
  <2>3. \A d \in Conn : d # c => client'[d] = client[d]
    BY <1>2 DEF ClientStep, Program, Launch, CheckInfo, Registered, RegistrationFailed,
       CreateInfo, LoadInfo, SendFirst, CompareCrc, Resend, End, ServerClosed, Crash, Goto,
       RunsInv
  <2> QED
    BY <1>0, <1>1, <2>1, <2>2, <2>3 DEF OnlyRun, RunsInv
<1>3. ASSUME UNCHANGED clientVars
      PROVE  InfoIsRegistered' /\ client' = client
  BY <1>0, <1>3, InfoStays DEF TalkInv, clientVars
<1>4. ASSUME NEW c \in Conn, HandlerStep(c)
      PROVE  TalkInv'
  <2>1. OnlyThread(c)
    BY <1>4, HandlerDoes DEF HandlerStep, HandlerEffect
  <2>2. OnlyRun(c) /\ InfoIsRegistered'
    BY <1>3, <1>4 DEF HandlerStep, OnlyRun, RunsInv
  <2>3. Talks(c)'
    BY <1>0, <1>4, HandlerTalks DEF TalkInv
  <2> QED
    BY <1>1, <2>1, <2>2, <2>3
<1>5. CASE ServerCrash
  BY <1>0, <1>3, <1>5, CrashTalks DEF ServerCrash, TalkInv
<1>6. CASE UNCHANGED systemVars
  BY <1>0, <1>3, <1>6, TalksRest DEF TalkInv, systemVars, serverVars, netVars, clientVars
<1> QED
  BY <1>2, <1>4, <1>5, <1>6, SystemSteps

LEMMA TalkInvInit == SystemInit => TalkInv
<1> SUFFICES ASSUME SystemInit PROVE TalkInv
  OBVIOUS
<1>1. \A c \in Conn : client[c].pc = "start" /\ client[c].times = 0
  BY DEF SystemInit
<1>2. InfoIsRegistered
  BY DEF SystemInit, InfoIsRegistered
<1> QED
  BY <1>1, <1>2 DEF TalkInv, Talks, BetweenReplies, Waiting

LEMMA TalkAlways ==
    ASSUME Compatible
    PROVE  SystemSpec => []TalkInv
<1>1. TypeOK /\ ClientsAgree /\ ThreadsInv /\ RunsInv /\ TalkInv /\ [SystemNext]_systemVars
      => TalkInv'
  BY TalkInvStep
<1> QED
  BY <1>1, TalkInvInit, SystemUsesStorage, TypeCorrect, ClientsConsistent, RunsAlways, PTL
     DEF SystemSpec

\* No host ever has another user's identifier, for every number of hosts, runs,
\* kills and restarts, if no identifier has a zero byte.
THEOREM InfoStaysRegistered ==
    ASSUME Compatible
    PROVE  SystemSpec => []InfoIsRegistered
<1>1. TalkInv => InfoIsRegistered
  BY DEF TalkInv
<1> QED
  BY <1>1, TalkAlways, PTL

\* No run waits for a reply nobody will send, however the threads and the other runs
\* interleave and whatever is killed, if a run makes fewer resends than the server
\* takes files, no identifier has a zero byte and no size is misread.
THEOREM RunsNeverStuck ==
    ASSUME Compatible
    PROVE  SystemSpec => []NeverStuck
<1>1. TalkInv => NeverStuck
  BY DEF TalkInv, Talks, Asked, Told, Ended, NeverStuck
<1> QED
  BY <1>1, TalkAlways, PTL
======================================================================
