------------------------------- MODULE Server -------------------------------
(***************************************************************************)
(* The server: one thread of Server.manageClient per accepted connection   *)
(* (Server/Server.py), the request handlers of class RequestProcessor      *)
(* (Server/RequestProcessor.py) and the MemoryManager all threads share.   *)
(*                                                                         *)
(* A connection carries one request or one reply at a time: the client     *)
(* waits for the reply before it sends again.  A request stays in inbox[c] *)
(* while its handler runs.  A handler is one action per section under the  *)
(* lock of MemoryManager, plus one for what it does before it takes the    *)
(* lock: between two of its actions any other thread can run.              *)
(*                                                                         *)
(* The peer may be any program that sends a header and as many bytes of    *)
(* payload as the header says: it sends the requests in any order, with    *)
(* any client's identifier, well-formed or not.                            *)
(***************************************************************************)
EXTENDS MemoryManager

CONSTANTS
    TIMES,      \* Server.py: sends of one file a connection may make
    Garbage,    \* what decryption under a wrong key yields, when it yields anything
    None        \* no message, no plaintext

ASSUME TimesAssumption == TIMES \in Nat \ {0}
ASSUME GarbageAssumption == Garbage \in Content
ASSUME NoneAssumption == None \notin Content

VARIABLES
    link,       \* the connection as the client leaves it
    session,    \* the locals of manageClient and of the handler it is in
    inbox,      \* the request received and not yet dealt with
    outbox      \* the reply sent and not yet received

netVars == <<link, session, inbox, outbox>>
serverVars == <<vars, netVars>>

Codes == {"REGISTRATION", "PUBLIC_KEY", "SEND_FILE", "CRC_OK", "CRC_NOT_OK", "CRC_ERROR"}

\* Requests whose payload is not what their code asks for, by its size or by the
\* size of the file it announces, and those with another code.
IllegalRequests == [code : (Codes \ {"CRC_NOT_OK"}) \cup {"UNKNOWN"}]

\* The peer holds the AES key of its own connection only.  The public key it sends is
\* usable if it is one, with a modulus large enough to encrypt an AES key.
Requests(c) ==
    [code : {"REGISTRATION"}, name : Name]
      \cup [code : {"PUBLIC_KEY"}, ID : ID, name : Name, usable : BOOLEAN]
      \cup [code : {"SEND_FILE"}, ID : ID, fileName : FileName, content : Content, key : {c}]
      \cup [code : {"CRC_OK", "CRC_NOT_OK", "CRC_ERROR"}, ID : ID, fileName : FileName]
      \cup IllegalRequests

Replies ==
    [code : {"REGISTRATION_SUCCESS"}, ID : ID]
      \cup [code : {"REGISTRATION_FAIL", "RECEIVED_APPROVAL"}]
      \cup [code : {"SEND_AES"}, key : Conn]
      \cup [code : {"GOT_FILE_WITH_CRC"}, crc : Content]

ASSUME NoMessageAssumption == \A c \in Conn : None \notin Requests(c) \cup Replies

Session == [pc : {"idle", "receiving", "signed", "decrypted", "saving", "removing", "closed"},
            expectedReq : {"REGISTRATION", "PUBLIC_KEY", "SEND_FILE", "CRC_OK"},
            repeats : 0..TIMES,
            plaintext : Content \cup {None}]

NewSession(pc) == [pc |-> pc, expectedReq |-> "REGISTRATION", repeats |-> 0,
                   plaintext |-> None]

ServerInit ==
    /\ Init
    /\ link = [c \in Conn |-> "unused"]
    /\ session = [c \in Conn |-> NewSession("idle")]
    /\ inbox = [c \in Conn |-> None]
    /\ outbox = [c \in Conn |-> None]

----------------------------------------------------------------------------
(* What a handler does at its end *)

Become(c, s) == session' = [session EXCEPT ![c] = s]

\* The request is dealt with; the thread goes on, or leaves the loop, as s says.
Finish(c, s) ==
    /\ Become(c, s)
    /\ inbox' = [inbox EXCEPT ![c] = None]
    /\ UNCHANGED link

Answer(c, reply, s) == Finish(c, s) /\ outbox' = [outbox EXCEPT ![c] = reply]

Silent(c, s) == Finish(c, s) /\ UNCHANGED outbox

\* The exception reaches manageClient, which prints it and receives again, with
\* the expectation and the count it had.
Raise(c) == Silent(c, [session[c] EXCEPT !.pc = "receiving", !.plaintext = None])

\* Faulty: the handler catches the exception and goes on.
GiveUpNever(c) == Raise(c)

\* The handler catches the exception and ends the connection.
GiveUp(c) == Silent(c, NewSession("closed"))

\* The thread is at the head of the handler of a request with one of the codes.
Handling(c, codes) ==
    /\ session[c].pc = "receiving"
    /\ inbox[c] # None
    /\ inbox[c].code \in codes

\* Faulty: one file too many.
TooManyLate(c) == session[c].repeats > TIMES

\* Faulty: one file too few.
TooManyEarly(c) == session[c].repeats >= TIMES - 1

\* "Too many resends!"
TooMany(c) == session[c].repeats >= TIMES

\* The handler raises before it does anything.
Unexpected(c) ==
    LET code == inbox[c].code
        expected == session[c].expectedReq
    IN  \/ code = "REGISTRATION" /\ expected # "REGISTRATION"
        \/ code = "PUBLIC_KEY" /\ expected \notin {"REGISTRATION", "PUBLIC_KEY"}
        \/ code = "SEND_FILE" /\ (expected # "SEND_FILE" \/ TooMany(c))
        \/ code \in {"CRC_OK", "CRC_NOT_OK", "CRC_ERROR"} /\ expected # "CRC_OK"
        \/ code = "CRC_NOT_OK" /\ session[c].repeats > TIMES

\* An unknown code passes through every test and is left without an answer.
Refuse(c) ==
    /\ Handling(c, Codes \cup {"UNKNOWN"})
    /\ Unexpected(c) \/ inbox[c].code = "UNKNOWN"
    /\ Raise(c)
    /\ UNCHANGED vars

Starts(c, codes) ==
    /\ Handling(c, codes)
    /\ ~Unexpected(c)
    /\ inbox[c] \notin IllegalRequests

\* The handler's method raises on the payload, before it takes the lock.
RefuseIllegal(c) ==
    /\ Handling(c, Codes)
    /\ ~Unexpected(c)
    /\ inbox[c] \in IllegalRequests
    /\ \/ /\ inbox[c].code = "REGISTRATION"
          /\ Answer(c, [code |-> "REGISTRATION_FAIL"], session[c])
       \/ /\ inbox[c].code = "PUBLIC_KEY"
          /\ Raise(c)
       \/ /\ inbox[c].code \in {"SEND_FILE", "CRC_OK", "CRC_ERROR"}
          /\ GiveUp(c)
    /\ UNCHANGED vars

----------------------------------------------------------------------------
(* The handlers *)

Register(c) ==
    /\ Starts(c, {"REGISTRATION"})
    /\ \/ \E r \in ID :
            /\ regUser(inbox[c].name, r)
            /\ Answer(c, [code |-> "REGISTRATION_SUCCESS", ID |-> r],
                      [session[c] EXCEPT !.expectedReq = "PUBLIC_KEY"])
       \/ /\ lock = Free
          /\ NameTaken(inbox[c].name)
          /\ Answer(c, [code |-> "REGISTRATION_FAIL"], session[c])
          /\ UNCHANGED vars

\* signKey: a wrong name or an unknown client has "no response specification".
SignPublicKey(c) ==
    /\ Starts(c, {"PUBLIC_KEY"})
    /\ \/ /\ signPublicKey(inbox[c].ID, inbox[c].name)
          /\ Become(c, [session[c] EXCEPT !.pc = "signed"])
          /\ UNCHANGED <<link, inbox, outbox>>
       \/ /\ lock = Free
          /\ ~HasName(clients, inbox[c].ID, inbox[c].name)
          /\ Raise(c)
          /\ UNCHANGED vars

\* genAESKey: a fresh key, stored in a second section under the lock.  Of a public key
\* that is not usable importKey raises before, or encrypt afterwards.
SignAESKey(c) ==
    /\ session[c].pc = "signed"
    /\ \/ /\ inbox[c].usable
          /\ signAESKey(inbox[c].ID, c)
          /\ Answer(c, [code |-> "SEND_AES", key |-> c],
                    [session[c] EXCEPT !.pc = "receiving", !.expectedReq = "SEND_FILE"])
       \/ /\ ~inbox[c].usable
          /\ UNCHANGED vars \/ signAESKey(inbox[c].ID, c)
          /\ Raise(c)

\* The key saveFileRequest finds: none for a client that is not in memory.
KeyOf(r) == IF clients[r] = NoClient THEN NoKey ELSE clients[r].AESKey

\* What the server has after decrypting with its key what was encrypted with key.
Decrypted(own, key, content) == IF own = key THEN content ELSE Garbage

\* saveFileRequest reads the client's AES key and decrypts, without the lock.  A
\* key that is not the sender's leaves a wrong padding or, seldom, garbage; the
\* key of a client loaded from the database (b"\0") cannot be used at all.
Decrypt(c) ==
    LET own == KeyOf(inbox[c].ID)
        text == Decrypted(own, inbox[c].key, inbox[c].content)
    IN  /\ Starts(c, {"SEND_FILE"})
        /\ \/ /\ own # NoKey
              /\ Become(c, [session[c] EXCEPT !.pc = "decrypted", !.plaintext = text])
              /\ UNCHANGED <<link, inbox, outbox>>
           \/ /\ own # inbox[c].key
              /\ GiveUp(c)
        /\ UNCHANGED vars

SaveFile(c) ==
    /\ session[c].pc = "decrypted"
    /\ \/ /\ saveFile(c, inbox[c].ID, inbox[c].fileName, session[c].plaintext)
          /\ Become(c, [session[c] EXCEPT !.pc = "saving"])
          /\ UNCHANGED <<link, inbox, outbox>>
       \/ /\ lock = Free
          /\ SaveRefused(inbox[c].ID, inbox[c].fileName)
          /\ GiveUp(c)
          /\ UNCHANGED vars

\* The end of SEND_FILE.  The CRC is computed from the content in memory, not
\* from the file; it stands for that content.
GotFile(c) ==
    Answer(c, [code |-> "GOT_FILE_WITH_CRC", crc |-> session[c].plaintext],
           [session[c] EXCEPT !.pc = "receiving", !.expectedReq = "CRC_OK",
                              !.repeats = session[c].repeats + 1, !.plaintext = None])

WriteFile(c) ==
    /\ session[c].pc = "saving"
    /\ writeFile(c)
    /\ IF lock.step = "rewrite" THEN GotFile(c) ELSE UNCHANGED netVars

InsertFile(c) ==
    /\ session[c].pc = "saving"
    /\ insertFile(c)
    /\ GotFile(c)

\* Faulty: the request's code instead of the reply's.
CRC_APPROVAL == [code |-> "CRC_OK"]

RECEIVED_APPROVAL == [code |-> "RECEIVED_APPROVAL"]

\* Faulty: the thread still expects a verdict.
CrcNotOkStays(c) ==
    /\ Starts(c, {"CRC_NOT_OK"})
    /\ Answer(c, RECEIVED_APPROVAL, session[c])
    /\ UNCHANGED vars

CrcNotOk(c) ==
    /\ Starts(c, {"CRC_NOT_OK"})
    /\ Answer(c, RECEIVED_APPROVAL, [session[c] EXCEPT !.expectedReq = "SEND_FILE"])
    /\ UNCHANGED vars

CrcOk(c) ==
    /\ Starts(c, {"CRC_OK"})
    /\ \/ /\ approveFile(inbox[c].ID, inbox[c].fileName)
          /\ Answer(c, RECEIVED_APPROVAL, NewSession("closed"))
       \/ /\ lock = Free
          /\ ApproveRefused(inbox[c].ID, inbox[c].fileName)
          /\ GiveUp(c)
          /\ UNCHANGED vars

CrcError(c) ==
    /\ Starts(c, {"CRC_ERROR"})
    /\ \/ /\ removeFile(c, inbox[c].ID, inbox[c].fileName)
          /\ Become(c, [session[c] EXCEPT !.pc = "removing"])
          /\ UNCHANGED <<link, inbox, outbox>>
       \/ /\ lock = Free
          /\ RemoveRefused(inbox[c].ID, inbox[c].fileName)
          /\ GiveUp(c)
          /\ UNCHANGED vars

RemoveRow(c) ==
    /\ session[c].pc = "removing"
    /\ removeRow(c)
    /\ Answer(c, RECEIVED_APPROVAL, NewSession("closed"))

\* Faulty: only a client that has not registered yet is missed.
EndOfInputWhenNew(c) ==
    /\ session[c].pc = "receiving" /\ session[c].expectedReq = "REGISTRATION"
    /\ inbox[c] = None
    /\ link[c] = "shut"
    /\ Become(c, NewSession("closed"))
    /\ UNCHANGED <<vars, link, inbox, outbox>>

\* recv returns nothing: the client has closed its end.
EndOfInput(c) ==
    /\ session[c].pc = "receiving"
    /\ inbox[c] = None
    /\ link[c] = "shut"
    /\ Become(c, NewSession("closed"))
    /\ UNCHANGED <<vars, link, inbox, outbox>>

Handler(c) ==
    \/ Refuse(c) \/ RefuseIllegal(c) \/ Register(c) \/ SignPublicKey(c) \/ SignAESKey(c)
    \/ Decrypt(c) \/ SaveFile(c) \/ WriteFile(c) \/ InsertFile(c)
    \/ CrcNotOk(c) \/ CrcOk(c) \/ CrcError(c) \/ RemoveRow(c)
    \/ EndOfInput(c)

----------------------------------------------------------------------------
(* The connections and the process *)

\* accept, and a thread for the connection.
Connect(c) ==
    /\ link[c] = "unused"
    /\ link' = [link EXCEPT ![c] = "open"]
    /\ Become(c, NewSession("receiving"))
    /\ UNCHANGED <<vars, inbox, outbox>>

Send(c, request) ==
    /\ link[c] = "open" /\ session[c].pc = "receiving"
    /\ inbox[c] = None /\ outbox[c] = None
    /\ inbox' = [inbox EXCEPT ![c] = request]
    /\ UNCHANGED <<vars, link, session, outbox>>

Receive(c) ==
    /\ link[c] = "open" /\ outbox[c] # None
    /\ outbox' = [outbox EXCEPT ![c] = None]
    /\ UNCHANGED <<vars, link, session, inbox>>

\* The client closes its end, or dies; a reply on its way is never read.
Disconnect(c) ==
    /\ link[c] = "open"
    /\ link' = [link EXCEPT ![c] = "shut"]
    /\ outbox' = [outbox EXCEPT ![c] = None]
    /\ UNCHANGED <<vars, session, inbox>>

\* The server dies and is started again: every thread ends where it is, every
\* connection is closed, and a reply not yet received may or may not arrive.
ServerRestart ==
    /\ Restart
    /\ session' = [c \in Conn |-> IF link[c] = "unused" THEN session[c]
                                                       ELSE NewSession("closed")]
    /\ inbox' = [c \in Conn |-> None]
    /\ \E lost \in SUBSET Conn :
         outbox' = [c \in Conn |-> IF c \in lost THEN None ELSE outbox[c]]
    /\ UNCHANGED link

Peer(c) ==
    \/ Connect(c) \/ Receive(c) \/ Disconnect(c)
    \/ \E request \in Requests(c) : Send(c, request)

ServerNext == (\E c \in Conn : Handler(c) \/ Peer(c)) \/ ServerRestart

\* The operating system schedules every thread: one that can take a step of its
\* handler takes it in the end, and none keeps the lock from the others for ever.
ServerFairness == \A c \in Conn : WF_serverVars(Handler(c))

ServerSpec == ServerInit /\ [][ServerNext]_serverVars /\ ServerFairness

----------------------------------------------------------------------------
(* Properties *)

\* Every variable has its type.
ServerTypeOK ==
    /\ TypeOK
    /\ link \in [Conn -> {"unused", "open", "shut"}]
    /\ session \in [Conn -> Session]
    /\ inbox \in [Conn -> (UNION {Requests(c) : c \in Conn}) \cup {None}]
    /\ outbox \in [Conn -> Replies \cup {None}]

\* The lock is held exactly by the thread that is inside saveFile or removeFile,
\* for the file of its own request: no exception, disconnection or death leaves
\* it held by nobody, and no two threads are inside.
LockOwned ==
    /\ \A c \in Conn : session[c].pc \in {"saving", "removing"} <=>
         lock # Free /\ lock.conn = c
    /\ lock # Free => inbox[lock.conn] # None /\ lock.ID = inbox[lock.conn].ID
                       /\ lock.fileName = inbox[lock.conn].fileName

\* While a reply is on its way, the thread that sent it already expects what the
\* protocol lets its client send next; only a restart can have closed it.
ReplyAgrees == \A c \in Conn : outbox[c] # None =>
    LET expects(code) == session[c].expectedReq = code \/ session[c].pc = "closed"
    IN  /\ inbox[c] = None
        /\ outbox[c].code = "REGISTRATION_SUCCESS" => expects("PUBLIC_KEY")
        /\ outbox[c].code = "REGISTRATION_FAIL" => expects("REGISTRATION")
        /\ outbox[c].code = "SEND_AES" => expects("SEND_FILE")
        /\ outbox[c].code = "GOT_FILE_WITH_CRC" => expects("CRC_OK")
        /\ outbox[c].code = "RECEIVED_APPROVAL" => expects("SEND_FILE")

\* A thread that expects the verdict on a file has received between one and TIMES
\* of them: the limit is checked before a file is received, and the check in the
\* handler of CRC_NOT_OK ("Resending too many times") never fires.
SendsCounted == \A c \in Conn :
    /\ session[c].expectedReq = "CRC_OK" => session[c].repeats \in 1..TIMES
    /\ session[c].expectedReq \in {"REGISTRATION", "PUBLIC_KEY"} => session[c].repeats = 0

\* While a thread expects a file or a verdict some client has an AES key in
\* memory: loadDB leaves every client without one, but a restart ends the thread.
KeyLoaded == \A c \in Conn :
    session[c].expectedReq \in {"SEND_FILE", "CRC_OK"} =>
        \E r \in ID : KeyOf(r) # NoKey

\* The thread owes its client the handling of a request, or the end of a connection
\* the client has closed.
Owes(c) == inbox[c] # None \/ (link[c] = "shut" /\ session[c].pc # "closed")

\* A thread owes its client nothing in the end: whatever the other threads do, none
\* waits for the lock for ever, every request is dealt with, and the thread of a
\* connection that was closed, at whatever point of the protocol, ends.
ThreadsServe == \A c \in Conn : Owes(c) ~> ~Owes(c)
=============================================================================
