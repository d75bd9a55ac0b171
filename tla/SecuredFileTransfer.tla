------------------------ MODULE SecuredFileTransfer ------------------------
(***************************************************************************)
(* The whole system: the server and the client program (Client/Client.cpp, *)
(* with Helper.cpp for its files and SockHandler.cpp for its connection).  *)
(*                                                                         *)
(* A run of the client is named by the connection it makes.  Runs started  *)
(* on one host share its me.info and transfer.info.  The program waits for *)
(* the reply to each of its requests; what it does from one reply to the   *)
(* next request touches nothing another program sees, unless it writes or  *)
(* reads me.info, so that each of these stretches is one action.           *)
(***************************************************************************)
EXTENDS Server, WireFormat

CONSTANTS
    Host,
    HostOf,         \* the host a run is started on
    NameOf,         \* the user name in a host's transfer.info
    FileOf,         \* the file name in a host's transfer.info
    ContentOf,      \* the content of that file when a run reads it
    SizeOf,         \* ... and its size
    ZeroByteID,     \* the identifiers that have a zero among their bytes
    FILE_SENDING_TIMES, \* Client.h: resends a run makes
    Sequential,     \* a host starts a run only when its last one is over
    MaxCrash        \* bound on the number of runs killed

ASSUME HostOfAssumption == HostOf \in [Conn -> Host]
ASSUME NameOfAssumption == NameOf \in [Host -> Name]
ASSUME FileOfAssumption == FileOf \in [Host -> FileName]
ASSUME ContentOfAssumption == ContentOf \in [Conn -> Content \ {Garbage}]
ASSUME SizeOfAssumption == SizeOf \in [Conn -> Nat]
ASSUME ZeroByteIDAssumption == ZeroByteID \subseteq ID
ASSUME BoundsAssumption ==
    FILE_SENDING_TIMES \in Nat /\ Sequential \in BOOLEAN /\ MaxCrash \in Nat

VARIABLES
    client,     \* where each run is
    meInfo,     \* me.info of each host
    crashes     \* runs killed so far

clientVars == <<client, meInfo, crashes>>
systemVars == <<serverVars, clientVars>>

Waiting == {"registering", "keying", "sending", "rejecting", "approving", "aborting"}
Over == {"approved", "exit", "killed"}

Run == [pc : {"start", "check", "create", "load"} \cup Waiting \cup Over,
        userId : ID \cup {None},
        times : 0..FILE_SENDING_TIMES]

UserInfo == [name : Name, ID : ID]

ASSUME NoInfoAssumption == None # Partial /\ {None, Partial} \cap UserInfo = {}

SystemInit ==
    /\ ServerInit
    /\ client = [c \in Conn |-> [pc |-> "start", userId |-> None, times |-> 0]]
    /\ meInfo = [h \in Host |-> None]
    /\ crashes = 0

----------------------------------------------------------------------------
(* The program of run c *)

Goto(c, pc) == client' = [client EXCEPT ![c].pc = pc]

\* The reply request c waits for has come.
Reply(c, pc, code) ==
    /\ client[c].pc = pc
    /\ outbox[c] # None
    /\ outbox[c].code = code

\* It takes the reply and sends its next request, which is lost if the server
\* has closed the connection meanwhile.
Exchange(c, request) ==
    /\ outbox' = [outbox EXCEPT ![c] = None]
    /\ inbox' = [inbox EXCEPT ![c] =
                   IF session[c].pc = "closed" THEN None ELSE request]
    /\ UNCHANGED <<vars, link, session>>

MayLaunch(c) == Sequential =>
    \A d \in Conn : HostOf[d] = HostOf[c] /\ d # c =>
        client[d].pc \in {"start"} \cup Over

Launch(c) ==
    /\ client[c].pc = "start"
    /\ MayLaunch(c)
    /\ Connect(c)
    /\ Goto(c, "check")
    /\ UNCHANGED <<meInfo, crashes>>

RegistrationRequest(c) == [code |-> "REGISTRATION", name |-> NameOf[HostOf[c]]]

\* main registers if the host has no me.info.
CheckInfo(c) ==
    /\ client[c].pc = "check"
    /\ IF meInfo[HostOf[c]] = None
         THEN Send(c, RegistrationRequest(c)) /\ Goto(c, "registering")
         ELSE UNCHANGED serverVars /\ Goto(c, "load")
    /\ UNCHANGED <<meInfo, crashes>>

\* The identifier becomes a std::string as a C string does, which ends before a
\* zero byte; writing its 16 bytes to me.info then reads past its end.
UserIds(r) == IF r \in ZeroByteID THEN ID ELSE {r}

\* createInfoFile opens me.info, which empties it ...
Registered(c) ==
    /\ Reply(c, "registering", "REGISTRATION_SUCCESS")
    /\ Receive(c)
    /\ \E r \in UserIds(outbox[c].ID) :
         client' = [client EXCEPT ![c].pc = "create", ![c].userId = r]
    /\ meInfo' = [meInfo EXCEPT ![HostOf[c]] = Partial]
    /\ UNCHANGED crashes

RegistrationFailed(c) ==
    /\ Reply(c, "registering", "REGISTRATION_FAIL")
    /\ Disconnect(c)
    /\ Goto(c, "exit")
    /\ UNCHANGED <<meInfo, crashes>>

\* ... and writes it.
CreateInfo(c) ==
    /\ client[c].pc = "create"
    /\ meInfo' = [meInfo EXCEPT ![HostOf[c]] =
                    [name |-> NameOf[HostOf[c]], ID |-> client[c].userId]]
    /\ Goto(c, "load")
    /\ UNCHANGED <<serverVars, crashes>>

\* processInfoFile exits when me.info is not complete.
LoadInfo(c) ==
    LET info == meInfo[HostOf[c]]
    IN  /\ client[c].pc = "load"
        /\ IF info = Partial
             THEN Disconnect(c) /\ Goto(c, "exit")
             ELSE /\ Send(c, [code |-> "PUBLIC_KEY", ID |-> info.ID, name |-> info.name,
                              usable |-> TRUE])
                  /\ client' = [client EXCEPT ![c].pc = "keying", ![c].userId = info.ID]
        /\ UNCHANGED <<meInfo, crashes>>

\* The request as the server reads it.
FileRequest(c, key) ==
    CASE FileFate(SizeOf[c]) = "misframed" -> [code |-> "UNKNOWN"]
      [] FileFate(SizeOf[c]) = "illegal" -> [code |-> "SEND_FILE"]
      [] FileFate(SizeOf[c]) = "handled" ->
           [code |-> "SEND_FILE", ID |-> client[c].userId, fileName |-> FileOf[HostOf[c]],
            content |-> ContentOf[c], key |-> key]

CrcRequest(c, code) ==
    [code |-> code, ID |-> client[c].userId, fileName |-> FileOf[HostOf[c]]]

\* sendKey returns the AES key; main encrypts the file with it and sends it.  The
\* connection makes one key exchange, so that a resend is under the same key.
SendFirst(c) ==
    /\ Reply(c, "keying", "SEND_AES")
    /\ Exchange(c, FileRequest(c, outbox[c].key))
    /\ Goto(c, "sending")
    /\ UNCHANGED <<meInfo, crashes>>

\* Faulty: one round too many.
LastRoundLate(c) == client[c].times > FILE_SENDING_TIMES

\* ++times <= FILE_SENDING_TIMES does not hold.
LastRound(c) == client[c].times + 1 > FILE_SENDING_TIMES

\* The loop of main: another round while the CRC is wrong and rounds are left.
CompareCrc(c) ==
    LET right == outbox[c].crc = ContentOf[c]
    IN  /\ Reply(c, "sending", "GOT_FILE_WITH_CRC")
        /\ \/ /\ ~right /\ ~LastRound(c)
              /\ Exchange(c, CrcRequest(c, "CRC_NOT_OK"))
              /\ client' = [client EXCEPT ![c].pc = "rejecting", ![c].times = @ + 1]
           \/ /\ ~right /\ LastRound(c)
              /\ Exchange(c, CrcRequest(c, "CRC_ERROR"))
              /\ Goto(c, "aborting")
           \/ /\ right
              /\ Exchange(c, CrcRequest(c, "CRC_OK"))
              /\ Goto(c, "approving")
        /\ UNCHANGED <<meInfo, crashes>>

Resend(c) ==
    /\ Reply(c, "rejecting", "RECEIVED_APPROVAL")
    /\ Exchange(c, FileRequest(c, c))
    /\ Goto(c, "sending")
    /\ UNCHANGED <<meInfo, crashes>>

\* The reply to the last message; main returns.
End(c) ==
    /\ \/ Reply(c, "approving", "RECEIVED_APPROVAL") /\ Goto(c, "approved")
       \/ Reply(c, "aborting", "RECEIVED_APPROVAL") /\ Goto(c, "exit")
    /\ Disconnect(c)
    /\ UNCHANGED <<meInfo, crashes>>

\* read_some or write fails because the server has closed the connection.
ServerClosed(c) ==
    /\ client[c].pc \in Waiting \cup {"check", "load"}
    /\ client[c].pc = "check" => meInfo[HostOf[c]] = None
    /\ client[c].pc = "load" => meInfo[HostOf[c]] # Partial
    /\ session[c].pc = "closed"
    /\ outbox[c] = None
    /\ Disconnect(c)
    /\ Goto(c, "exit")
    /\ UNCHANGED <<meInfo, crashes>>

Program(c) ==
    \/ CheckInfo(c) \/ Registered(c) \/ RegistrationFailed(c) \/ CreateInfo(c)
    \/ LoadInfo(c) \/ SendFirst(c) \/ CompareCrc(c) \/ Resend(c) \/ End(c)
    \/ ServerClosed(c)

----------------------------------------------------------------------------
\* A run is killed, leaving me.info and its connection as they are.
Crash(c) ==
    /\ crashes < MaxCrash
    /\ client[c].pc \notin {"start"} \cup Over
    /\ crashes' = crashes + 1
    /\ Disconnect(c)
    /\ Goto(c, "killed")
    /\ UNCHANGED meInfo

HandlerStep(c) == Handler(c) /\ UNCHANGED clientVars

ServerCrash == ServerRestart /\ UNCHANGED clientVars

\* Every run is over and every thread has ended.
Quiet ==
    /\ \A c \in Conn : client[c].pc \in Over /\ session[c].pc = "closed"
    /\ UNCHANGED systemVars

SystemNext ==
    \/ \E c \in Conn : Launch(c) \/ Program(c) \/ HandlerStep(c) \/ Crash(c)
    \/ ServerCrash
    \/ Quiet

\* A started program goes on, and so does every thread of the server.
SystemFairness == \A c \in Conn :
    WF_systemVars(Program(c)) /\ WF_systemVars(HandlerStep(c))

SystemSpec == SystemInit /\ [][SystemNext]_systemVars /\ SystemFairness

----------------------------------------------------------------------------
(* Properties *)

\* Every variable has its type.
SystemTypeOK ==
    /\ ServerTypeOK
    /\ client \in [Conn -> Run]
    /\ meInfo \in [Host -> UserInfo \cup {None, Partial}]
    /\ crashes \in 0..MaxCrash

\* A run never waits for a reply nobody will send: its request is being handled,
\* or its reply is on the way, or the server has closed the connection.  The
\* server answers some requests with nothing (a raised exception is printed and
\* the thread receives again) and the client has no timeout, so that this rests
\* on the two programs agreeing on what comes next and on how often.
NeverStuck == \A c \in Conn : client[c].pc \in Waiting =>
    inbox[c] # None \/ outbox[c] # None \/ session[c].pc = "closed"

\* What a complete me.info says is what the clients table says: crashes and
\* restarts, of either side, leave no host with another user's identifier.
InfoIsRegistered == \A h \in Host : meInfo[h] \notin {None, Partial} =>
    meInfo[h].name = NameOf[h] /\ HasName(dbClients, meInfo[h].ID, NameOf[h])

\* The file of run c is in the table, verified, and on the disk as c has it.
Stored(c) == \E g \in dbFiles :
    /\ g.ID = client[c].userId /\ g.fileName = FileOf[HostOf[c]] /\ g.verified
    /\ g.pathName \in DOMAIN disk /\ disk[g.pathName] = ContentOf[c]

\* A run whose CRC_OK was answered has its file stored, from then on, whatever
\* happens to the other runs and however often the server dies.
ApprovedIsStored == \A c \in Conn : client[c].pc = "approved" => Stored(c)

\* No run of host h has been killed, and left its thread behind.
Calm(h) == \A d \in Conn : HostOf[d] = h => client[d].pc # "killed"

\* A run whose CRC_OK was answered has its file stored, from then on, unless a run of
\* its own host is killed: the threads that killed runs of other users leave behind,
\* with a file, a key or a removal in their hands, do not touch it.
ApprovedUnlessKilled == \A c \in Conn :
    client[c].pc = "approved" /\ Calm(HostOf[c]) => Stored(c)

\* Every run that was started comes to an end.
Termination == \A c \in Conn : client[c].pc # "start" ~> client[c].pc \in Over
=============================================================================
