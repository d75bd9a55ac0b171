------------------------- MODULE StoredFile_proofs -------------------------
(***************************************************************************)
(* The proof that an approved file is stored and stays stored, for every   *)
(* number of users, runs and restarts, when the runs of one user do not    *)
(* overlap and none of them is killed.  Those of other users may be.       *)
(*                                                                         *)
(* The argument has four parts: a run has its host for itself, and its     *)
(* identifier; so, unless runs of its host are killed, its thread has its  *)
(* key, and reads and saves what the run sent; the tables, the list, the   *)
(* disk and the lock agree; and no thread, not even one left behind by a   *)
(* killed run, writes to the file of another user's run.                   *)
(***************************************************************************)
EXTENDS SecuredFileTransfer_proofs

USE TimesAssumption, GarbageAssumption, NoneAssumption, HostOfAssumption, NameOfAssumption, FileOfAssumption, ContentOfAssumption,
    SizeOfAssumption, ZeroByteIDAssumption, BoundsAssumption, NoMessageAssumption,
    NoInfoAssumption, NoClientAssumption, NoKeyAssumption, PartialAssumption

\* The programs are compatible and the runs of a host follow one another.  Any run,
\* and the server, may die at any moment.
Undisturbed == Compatible /\ Sequential

\* The hosts none of whose runs has been killed.
CalmHosts == {h \in Host : Calm(h)}

----------------------------------------------------------------------------
(* The steps of a run *)

\* The run goes from one place of main to another, as the same user.
Goes(c, from, to) ==
    /\ client[c].pc = from /\ client'[c].pc = to
    /\ client'[c].userId = client[c].userId

\* It sends i as its next request, unless the connection is closed.
Asks(c, i) ==
    session'[c] = session[c] /\ inbox'[c] \in {None, i} /\ outbox'[c] = None

Rests(c) == session'[c] = session[c] /\ inbox'[c] = inbox[c] /\ outbox'[c] = outbox[c]

Starting(c) ==
    /\ meInfo' = meInfo
    /\ \/ /\ Goes(c, "start", "check") /\ MayLaunch(c)
          /\ session'[c] = NewSession("receiving") /\ inbox'[c] = None /\ outbox'[c] = None
       \/ /\ Goes(c, "check", "registering") /\ meInfo[HostOf[c]] = None
          /\ Asks(c, RegistrationRequest(c))
       \/ /\ Goes(c, "check", "load") /\ Rests(c)

Identifying(c) ==
    \/ /\ client[c].pc = "registering" /\ client'[c].pc = "create"
       /\ outbox[c] # None /\ outbox[c].code = "REGISTRATION_SUCCESS"
       /\ client'[c].userId = outbox[c].ID
       /\ meInfo' = [meInfo EXCEPT ![HostOf[c]] = Partial]
       /\ Asks(c, None)
    \/ /\ Goes(c, "create", "load") /\ Rests(c) /\ client[c].userId \in ID
       /\ meInfo'[HostOf[c]] \notin {None, Partial}
       /\ meInfo'[HostOf[c]].ID = client[c].userId
       /\ \A h \in Host : h # HostOf[c] => meInfo'[h] = meInfo[h]
    \/ /\ client[c].pc = "load" /\ client'[c].pc = "keying"
       /\ meInfo[HostOf[c]] \notin {None, Partial}
       /\ client'[c].userId = meInfo[HostOf[c]].ID
       /\ session'[c] = session[c] /\ outbox'[c] = None
       /\ inbox'[c].ID = client'[c].userId
       /\ meInfo' = meInfo

Sending(c) ==
    /\ meInfo' = meInfo
    /\ \/ Goes(c, "keying", "sending") /\ Asks(c, FileRequest(c, c))
       \/ Goes(c, "rejecting", "sending") /\ Asks(c, FileRequest(c, c))
       \/ /\ Goes(c, "sending", "approving") /\ Asks(c, CrcRequest(c, "CRC_OK"))
          /\ outbox[c] # None /\ outbox[c].crc = ContentOf[c]
       \/ /\ (Goes(c, "sending", "rejecting") \/ Goes(c, "sending", "aborting"))
          /\ outbox[c] # None /\ outbox[c].code = "GOT_FILE_WITH_CRC"
          /\ outbox[c].crc # ContentOf[c]
          /\ \E code \in {"CRC_NOT_OK", "CRC_ERROR"} : Asks(c, CrcRequest(c, code))

Ending(c) ==
    /\ meInfo' = meInfo
    /\ session'[c] = session[c] /\ inbox'[c] = inbox[c] /\ outbox'[c] = None
    /\ \/ Goes(c, "approving", "approved") /\ outbox[c] # None
       \/ /\ client[c].pc \notin {"start"} \cup Over /\ client'[c].pc = "exit"
          /\ inbox[c] = None \/ (client[c].pc = "load" /\ meInfo[HostOf[c]] = Partial)

Dying(c) ==
    /\ Goes(c, client[c].pc, "killed") /\ client[c].pc \notin {"start"} \cup Over
    /\ meInfo' = meInfo
    /\ session'[c] = session[c] /\ inbox'[c] = inbox[c] /\ outbox'[c] = None

Moves(c) ==
    /\ OnlyThread(c) /\ OnlyRun(c) /\ UNCHANGED vars
    /\ Starting(c) \/ Identifying(c) \/ Sending(c) \/ Ending(c) \/ Dying(c)

LEMMA ClientMoves ==
    ASSUME Undisturbed, ThreadsInv, RunsInv, NEW c \in Conn, Talks(c), ClientStep(c)
    PROVE  Moves(c)
<1>0. OnlyThread(c) /\ UNCHANGED vars
  BY ClientThreads
<1>1. /\ Thread(c, link[c], session[c], inbox[c], outbox[c]) /\ HostOf[c] \in Host
      /\ session[c].pc = "closed" => inbox[c] = None
  BY DEF ThreadsInv, Thread, Phase
<1>2. outbox[c] # None => inbox[c] = None
  BY <1>1 DEF Thread, Agrees
<1>3. ASSUME OnlyRun(c),
             Starting(c) \/ Identifying(c) \/ Sending(c) \/ Ending(c) \/ Dying(c)
      PROVE  Moves(c)
  BY <1>0, <1>3 DEF Moves
<1>4. CASE Launch(c)
  BY <1>3, <1>4, GotoRun, ConnectOn DEF Launch, OnConnection, Starting, Goes
<1>5. CASE CheckInfo(c)
  <2>1. CASE meInfo[HostOf[c]] = None /\ Send(c, RegistrationRequest(c)) /\ Goto(c, "registering")
    BY <1>3, <1>5, <2>1, GotoRun, SendOn
       DEF CheckInfo, OnConnection, Starting, Goes, Asks, Waiting
  <2>2. CASE UNCHANGED serverVars /\ Goto(c, "load")
    BY <1>3, <1>5, <2>2, GotoRun DEF CheckInfo, Starting, Goes, Rests, serverVars, netVars
  <2> QED
    BY <1>5, <2>1, <2>2 DEF CheckInfo
<1>6. CASE Registered(c)
  <2>1. outbox[c] \in Replies /\ outbox[c].code = "REGISTRATION_SUCCESS" /\ outbox[c] # None
    BY <1>1, <1>6 DEF Registered, Reply, Thread
  <2>2. outbox[c].ID \in ID
    BY <2>1 DEF Replies
  <2>3. UserIds(outbox[c].ID) = {outbox[c].ID}
    BY DEF UserIds, Undisturbed, Compatible
  <2> DEFINE r == outbox[c].ID
  <2>a. client' = [client EXCEPT ![c].pc = "create", ![c].userId = r]
    BY <1>6, <2>3 DEF Registered
  <2> HIDE DEF r
  <2>b. OnlyRun(c) /\ client'[c].pc = "create" /\ client'[c].userId = r
    BY <2>2, <2>a, IdentifiedRun DEF r
  <2>4. OnlyRun(c) /\ client'[c].pc = "create" /\ client'[c].userId = outbox[c].ID
    BY <2>b DEF r
  <2>5. Asks(c, None)
    BY <1>6, ReceiveOn DEF Registered, OnConnection, Asks
  <2> QED
    BY <1>3, <1>6, <2>1, <2>4, <2>5 DEF Registered, Reply, Identifying
<1>7. CASE CreateInfo(c)
  <2> DEFINE info == [name |-> NameOf[HostOf[c]], ID |-> client[c].userId]
  <2>1. client[c].userId \in ID
    BY <1>7 DEF CreateInfo, RunsInv, RunInv, Identified
  <2>2. info \in UserInfo /\ info.ID = client[c].userId
    BY <1>1, <2>1 DEF UserInfo
  <2>3. meInfo' = [meInfo EXCEPT ![HostOf[c]] = info]
    BY <1>7 DEF CreateInfo
  <2> HIDE DEF info
  <2>4. /\ meInfo'[HostOf[c]] = info
        /\ \A h \in Host : h # HostOf[c] => meInfo'[h] = meInfo[h]
    BY <1>1, <2>3 DEF RunsInv
  <2>5. OnlyRun(c) /\ Goes(c, "create", "load") /\ Rests(c)
    BY <1>7, GotoRun DEF CreateInfo, Goes, Rests, serverVars, netVars
  <2> QED
    BY <1>3, <2>1, <2>2, <2>4, <2>5 DEF Identifying
<1>8. CASE LoadInfo(c)
  <2> DEFINE info == meInfo[HostOf[c]]
  <2>1. client[c].pc = "load" /\ info \in UserInfo \cup {Partial}
    BY <1>8 DEF LoadInfo, RunsInv, RunInv
  <2>2. CASE info = Partial
    BY <1>3, <1>8, <2>2, GotoRun, DisconnectOn DEF LoadInfo, OnConnection, Ending, Over
  <2>3. CASE info \in UserInfo /\ info # Partial
    <3>1. info.ID \in ID
      BY <2>3 DEF UserInfo
    <3>2. OnlyRun(c) /\ client'[c].pc = "keying" /\ client'[c].userId = info.ID
      BY <1>8, <2>3, <3>1, IdentifiedRun DEF LoadInfo
    <3>3. session'[c] = session[c] /\ outbox'[c] = None /\ inbox'[c].ID = info.ID
      BY <1>8, <2>3, SendOn DEF LoadInfo, OnConnection
    <3>4. meInfo' = meInfo /\ info \notin {None, Partial}
      BY <1>8, <2>3 DEF LoadInfo
    <3> QED
      BY <1>3, <2>1, <3>2, <3>3, <3>4 DEF Identifying
  <2> QED
    BY <2>1, <2>2, <2>3
<1>9. ASSUME NEW i, Exchange(c, i)
      PROVE  Asks(c, i)
  BY <1>9, ExchangeOn DEF OnConnection, Asks
<1>10. CASE SendFirst(c) \/ Resend(c)
  <2>1. Exchange(c, FileRequest(c, c)) /\ meInfo' = meInfo
    BY <1>10 DEF SendFirst, Resend, Reply, RunsInv, RunInv
  <2>2. Goes(c, "keying", "sending") \/ Goes(c, "rejecting", "sending")
    BY <1>10, GotoRun DEF SendFirst, Resend, Reply, Goes, Waiting
  <2>3. OnlyRun(c)
    BY <1>10, GotoRun DEF SendFirst, Resend, Waiting
  <2> QED
    BY <1>3, <1>9, <2>1, <2>2, <2>3 DEF Sending
<1>11. CASE CompareCrc(c)
  <2>1. meInfo' = meInfo /\ outbox[c] # None /\ client[c].pc = "sending"
        /\ outbox[c].code = "GOT_FILE_WITH_CRC"
    BY <1>11 DEF CompareCrc, Reply
  <2>2. CASE /\ outbox[c].crc # ContentOf[c] /\ ~LastRound(c)
             /\ client' = [client EXCEPT ![c].pc = "rejecting", ![c].times = @ + 1]
             /\ Exchange(c, CrcRequest(c, "CRC_NOT_OK"))
    BY <1>3, <1>9, <2>1, <2>2, AnotherRound DEF Sending, Goes
  <2>3. CASE /\ outbox[c].crc # ContentOf[c] /\ Goto(c, "aborting")
             /\ Exchange(c, CrcRequest(c, "CRC_ERROR"))
    BY <1>3, <1>9, <2>1, <2>3, GotoRun DEF Sending, Goes, Waiting
  <2>4. CASE outbox[c].crc = ContentOf[c] /\ Goto(c, "approving")
             /\ Exchange(c, CrcRequest(c, "CRC_OK"))
    BY <1>3, <1>9, <2>1, <2>4, GotoRun DEF Sending, Goes, Waiting
  <2> QED
    BY <1>11, <2>2, <2>3, <2>4 DEF CompareCrc
<1>12. ASSUME Disconnect(c), NEW pc \in Over, Goto(c, pc), meInfo' = meInfo,
              client[c].pc \notin {"start"} \cup Over, inbox[c] = None,
              \/ pc = "exit"
              \/ pc = "approved" /\ client[c].pc = "approving" /\ outbox[c] # None
       PROVE  Moves(c)
  <2>1. session'[c] = session[c] /\ inbox'[c] = inbox[c] /\ outbox'[c] = None
    BY <1>12, DisconnectOn DEF OnConnection
  <2>2. OnlyRun(c) /\ Goes(c, client[c].pc, pc)
    BY <1>12, GotoRun DEF Over, Goes
  <2>3. CASE pc = "exit"
    BY <1>3, <1>12, <2>1, <2>2, <2>3 DEF Ending, Goes
  <2>4. CASE pc # "exit"
    BY <1>3, <1>12, <2>1, <2>2, <2>4 DEF Ending
  <2> QED
    BY <2>3, <2>4
<1>13. CASE RegistrationFailed(c) \/ End(c)
  BY <1>2, <1>12, <1>13 DEF RegistrationFailed, End, Reply, Over
<1>14. CASE ServerClosed(c)
  BY <1>1, <1>12, <1>14 DEF ServerClosed, Over, Waiting
<1>15. CASE Crash(c)
  <2>1. session'[c] = session[c] /\ inbox'[c] = inbox[c] /\ outbox'[c] = None
    BY <1>15, DisconnectOn DEF Crash, OnConnection
  <2>2. OnlyRun(c) /\ Goes(c, client[c].pc, "killed")
    BY <1>15, GotoRun DEF Crash, Over, Goes
  <2> QED
    BY <1>3, <1>15, <2>1, <2>2 DEF Crash, Dying
<1> QED
  BY <1>4, <1>5, <1>6, <1>7, <1>8, <1>10, <1>11, <1>13, <1>14, <1>15 DEF ClientStep, Program

----------------------------------------------------------------------------
(* A run has its host, and its identifier, for itself *)

Busy(c) == client[c].pc \notin {"start"} \cup Over

OneAtATime == \A c, d \in Conn : HostOf[c] = HostOf[d] /\ Busy(c) /\ Busy(d) => c = d

\* Where a run has the identifier its host keeps.
Settled == {"keying", "sending", "rejecting", "approving", "aborting", "approved"}

InfoInv(c) ==
    LET info == meInfo[HostOf[c]]
    IN  /\ client[c].pc = "registering" => info = None
        /\ client[c].pc = "create" => info = Partial
        /\ client[c].pc \in Settled => info \notin {None, Partial} /\ info.ID = client[c].userId

\* Run c has been told the identifier r, which is not yet in me.info.
Promised(c, r) ==
    \/ client[c].pc = "create" /\ client[c].userId = r
    \/ /\ client[c].pc = "registering"
       /\ outbox[c] # None /\ outbox[c].code = "REGISTRATION_SUCCESS" /\ outbox[c].ID = r

\* Host h has the identifier r, or a run of it is about to give it to it.
Given(h, r) ==
    \/ meInfo[h] \notin {None, Partial} /\ meInfo[h].ID = r
    \/ \E c \in Conn : HostOf[c] = h /\ Promised(c, r)

OneHost == \A h, k \in Host, r \in ID : Given(h, r) /\ Given(k, r) => h = k

\* The requests that name a user.
UserRequest(c) == KeyRequest \cup SaveRequest(c) \cup VerdictRequest

\* They name the one in me.info, also when their run is dead.
SenderInv(c) == inbox[c] \in UserRequest(c) =>
    LET info == meInfo[HostOf[c]]
    IN  info \notin {None, Partial} /\ inbox[c].ID = info.ID

HostInv == OneAtATime /\ (\A c \in Conn : InfoInv(c) /\ SenderInv(c)) /\ OneHost

LEMMA OneAtATimeStep ==
    ASSUME Undisturbed, OneAtATime, NEW c \in Conn, Moves(c)
    PROVE  OneAtATime'
<1>1. \A d \in Conn : d # c => client'[d] = client[d]
  BY DEF Moves, OnlyRun
<1>2. Busy(c)' => Busy(c) \/ MayLaunch(c)
  BY DEF Moves, Starting, Identifying, Sending, Ending, Dying, Goes, Busy, Over
<1>3. MayLaunch(c) => \A d \in Conn : HostOf[d] = HostOf[c] /\ d # c => ~Busy(d)
  BY DEF MayLaunch, Busy, Undisturbed
<1> QED
  BY <1>1, <1>2, <1>3 DEF OneAtATime, Busy

\* me.info is written only where no run of the host relies on it.
LEMMA InfoInvStep ==
    ASSUME RunsInv, OneAtATime, \A d \in Conn : InfoInv(d), NEW c \in Conn, Moves(c),
           NEW d \in Conn
    PROVE  InfoInv(d)'
<1>0. HostOf[c] \in Host /\ HostOf[d] \in Host /\ None # Partial
  OBVIOUS
<1>1. CASE d = c
  <2>1. InfoInv(c)
    OBVIOUS
  <2>2. CASE Starting(c)
    BY <1>1, <2>2 DEF Starting, Goes, InfoInv, Settled
  <2>3. CASE Identifying(c)
    BY <1>0, <1>1, <2>3 DEF Identifying, Goes, InfoInv, Settled, RunsInv
  <2>4. CASE Sending(c) \/ Ending(c) \/ Dying(c)
    BY <1>1, <2>1, <2>4 DEF Sending, Ending, Dying, Goes, InfoInv, Settled
  <2> QED
    BY <2>2, <2>3, <2>4 DEF Moves
<1>2. CASE d # c
  <2>1. client'[d] = client[d] /\ InfoInv(d) /\ InfoInv(c)
    BY <1>2 DEF Moves, OnlyRun
  <2>2. CASE meInfo'[HostOf[d]] = meInfo[HostOf[d]]
    BY <2>1, <2>2 DEF InfoInv
  <2>3. CASE meInfo'[HostOf[d]] # meInfo[HostOf[d]]
    <3>1. client[c].pc \in {"registering", "create"} /\ HostOf[d] = HostOf[c]
      BY <1>0, <2>3 DEF Moves, Starting, Identifying, Sending, Ending, Dying, Goes, RunsInv
    <3>2. ~Busy(d)
      BY <1>2, <3>1 DEF OneAtATime, Busy, Over
    <3>3. meInfo[HostOf[d]] \in {None, Partial}
      BY <2>1, <3>1 DEF InfoInv
    <3> QED
      BY <2>1, <3>2, <3>3 DEF InfoInv, Busy, Over, Settled
  <2> QED
    BY <2>2, <2>3
<1> QED
  BY <1>1, <1>2

\* A complete me.info is never written again.
InfoKept == \A h \in Host : meInfo[h] \notin {None, Partial} => meInfo'[h] = meInfo[h]

LEMMA CompleteStays ==
    ASSUME Undisturbed, ThreadsInv, RunsInv, TalkInv, HostInv, [SystemNext]_systemVars
    PROVE  InfoKept
<1>1. ASSUME NEW d \in Conn, ClientStep(d)
      PROVE  InfoKept
  <2> SUFFICES ASSUME NEW h \in Host, meInfo[h] \notin {None, Partial}, meInfo'[h] # meInfo[h]
               PROVE  FALSE
    BY DEF InfoKept
  <2>0. HostOf[d] \in Host
    OBVIOUS
  <2>1. Moves(d) /\ InfoInv(d)
    BY <1>1, ClientMoves DEF TalkInv, HostInv
  <2>2. client[d].pc \in {"registering", "create"} /\ HostOf[d] = h
    BY <2>0, <2>1
       DEF Moves, Starting, Identifying, Sending, Ending, Dying, Goes, RunsInv
  <2> QED
    BY <2>1, <2>2 DEF InfoInv
<1>2. CASE UNCHANGED clientVars
  BY <1>2 DEF clientVars, InfoKept
<1> QED
  BY <1>1, <1>2, SystemSteps DEF HandlerStep, ServerCrash, systemVars

LEMMA UserRequests ==
    ASSUME NEW c \in Conn
    PROVE  /\ None \notin UserRequest(c)
           /\ \A i \in UserRequest(c) : i.code # "REGISTRATION"
           /\ \A code : [code |-> code] \notin UserRequest(c)
<1>1. UserRequest(c) \subseteq Requests(c)
  BY DEF UserRequest, Requests, KeyRequest, SaveRequest, VerdictRequest
<1>2. None \notin UserRequest(c)
  BY <1>1
<1>3. \A i \in UserRequest(c) : i.code # "REGISTRATION"
  BY DEF UserRequest, KeyRequest, SaveRequest, VerdictRequest
<1>4. \A code : [code |-> code] \notin UserRequest(c)
  BY SMT DEF UserRequest, KeyRequest, SaveRequest, VerdictRequest
<1> QED
  BY <1>2, <1>3, <1>4

\* A run asks for its user in the identifier it has from me.info.
LEMMA SenderInvStep ==
    ASSUME Undisturbed, ThreadsInv, RunsInv, TalkInv, HostInv, [SystemNext]_systemVars,
           NEW c \in Conn
    PROVE  SenderInv(c)'
<1> DEFINE h == HostOf[c]
<1>0. h \in Host /\ SenderInv(c) /\ InfoInv(c) /\ \A d \in Conn : InfoInv(d)
  BY HostOfAssumption DEF HostInv
<1>a. meInfo[h] \notin {None, Partial} => meInfo'[h] = meInfo[h]
  BY <1>0, CompleteStays DEF InfoKept
<1>1. ASSUME inbox'[c] \in {None, inbox[c]}
      PROVE  SenderInv(c)'
  <2>1. CASE inbox'[c] = None
    BY <2>1, UserRequests DEF SenderInv
  <2>2. CASE inbox'[c] = inbox[c]
    <3>1. inbox'[c] \in UserRequest(c) =>
            meInfo[h] \notin {None, Partial} /\ inbox[c].ID = meInfo[h].ID
      BY <1>0, <2>2 DEF SenderInv
    <3> QED
      BY <1>a, <2>2, <3>1 DEF SenderInv
  <2> QED
    BY <1>1, <2>1, <2>2
<1>2. ASSUME client[c].pc \in Settled, meInfo' = meInfo,
             inbox'[c] \in {None, FileRequest(c, c)} \cup
               {CrcRequest(c, code) : code \in {"CRC_OK", "CRC_NOT_OK", "CRC_ERROR"}}
      PROVE  SenderInv(c)'
  <2>1. meInfo[HostOf[c]] \notin {None, Partial} /\ meInfo[HostOf[c]].ID = client[c].userId
    BY <1>0, <1>2 DEF InfoInv
  <2>2. CASE inbox'[c] = None
    BY <1>1, <2>2
  <2>3. CASE inbox'[c] = FileRequest(c, c)
    <3>1. FileFate(SizeOf[c]) \in {"misframed", "illegal", "handled"}
      BY DEF FileFate
    <3>2. CASE FileFate(SizeOf[c]) # "handled"
      <4>1. inbox'[c] \notin UserRequest(c)
        BY <2>3, <3>1, <3>2, UserRequests DEF FileRequest
      <4> QED
        BY <4>1 DEF SenderInv
    <3>3. CASE FileFate(SizeOf[c]) = "handled"
      <4>1. inbox'[c].ID = client[c].userId
        BY <2>3, <3>3 DEF FileRequest
      <4> QED
        BY <1>2, <2>1, <4>1 DEF SenderInv
    <3> QED
      BY <3>2, <3>3
  <2>4. CASE \E code \in {"CRC_OK", "CRC_NOT_OK", "CRC_ERROR"} : inbox'[c] = CrcRequest(c, code)
    <3>1. inbox'[c].ID = client[c].userId
      BY <2>4 DEF CrcRequest
    <3> QED
      BY <1>2, <2>1, <3>1 DEF SenderInv
  <2> QED
    BY <1>2, <2>2, <2>3, <2>4
<1>3. ASSUME NEW d \in Conn, ClientStep(d)
      PROVE  SenderInv(c)'
  <2>1. Moves(d)
    BY <1>3, ClientMoves DEF TalkInv
  <2>2. CASE d # c
    BY <1>1, <2>1, <2>2 DEF Moves, OnlyThread
  <2>3. CASE d = c
    <3>1. CASE Starting(c)
      <4>1. inbox'[c] \in {None, inbox[c]} \/ inbox'[c].code = "REGISTRATION"
        BY <3>1 DEF Starting, Asks, Rests, RegistrationRequest
      <4> QED
        BY <1>1, <4>1, UserRequests DEF SenderInv
    <3>2. CASE Identifying(c)
      <4>1. CASE inbox'[c] \in {None, inbox[c]}
        BY <1>1, <4>1
      <4>2. CASE inbox'[c] \notin {None, inbox[c]}
        <5>1. /\ meInfo[HostOf[c]] \notin {None, Partial} /\ meInfo' = meInfo
              /\ inbox'[c].ID = meInfo[HostOf[c]].ID
          BY <3>2, <4>2 DEF Identifying, Asks, Rests
        <5> QED
          BY <5>1 DEF SenderInv
      <4> QED
        BY <4>1, <4>2
    <3>3. CASE Sending(c)
      BY <1>2, <3>3 DEF Sending, Goes, Asks, Settled
    <3>4. CASE Ending(c) \/ Dying(c)
      BY <1>1, <3>4 DEF Ending, Dying
    <3> QED
      BY <2>1, <2>3, <3>1, <3>2, <3>3, <3>4 DEF Moves
  <2> QED
    BY <2>2, <2>3
<1>4. ASSUME NEW d \in Conn, HandlerStep(d)
      PROVE  SenderInv(c)'
  <2>1. HandlerEffect(d)
    BY <1>4, HandlerDoes DEF HandlerStep
  <2> QED
    BY <1>1, <2>1 DEF HandlerEffect, OnlyThread, Works, Answers, Ignores, Closes
<1>5. CASE ServerCrash \/ UNCHANGED systemVars
  BY <1>1, <1>5 DEF ServerCrash, ServerRestart, systemVars, serverVars, netVars
<1> QED
  BY <1>3, <1>4, <1>5, SystemSteps

\* The hosts none of whose runs is killed become fewer.
LEMMA CalmShrinks ==
    ASSUME Undisturbed, ThreadsInv, RunsInv, TalkInv, [SystemNext]_systemVars
    PROVE  CalmHosts' \subseteq CalmHosts
<1>1. ASSUME NEW d \in Conn, client[d].pc = "killed"
      PROVE  client'[d].pc = "killed"
  <2>1. ASSUME NEW c \in Conn, Moves(c)
        PROVE  client'[d].pc = "killed"
    BY <1>1, <2>1
       DEF Moves, OnlyRun, Starting, Identifying, Sending, Ending, Dying, Goes, Over
  <2> QED
    BY <1>1, <2>1, ClientMoves, SystemSteps
       DEF TalkInv, HandlerStep, ServerCrash, systemVars, clientVars
<1> QED
  BY <1>1 DEF CalmHosts, Calm

\* An identifier that is given is that of a client in the table.
LEMMA GivenNamed ==
    ASSUME ThreadsInv, RunsInv, TalkInv, NEW h \in Host, NEW r, Given(h, r)
    PROVE  r \in ID /\ HasName(dbClients, r, NameOf[h])
<1>1. CASE meInfo[h] \notin {None, Partial} /\ meInfo[h].ID = r
  BY <1>1 DEF TalkInv, InfoIsRegistered, RunsInv, UserInfo
<1>2. ASSUME NEW c \in Conn, HostOf[c] = h, Promised(c, r)
      PROVE  r \in ID /\ HasName(dbClients, r, NameOf[h])
  <2>1. Talks(c) /\ Thread(c, link[c], session[c], inbox[c], outbox[c])
    BY DEF TalkInv, ThreadsInv
  <2>2. client[c].pc = "registering" /\ outbox[c] # None => Told(c)
    BY <2>1 DEF Talks, Asked, Ended, Thread, Agrees, Waiting
  <2> QED
    BY <1>2, <2>1, <2>2 DEF Promised, Talks, Told, UserOf
<1> QED
  BY <1>1, <1>2 DEF Given

\* A run passes its identifier on to its host.
LEMMA GivenByRun ==
    ASSUME RunsInv, NEW c \in Conn, Moves(c), NEW h \in Host, NEW r, Given(h, r)'
    PROVE  Given(h, r)
<1>0. HostOf[c] \in Host /\ None # Partial
  OBVIOUS
<1>1. ASSUME NEW d \in Conn, d # c, Promised(d, r)'
      PROVE  Promised(d, r)
  BY <1>1 DEF Moves, OnlyRun, OnlyThread, Promised
<1>2. Promised(c, r)' => Promised(c, r)
  <2>1. CASE Starting(c) \/ Sending(c) \/ Ending(c) \/ Dying(c)
    BY <2>1 DEF Starting, Sending, Ending, Dying, Goes, Asks, Promised
  <2>2. CASE Identifying(c)
    BY <2>2 DEF Identifying, Goes, Promised
  <2> QED
    BY <2>1, <2>2 DEF Moves
<1>3. CASE meInfo'[h] \notin {None, Partial} /\ meInfo'[h].ID = r
  <2>1. CASE meInfo'[h] = meInfo[h]
    BY <1>3, <2>1 DEF Given
  <2>2. CASE meInfo'[h] # meInfo[h]
    <3>1. h = HostOf[c] /\ Identifying(c)
      BY <1>0, <2>2 DEF Moves, Starting, Identifying, Sending, Ending, Dying, RunsInv
    <3>2. Promised(c, r)
      BY <1>0, <1>3, <2>2, <3>1 DEF Identifying, Goes, Promised, RunsInv
    <3> QED
      BY <3>1, <3>2 DEF Given
  <2> QED
    BY <2>1, <2>2
<1> QED
  BY <1>1, <1>2, <1>3 DEF Given

\* A handler gives a run an identifier only when it registers its user, under an
\* identifier nobody has.
LEMMA GivenByThread ==
    ASSUME TypeOK, ClientsAgree, UniqueNames, ThreadsInv, NEW c \in Conn, HandlerStep(c),
           ThreadsInv', NEW h \in Host, NEW r, Given(h, r)'
    PROVE  Given(h, r) \/ (h = HostOf[c] /\ dbClients[r] = NoClient)
<1>0. HandlerEffect(c) /\ client' = client /\ meInfo' = meInfo
  BY HandlerDoes DEF HandlerStep, clientVars
<1>1. Thread(c, link[c], session[c], inbox[c], outbox[c])
      /\ Thread(c, link'[c], session'[c], inbox'[c], outbox'[c])
  BY DEF ThreadsInv
<1>2. CASE meInfo'[h] \notin {None, Partial} /\ meInfo'[h].ID = r
  BY <1>0, <1>2 DEF Given
<1>3. ASSUME NEW d \in Conn, HostOf[d] = h, Promised(d, r)'
      PROVE  Given(h, r) \/ (h = HostOf[c] /\ dbClients[r] = NoClient)
  <2>1. CASE outbox'[d] = outbox[d]
    BY <1>0, <1>3, <2>1 DEF Promised, Given
  <2>2. CASE client[d].pc = "create"
    BY <1>0, <1>3, <2>2 DEF Promised, Given
  <2>3. CASE outbox'[d] # outbox[d] /\ client[d].pc # "create"
    <3>1. d = c /\ Answers(c, inbox[c], outbox'[c])
      BY <1>0, <2>3 DEF HandlerEffect, OnlyThread, Works, Ignores, Closes
    <3>2. outbox'[c].code = "REGISTRATION_SUCCESS" /\ outbox'[c].ID = r /\ outbox'[c] # None
      BY <1>0, <1>3, <2>3, <3>1 DEF Promised
    <3>3. inbox[c].name \in Name /\ regUser(inbox[c].name, r)
      BY <3>1, <3>2 DEF Answers
    <3>4. r \in ID
      BY <1>1, <3>2 DEF Thread, Replies
    <3> QED
      BY <1>3, <3>1, <3>3, <3>4, RegisteredRow
  <2> QED
    BY <2>1, <2>2, <2>3
<1> QED
  BY <1>2, <1>3 DEF Given

LEMMA OneHostStep ==
    ASSUME Undisturbed, TypeOK, ClientsAgree, UniqueNames, ThreadsInv, RunsInv, TalkInv,
           OneHost, [SystemNext]_systemVars
    PROVE  OneHost'
<1>0. ThreadsInv'
  BY RunsStep
<1>1. ASSUME \A h \in Host, r \in ID : Given(h, r)' => Given(h, r)
      PROVE  OneHost'
  BY <1>1 DEF OneHost
<1>2. ASSUME NEW c \in Conn, ClientStep(c)
      PROVE  OneHost'
  BY <1>1, <1>2, ClientMoves, GivenByRun DEF TalkInv
<1>3. ASSUME NEW c \in Conn, HandlerStep(c)
      PROVE  OneHost'
  <2> SUFFICES ASSUME NEW h \in Host, NEW k \in Host, NEW r \in ID, Given(h, r)', Given(k, r)'
               PROVE  h = k
    BY DEF OneHost
  <2>1. \A l \in Host : Given(l, r)' =>
          Given(l, r) \/ (l = HostOf[c] /\ dbClients[r] = NoClient)
    BY <1>0, <1>3, GivenByThread
  <2>2. \A l \in Host : Given(l, r) => dbClients[r] # NoClient
    BY GivenNamed DEF HasName
  <2> QED
    BY <2>1, <2>2 DEF OneHost
<1>4. CASE ServerCrash \/ UNCHANGED systemVars
  <2>1. \A c \in Conn : outbox'[c] = None \/ outbox'[c] = outbox[c]
    BY <1>4 DEF ServerCrash, ServerRestart, systemVars, serverVars, netVars
  <2>2. client' = client /\ meInfo' = meInfo
    BY <1>4 DEF ServerCrash, systemVars, clientVars
  <2> QED
    BY <1>1, <2>1, <2>2 DEF Given, Promised
<1> QED
  BY <1>2, <1>3, <1>4, SystemSteps

LEMMA HostInvStep ==
    ASSUME Undisturbed, TypeOK, ClientsAgree, UniqueNames, ThreadsInv, RunsInv, TalkInv,
           HostInv, [SystemNext]_systemVars
    PROVE  HostInv'
<1>1. ASSUME NEW c \in Conn, ClientStep(c)
      PROVE  OneAtATime' /\ \A d \in Conn : InfoInv(d)'
  BY <1>1, ClientMoves, OneAtATimeStep, InfoInvStep DEF TalkInv, HostInv
<1>2. ASSUME UNCHANGED clientVars
      PROVE  OneAtATime' /\ \A d \in Conn : InfoInv(d)'
  BY <1>2 DEF clientVars, HostInv, OneAtATime, Busy, InfoInv
<1>3. OneHost'
  BY OneHostStep DEF HostInv
<1>4. \A d \in Conn : SenderInv(d)'
  BY SenderInvStep
<1> QED
  BY <1>1, <1>2, <1>3, <1>4, SystemSteps DEF HandlerStep, ServerCrash, systemVars, HostInv

LEMMA HostInvAlways ==
    ASSUME Undisturbed
    PROVE  SystemSpec => []HostInv
<1>0. Compatible
  BY DEF Undisturbed
<1>1. SystemInit => HostInv
  BY UserRequests DEF SystemInit, ServerInit, HostInv, OneAtATime, Busy, InfoInv, SenderInv, Settled,
     OneHost, Given, Promised, Over
<1>2. /\ TypeOK /\ ClientsAgree /\ UniqueNames /\ ThreadsInv /\ RunsInv /\ TalkInv /\ HostInv
      /\ [SystemNext]_systemVars
      => HostInv'
  BY HostInvStep
<1> QED
  BY <1>0, <1>1, <1>2, SystemUsesStorage, TypeCorrect, ClientsConsistent, RunsAlways, TalkAlways,
     PTL DEF SystemSpec

\* So two runs that are under way do not have one identifier.
LEMMA OwnIdentifier ==
    ASSUME RunsInv, HostInv, NEW c \in Conn, NEW d \in Conn,
           client[c].pc \in Settled, client[d].pc \in Settled,
           client[c].userId = client[d].userId
    PROVE  HostOf[c] = HostOf[d] /\ (Busy(c) /\ Busy(d) => c = d)
<1>1. /\ Given(HostOf[c], client[c].userId) /\ Given(HostOf[d], client[d].userId)
      /\ client[c].userId \in ID
  BY DEF HostInv, InfoInv, Given, RunsInv, UserInfo
<1> QED
  BY <1>1 DEF HostInv, OneHost, OneAtATime

\* Nor does any thread have a request for a user of another host.
LEMMA OtherIdentifier ==
    ASSUME RunsInv, HostInv, NEW c \in Conn, NEW d \in Conn, client[c].pc \in Settled,
           inbox[d] \in UserRequest(d), HostOf[d] # HostOf[c]
    PROVE  inbox[d].ID # client[c].userId
<1>1. /\ Given(HostOf[c], client[c].userId) /\ Given(HostOf[d], inbox[d].ID)
      /\ client[c].userId \in ID /\ HostOf[c] \in Host /\ HostOf[d] \in Host
  BY DEF HostInv, InfoInv, SenderInv, Given, RunsInv, UserInfo
<1> QED
  BY <1>1 DEF HostInv, OneHost

----------------------------------------------------------------------------
(* Its thread has what the run sent *)

\* The request in the thread's hands is the run's, if the run is alive.
RequestInv(c) == inbox[c] # None /\ client[c].pc # "killed" =>
    /\ client[c].pc \in Waiting
    /\ client[c].pc = "keying" => inbox[c].ID = client[c].userId
    /\ client[c].pc = "sending" => inbox[c] = FileRequest(c, c)
    /\ client[c].pc = "approving" => inbox[c] = CrcRequest(c, "CRC_OK")

\* The key the server has for the run's user is the one it gave this run.
KeyInv(c) ==
    /\ HostOf[c] \in CalmHosts
    /\ client[c].pc \in Settled \ {"approved"} /\ Keyed(session[c])
    => KeyOf(client[c].userId) = c

\* What the thread decrypts, and the CRC it replies, are of the run's file; so the
\* run never sends its file twice, nor gives up.
DataInv(c) == HostOf[c] \in CalmHosts =>
    /\ client[c].pc \notin {"rejecting", "aborting"}
    /\ session[c].pc # "removing"
    /\ session[c].pc \in {"decrypted", "saving"} => session[c].plaintext = ContentOf[c]
    /\ outbox[c] # None /\ outbox[c].code = "GOT_FILE_WITH_CRC" => outbox[c].crc = ContentOf[c]

Inside == lock.step \in {"rewrite", "create", "created"}

\* A thread inside saveFile writes what its run sent, and none removes a file.
LockData == HostOf[lock.conn] \in CalmHosts =>
    /\ lock.step # "unlinked"
    /\ Inside => lock.content = ContentOf[lock.conn]

ThreadInv ==
    /\ \A c \in Conn : RequestInv(c) /\ KeyInv(c) /\ DataInv(c)
    /\ LockData

LEMMA SameRequests ==
    ASSUME NEW c \in Conn, client'[c].userId = client[c].userId
    PROVE  FileRequest(c, c)' = FileRequest(c, c)
           /\ CrcRequest(c, "CRC_OK")' = CrcRequest(c, "CRC_OK")
  BY DEF FileRequest, CrcRequest

\* A run of a calm host is alive.
LEMMA CalmAlive ==
    ASSUME NEW c \in Conn, HostOf[c] \in CalmHosts
    PROVE  client[c].pc # "killed"
  BY DEF CalmHosts, Calm

\* A living run waits for the answer to a request in its thread's hands.
LEMMA InHandAsked ==
    ASSUME ThreadsInv, NEW c \in Conn, Talks(c), RequestInv(c), inbox[c] # None,
           client[c].pc # "killed"
    PROVE  client[c].pc \in Waiting /\ Asked(c) /\ outbox[c] = None
<1>1. Thread(c, link[c], session[c], inbox[c], outbox[c])
  BY DEF ThreadsInv
<1> QED
  BY <1>1 DEF RequestInv, Talks, Told, Ended, Thread, Agrees, Phase

LEMMA RequestInvStep ==
    ASSUME Undisturbed, ThreadsInv, RunsInv, TalkInv,
           \A d \in Conn : RequestInv(d), NEW c \in Conn, [SystemNext]_systemVars
    PROVE  RequestInv(c)'
<1>1. ASSUME NEW d \in Conn, ClientStep(d)
      PROVE  RequestInv(c)'
  <2>1. Moves(d) /\ Talks(d) /\ RequestInv(d)
    BY <1>1, ClientMoves DEF TalkInv
  <2>2. CASE d # c
    <3>1. client'[c] = client[c] /\ inbox'[c] = inbox[c] /\ RequestInv(c)
      BY <2>1, <2>2 DEF Moves, OnlyRun, OnlyThread
    <3> QED
      BY <3>1, SameRequests DEF RequestInv
  <2>3. CASE d = c
    <3>1. CASE Starting(c)
      BY <2>1, <2>3, <3>1 DEF Starting, Goes, Asks, Rests, RequestInv, Waiting
    <3>2. CASE Identifying(c)
      BY <2>1, <2>3, <3>2 DEF Identifying, Goes, Asks, Rests, RequestInv, Waiting
    <3>3. CASE Sending(c)
      <4>1. CASE Goes(c, "keying", "sending") \/ Goes(c, "rejecting", "sending")
        BY <3>3, <4>1 DEF Sending, Goes, Asks, RequestInv, Waiting, FileRequest
      <4>2. CASE Goes(c, "sending", "approving")
        BY <3>3, <4>2 DEF Sending, Goes, Asks, RequestInv, Waiting, CrcRequest
      <4>3. CASE Goes(c, "sending", "rejecting") \/ Goes(c, "sending", "aborting")
        BY <4>3 DEF Goes, RequestInv, Waiting
      <4> QED
        BY <3>3, <4>1, <4>2, <4>3 DEF Sending
    <3>4. CASE Ending(c)
      <4>1. client[c].pc # "killed"
        BY <3>4 DEF Ending, Goes, Over
      <4>2. inbox'[c] = None
        BY <2>1, <2>3, <3>4, <4>1, InHandAsked DEF Ending, Goes, Talks, BetweenReplies, Thread
      <4> QED
        BY <4>2 DEF RequestInv
    <3>5. CASE Dying(c)
      BY <3>5 DEF Dying, Goes, RequestInv
    <3> QED
      BY <2>1, <2>3, <3>1, <3>2, <3>3, <3>4, <3>5 DEF Moves
  <2> QED
    BY <2>2, <2>3
<1>2. ASSUME client' = client, inbox'[c] = None \/ inbox'[c] = inbox[c]
      PROVE  RequestInv(c)'
  BY <1>2, SameRequests DEF RequestInv
<1>3. ASSUME NEW d \in Conn, HandlerStep(d)
      PROVE  RequestInv(c)'
  <2>1. HandlerEffect(d) /\ client' = client
    BY <1>3, HandlerDoes DEF HandlerStep, clientVars
  <2>2. inbox'[c] = None \/ inbox'[c] = inbox[c]
    BY <2>1 DEF HandlerEffect, OnlyThread, Works, Answers, Ignores, Closes
  <2> QED
    BY <1>2, <2>1, <2>2
<1>4. CASE ServerCrash \/ UNCHANGED systemVars
  BY <1>2, <1>4 DEF ServerCrash, ServerRestart, systemVars, clientVars, serverVars, netVars
<1> QED
  BY <1>1, <1>3, <1>4, SystemSteps

LEMMA KeyInvStep ==
    ASSUME Undisturbed, TypeOK, ClientsAgree, UniqueNames, ThreadsInv, RunsInv, TalkInv, HostInv,
           \A d \in Conn : RequestInv(d) /\ KeyInv(d), NEW c \in Conn, [SystemNext]_systemVars
    PROVE  KeyInv(c)'
<1>0. KeyInv(c) /\ Talks(c) /\ Thread(c, link[c], session[c], inbox[c], outbox[c])
  BY DEF TalkInv, ThreadsInv
<1>a. CalmHosts' \subseteq CalmHosts
  BY CalmShrinks
<1>1. ASSUME NEW d \in Conn, ClientStep(d)
      PROVE  KeyInv(c)'
  <2>1. Moves(d)
    BY <1>1, ClientMoves DEF TalkInv
  <2>2. \A r \in ID : KeyOf(r)' = KeyOf(r)
    BY <2>1 DEF Moves, KeyOf, vars
  <2>3. client'[c].pc \in Settled \ {"approved"} => client'[c].userId \in ID
    BY RunsStep DEF RunsInv, RunInv, Identified, Settled
  <2>4. CASE d # c
    <3>1. client'[c] = client[c] /\ session'[c] = session[c]
      BY <2>1, <2>4 DEF Moves, OnlyRun, OnlyThread
    <3> QED
      BY <1>0, <1>a, <2>2, <2>3, <3>1 DEF KeyInv, Keyed
  <2>5. CASE d = c
    <3>1. CASE Starting(c)
      BY <2>5, <3>1 DEF Starting, Goes, KeyInv, Settled
    <3>2. CASE Identifying(c)
      <4>1. client[c].pc = "load" => ~Keyed(session[c])
        BY <1>0 DEF Talks, BetweenReplies, Thread, Phase, Keyed
      <4> QED
        BY <2>5, <3>2, <4>1 DEF Identifying, Goes, KeyInv, Settled, Keyed
    <3>3. CASE Sending(c) \/ Ending(c) \/ Dying(c)
      <4>1. client'[c].pc \in Settled \ {"approved"} =>
              /\ client[c].pc \in Settled \ {"approved"} /\ session'[c] = session[c]
              /\ client'[c].userId = client[c].userId
        BY <2>5, <3>3 DEF Sending, Ending, Dying, Goes, Asks, Settled
      <4> QED
        BY <1>0, <1>a, <2>2, <2>3, <4>1 DEF KeyInv, Keyed
    <3> QED
      BY <2>1, <2>5, <3>1, <3>2, <3>3 DEF Moves
  <2> QED
    BY <2>4, <2>5
<1>2. ASSUME NEW d \in Conn, HandlerStep(d)
      PROVE  KeyInv(c)'
  <2>1. Handler(d) /\ client' = client /\ OnlyThread(d)
    BY <1>2, HandlerDoes DEF HandlerStep, clientVars, HandlerEffect
  <2>a. client[c].pc \in Settled \ {"approved"} => client[c].userId \in ID
    BY DEF RunsInv, RunInv, Identified, Settled
  <2> SUFFICES ASSUME NEW r \in ID, r = client[c].userId, HostOf[c] \in CalmHosts,
                      client[c].pc \in Settled \ {"approved"}, Keyed(session'[c])
               PROVE  KeyOf(r)' = c
    BY <1>a, <2>1, <2>a DEF KeyInv, Keyed, KeyOf
  <2>2. ASSUME Keyed(session[c]),
               \/ UserStep \/ FileStep \/ LockedStep \/ UNCHANGED vars
               \/ \E s \in ID, key \in Conn : s # r /\ signAESKey(s, key)
        PROVE  KeyOf(r)' = c
    <3>1. KeyOf(r) = c /\ KeyOf(r) # NoKey
      BY <1>0, <2>2 DEF KeyInv
    <3> QED
      BY <2>2, <3>1, KeyKept
  <2>3. CASE ~SignAESKey(d)
    <3>1. Keyed(session[c])
      BY <2>1, <2>3, KeyedByKey
    <3> QED
      BY <2>1, <2>2, <2>3, <3>1, HandlerStorage
  <2>4. CASE SignAESKey(d)
    <3>1. /\ inbox[d] \in KeyRequest /\ inbox[d] # None /\ inbox[d].code = "PUBLIC_KEY"
      BY <2>4 DEF SignAESKey, ThreadsInv, Thread, Phase, KeyRequest
    <3>2. client[d].pc # "killed" => Asked(d) /\ client[d].pc \in Waiting /\ RequestInv(d)
      BY <3>1, InHandAsked DEF TalkInv
    <3>3. client[d].pc # "killed" => client[d].pc = "keying" /\ inbox[d].ID = client[d].userId
      BY <3>1, <3>2 DEF Asked, Waiting, RequestInv
    <3>4. inbox[d].ID \in ID /\ (signAESKey(inbox[d].ID, d) \/ UNCHANGED vars)
      BY <2>4, <3>1 DEF SignAESKey, KeyRequest
    <3>5. CASE d = c
      <4>1. client[d].pc = "keying" /\ inbox[d].ID = client[d].userId
        BY <3>3, <3>5, CalmAlive
      <4>2. Asked(d)
        BY <3>2, <3>5, CalmAlive
      <4>3. signAESKey(inbox[d].ID, d)
        BY <2>4, <3>1, <4>1, <4>2 DEF SignAESKey, Asked
      <4> QED
        BY <3>4, <3>5, <4>1, <4>3, KeyStored
    <3>6. CASE d # c
      <4>1. inbox[d].ID # r
        <5>1. CASE HostOf[d] = HostOf[c]
          <6>1. client[d].pc # "killed"
            BY <5>1, CalmAlive
          <6> QED
            BY <3>3, <3>6, <6>1, OwnIdentifier DEF Settled, Busy, Over
        <5>2. CASE HostOf[d] # HostOf[c]
          BY <3>1, <5>2, OtherIdentifier DEF UserRequest
        <5> QED
          BY <5>1, <5>2
      <4>2. Keyed(session[c])
        BY <2>1, <3>6 DEF OnlyThread
      <4> QED
        BY <2>2, <3>4, <4>1, <4>2
    <3> QED
      BY <3>5, <3>6
  <2> QED
    BY <2>3, <2>4
<1>3. CASE ServerCrash
  <2>1. session'[c].expectedReq = "REGISTRATION"
    BY <1>0, <1>3, ClosedSession DEF ServerCrash, ServerRestart, Thread, Phase
  <2> QED
    BY <2>1 DEF KeyInv, Keyed
<1>4. CASE UNCHANGED systemVars
  <2>1. client' = client /\ session' = session /\ clients' = clients
    BY <1>4 DEF systemVars, serverVars, netVars, vars, clientVars
  <2> QED
    BY <1>0, <1>a, <2>1 DEF KeyInv, Keyed, KeyOf
<1> QED
  BY <1>1, <1>2, <1>3, <1>4, SystemSteps

\* The handlers that neither read nor write a file.
LEMMA PlainHandlers ==
    ASSUME ThreadsInv, NEW c \in Conn,
           \/ Refuse(c) \/ RefuseIllegal(c) \/ Register(c) \/ SignPublicKey(c) \/ SignAESKey(c)
           \/ CrcNotOk(c) \/ CrcOk(c) \/ EndOfInput(c)
    PROVE  /\ UNCHANGED <<lock, disk>>
           /\ session'[c].pc \notin {"decrypted", "saving", "removing"}
           /\ outbox'[c] = outbox[c] \/ outbox'[c].code # "GOT_FILE_WITH_CRC"
<1>0. session[c] \in Session /\ session \in [Conn -> Session]
      /\ DOMAIN outbox = Conn
  BY DEF ThreadsInv
<1>1. UNCHANGED <<lock, disk>>
  BY DEF Refuse, RefuseIllegal, Register, SignPublicKey, SignAESKey, CrcNotOk, CrcOk, EndOfInput,
     vars, regUser, signPublicKey, signAESKey, approveFile
<1> DEFINE plain == /\ session'[c].pc \notin {"decrypted", "saving", "removing"}
                    /\ outbox'[c] = outbox[c] \/ outbox'[c].code # "GOT_FILE_WITH_CRC"
<1> SUFFICES plain
  BY <1>1
<1>2. Raise(c) => plain
  BY RaiseIgnores
<1>3. GiveUp(c) => plain
  BY GiveUpCloses DEF Closes
<1>4. ASSUME NEW o, NEW s, Answer(c, o, s), o.code # "GOT_FILE_WITH_CRC",
             s.pc \notin {"decrypted", "saving", "removing"}
      PROVE  plain
  <2>1. session'[c] = s /\ outbox'[c] = o
    BY <1>0, <1>4 DEF Answer, Finish, Become
  <2> QED
    BY <1>4, <2>1
<1>5. CASE Refuse(c)
  BY <1>2, <1>5 DEF Refuse
<1>6. CASE RefuseIllegal(c)
  BY <1>2, <1>3, <1>4, <1>6 DEF RefuseIllegal, Handling
<1>7. CASE Register(c)
  <2>1. session[c].pc = "receiving"
    BY <1>7 DEF Register, Starts, Handling
  <2>2. ASSUME NEW r, Answer(c, [code |-> "REGISTRATION_SUCCESS", ID |-> r],
                             [session[c] EXCEPT !.expectedReq = "PUBLIC_KEY"])
        PROVE  plain
    <3> DEFINE s == [session[c] EXCEPT !.expectedReq = "PUBLIC_KEY"]
               o == [code |-> "REGISTRATION_SUCCESS", ID |-> r]
    <3>1. s.pc = "receiving" /\ o.code = "REGISTRATION_SUCCESS"
      BY <1>0, <2>1 DEF Session
    <3>2. Answer(c, o, s)
      BY <2>2
    <3> HIDE DEF s, o, plain
    <3> QED
      BY <1>4, <3>1, <3>2
  <2>3. ASSUME Answer(c, [code |-> "REGISTRATION_FAIL"], session[c])
        PROVE  plain
    <3> DEFINE o == [code |-> "REGISTRATION_FAIL"]
    <3>1. o.code = "REGISTRATION_FAIL" /\ Answer(c, o, session[c])
      BY <2>3
    <3> HIDE DEF o, plain
    <3> QED
      BY <1>4, <2>1, <3>1
  <2> HIDE DEF plain
  <2> QED
    BY <1>7, <2>2, <2>3 DEF Register
<1>8. CASE SignPublicKey(c)
  <2>1. ASSUME Become(c, [session[c] EXCEPT !.pc = "signed"]), UNCHANGED outbox
        PROVE  plain
    BY <1>0, <2>1 DEF Become, Session
  <2> QED
    BY <1>2, <1>8, <2>1 DEF SignPublicKey
<1>9. CASE SignAESKey(c)
  <2> DEFINE s == [session[c] EXCEPT !.pc = "receiving", !.expectedReq = "SEND_FILE"]
             o == [code |-> "SEND_AES", key |-> c]
  <2>1. s.pc = "receiving" /\ o.code = "SEND_AES"
    BY <1>0 DEF Session
  <2>2. Answer(c, o, s) \/ Raise(c)
    BY <1>9 DEF SignAESKey
  <2> HIDE DEF s, o, plain
  <2> QED
    BY <1>2, <1>4, <2>1, <2>2
<1>10. CASE CrcNotOk(c)
  <2> DEFINE s == [session[c] EXCEPT !.expectedReq = "SEND_FILE"]
  <2>1. s.pc = "receiving"
    BY <1>0, <1>10 DEF CrcNotOk, Starts, Handling, Session
  <2>2. Answer(c, RECEIVED_APPROVAL, s)
    BY <1>10 DEF CrcNotOk
  <2> HIDE DEF s, plain
  <2> QED
    BY <1>4, <2>1, <2>2, ApprovalReply
<1>11. CASE CrcOk(c)
  BY <1>3, <1>4, <1>11, ApprovalReply, ClosedSession DEF CrcOk
<1>12. CASE EndOfInput(c)
  BY <1>0, <1>12, ClosedSession DEF EndOfInput, Become
<1> QED
  BY <1>5, <1>6, <1>7, <1>8, <1>9, <1>10, <1>11, <1>12

\* The thread decrypts what its run encrypted, with the key it gave it.
LEMMA DecryptsRight ==
    ASSUME ThreadsInv, RunsInv, NEW c \in Conn, Talks(c), RequestInv(c), KeyInv(c), Decrypt(c),
           HostOf[c] \in CalmHosts
    PROVE  /\ UNCHANGED <<lock, outbox>>
           /\ session'[c].pc \in {"decrypted", "saving"} => session'[c].plaintext = ContentOf[c]
           /\ session'[c].pc # "removing"
<1>1. /\ inbox[c] # None /\ inbox[c].code = "SEND_FILE" /\ inbox[c] \notin IllegalRequests
      /\ session[c].expectedReq = "SEND_FILE" /\ session[c] \in Session
      /\ session \in [Conn -> Session]
  BY DEF Decrypt, Starts, Handling, Unexpected, ThreadsInv
<1>2. client[c].pc = "sending" /\ inbox[c] = FileRequest(c, c)
  BY <1>1, InHandAsked, CalmAlive DEF Asked, Waiting, RequestInv
<1>3. FileFate(SizeOf[c]) = "handled"
  <2>1. [code |-> "UNKNOWN"] \in IllegalRequests /\ [code |-> "SEND_FILE"] \in IllegalRequests
    BY DEF IllegalRequests, Codes
  <2>2. FileFate(SizeOf[c]) \in {"misframed", "illegal", "handled"}
    BY DEF FileFate
  <2> QED
    BY <1>1, <1>2, <2>1, <2>2 DEF FileRequest
<1>4. inbox[c].ID = client[c].userId /\ inbox[c].content = ContentOf[c] /\ inbox[c].key = c
  BY <1>2, <1>3 DEF FileRequest
<1>5. KeyOf(inbox[c].ID) = c
  BY <1>1, <1>2, <1>4 DEF KeyInv, Keyed, Settled
<1> DEFINE s == [session[c] EXCEPT !.pc = "decrypted", !.plaintext = ContentOf[c]]
<1>6. s.plaintext = ContentOf[c] /\ s.pc = "decrypted"
  BY <1>1 DEF Session
<1>7. session' = [session EXCEPT ![c] = s] /\ UNCHANGED <<lock, outbox>>
  BY <1>4, <1>5 DEF Decrypt, Decrypted, Become, vars
<1> HIDE DEF s
<1> QED
  BY <1>1, <1>6, <1>7

LEMMA FileData ==
    ASSUME TypeOK, ThreadsInv, LockOwned, NEW c \in Conn, DataInv(c), LockData,
           SaveFile(c) \/ WriteFile(c) \/ InsertFile(c), HostOf[c] \in CalmHosts,
           CalmHosts' \subseteq CalmHosts
    PROVE  /\ session'[c].pc \in {"decrypted", "saving"} => session'[c].plaintext = ContentOf[c]
           /\ session'[c].pc # "removing"
           /\ outbox'[c] # None /\ outbox'[c].code = "GOT_FILE_WITH_CRC" =>
                outbox'[c].crc = ContentOf[c]
           /\ LockData'
<1>0. /\ session[c] \in Session /\ session \in [Conn -> Session] /\ DOMAIN outbox = Conn
      /\ session[c].plaintext = ContentOf[c] /\ session[c].plaintext \in Content
      /\ inbox[c] \in SaveRequest(c)
  BY DEF ThreadsInv, DataInv, Thread, Phase, SaveFile, WriteFile, InsertFile
<1>1. CASE SaveFile(c)
  <2>1. CASE GiveUp(c) /\ UNCHANGED vars
    BY <2>1, GiveUpCloses DEF Closes, DataInv, LockData, Inside, vars
  <2>2. CASE /\ saveFile(c, inbox[c].ID, inbox[c].fileName, session[c].plaintext)
             /\ Become(c, [session[c] EXCEPT !.pc = "saving"]) /\ UNCHANGED outbox
    <3>1. session'[c].plaintext = ContentOf[c] /\ session'[c].pc = "saving"
      BY <1>0, <2>2 DEF Become, Session
    <3>2. lock'.step \in {"rewrite", "create"} /\ lock'.content = ContentOf[c] /\ lock'.conn = c
      BY <1>0, <2>2, SaveFileOpens DEF SaveRequest
    <3> QED
      BY <2>2, <3>1, <3>2 DEF DataInv, LockData
  <2> QED
    BY <1>1, <2>1, <2>2 DEF SaveFile
<1>2. ASSUME GotFile(c)
      PROVE  /\ session'[c].pc = "receiving"
             /\ outbox'[c].crc = ContentOf[c]
  <2> DEFINE s == [session[c] EXCEPT !.pc = "receiving", !.expectedReq = "CRC_OK",
                              !.repeats = session[c].repeats + 1, !.plaintext = None]
  <2>1. s.pc = "receiving"
    BY <1>0 DEF Session
  <2>2. session' = [session EXCEPT ![c] = s]
        /\ outbox' = [outbox EXCEPT ![c] = [code |-> "GOT_FILE_WITH_CRC", crc |-> ContentOf[c]]]
    BY <1>0, <1>2 DEF GotFile, Answer, Finish, Become
  <2> HIDE DEF s
  <2> QED
    BY <1>0, <2>1, <2>2
<1>3. CASE WriteFile(c)
  <2>1. CASE lock.step = "rewrite"
    BY <1>2, <1>3, <2>1 DEF WriteFile, writeFile, LockData, Inside, Free
  <2>2. CASE lock.step = "create"
    <3>1. lock \in Saving
      BY <2>2, LockCases
    <3>2. lock' = [lock EXCEPT !.step = "created"] /\ UNCHANGED <<session, outbox>>
      BY <1>3, <2>2 DEF WriteFile, writeFile, netVars
    <3>3. lock'.step = "created" /\ lock'.content = lock.content /\ lock'.conn = lock.conn
      BY <3>1, <3>2 DEF Saving
    <3> QED
      BY <1>3, <2>2, <3>2, <3>3 DEF LockData, Inside, DataInv
  <2> QED
    BY <1>3, <2>1, <2>2 DEF WriteFile, writeFile
<1>4. CASE InsertFile(c)
  BY <1>2, <1>4 DEF InsertFile, insertFile, LockData, Inside, Free
<1> QED
  BY <1>1, <1>3, <1>4

\* Whoever changes the lock in another way than freeing it, takes or keeps it for itself.
LEMMA LockMoves ==
    ASSUME TypeOK, ThreadsInv, NEW c \in Conn, Handler(c)
    PROVE  \/ lock' = lock
           \/ lock'.step \notin {"rewrite", "create", "created", "unlinked"}
           \/ lock'.conn = c
<1> DEFINE moves == \/ lock' = lock
                    \/ lock'.step \notin {"rewrite", "create", "created", "unlinked"}
                    \/ lock'.conn = c
<1>1. CASE \/ Refuse(c) \/ RefuseIllegal(c) \/ Register(c) \/ SignPublicKey(c)
           \/ SignAESKey(c) \/ CrcNotOk(c) \/ CrcOk(c) \/ EndOfInput(c)
  BY <1>1, PlainHandlers
<1>2. CASE Decrypt(c)
  BY <1>2 DEF Decrypt, vars
<1>3. CASE SaveFile(c)
  <2>1. CASE UNCHANGED vars
    BY <2>1 DEF vars
  <2>2. CASE saveFile(c, inbox[c].ID, inbox[c].fileName, session[c].plaintext)
    <3>1. /\ inbox[c].ID \in ID /\ inbox[c].fileName \in FileName
          /\ session[c].plaintext \in Content
      BY <1>3 DEF SaveFile, ThreadsInv, Thread, Phase, SaveRequest
    <3>2. lock'.conn = c
      BY <2>2, <3>1, SaveFileOpens
    <3> QED
      BY <3>2
  <2> QED
    BY <1>3, <2>1, <2>2 DEF SaveFile
<1>4. CASE WriteFile(c)
  <2>1. lock.conn = c /\ (lock.step \in {"rewrite", "create"} => lock \in Saving)
    BY <1>4, LockCases DEF WriteFile, writeFile
  <2> QED
    BY <1>4, <2>1 DEF WriteFile, writeFile, Saving, Free
<1>5. CASE InsertFile(c) \/ RemoveRow(c)
  BY <1>5 DEF InsertFile, insertFile, RemoveRow, removeRow, Free
<1>6. CASE CrcError(c)
  BY <1>6 DEF CrcError, removeFile, vars
<1> QED
  BY <1>1, <1>2, <1>3, <1>4, <1>5, <1>6 DEF Handler

LEMMA DataStep ==
    ASSUME Undisturbed, TypeOK, ThreadsInv, RunsInv, TalkInv, LockOwned, ThreadInv,
           [SystemNext]_systemVars
    PROVE  (\A c \in Conn : DataInv(c)') /\ LockData'
<1>0. \A c \in Conn : DataInv(c) /\ RequestInv(c) /\ KeyInv(c) /\ Talks(c)
  BY DEF ThreadInv, TalkInv
<1>a. CalmHosts' \subseteq CalmHosts
  BY CalmShrinks
<1>1. ASSUME NEW d \in Conn, NEW c \in Conn, OnlyThread(d), OnlyRun(d), d # c
      PROVE  DataInv(c)'
  BY <1>0, <1>1, <1>a DEF DataInv, OnlyThread, OnlyRun
<1>2. UNCHANGED lock => LockData'
  BY <1>a DEF ThreadInv, LockData, Inside
<1>3. ASSUME NEW c \in Conn, ClientStep(c)
      PROVE  (\A d \in Conn : DataInv(d)') /\ LockData'
  <2>1. Moves(c)
    BY <1>0, <1>3, ClientMoves
  <2>2. NewSession("receiving").pc = "receiving"
    BY DEF NewSession
  <2>3. DataInv(c)'
    <3>1. CASE Starting(c)
      BY <1>0, <1>a, <2>2, <3>1 DEF Starting, Goes, Asks, Rests, DataInv
    <3>2. CASE Identifying(c)
      BY <1>0, <1>a, <3>2 DEF Identifying, Goes, Asks, Rests, DataInv
    <3>3. CASE Sending(c)
      BY <1>0, <1>a, <3>3 DEF Sending, Goes, Asks, DataInv
    <3>4. CASE Ending(c) \/ Dying(c)
      BY <1>0, <1>a, <3>4 DEF Ending, Dying, Goes, DataInv
    <3> QED
      BY <2>1, <3>1, <3>2, <3>3, <3>4 DEF Moves
  <2> QED
    BY <1>1, <1>2, <2>1, <2>3 DEF Moves, vars
<1>4. ASSUME NEW c \in Conn, HandlerStep(c)
      PROVE  (\A d \in Conn : DataInv(d)') /\ LockData'
  <2>1. HandlerEffect(c) /\ Handler(c) /\ client' = client
    BY <1>4, HandlerDoes DEF HandlerStep, clientVars
  <2>2. OnlyThread(c) /\ OnlyRun(c)
    BY <2>1 DEF HandlerEffect, OnlyRun, RunsInv
  <2>3. ASSUME session'[c].pc \in {"decrypted", "saving"} => session'[c].plaintext = ContentOf[c],
               session'[c].pc # "removing",
               outbox'[c] # None /\ outbox'[c].code = "GOT_FILE_WITH_CRC" =>
                 outbox'[c].crc = ContentOf[c]
        PROVE  \A d \in Conn : DataInv(d)'
    BY <1>0, <1>1, <1>a, <2>1, <2>2, <2>3 DEF DataInv
  <2>4. CASE HostOf[c] \in CalmHosts
    <3>1. CASE \/ Refuse(c) \/ RefuseIllegal(c) \/ Register(c) \/ SignPublicKey(c)
               \/ SignAESKey(c) \/ CrcNotOk(c) \/ CrcOk(c) \/ EndOfInput(c)
      BY <1>0, <1>2, <2>3, <2>4, <3>1, PlainHandlers DEF DataInv
    <3>2. CASE Decrypt(c)
      BY <1>0, <1>2, <2>3, <2>4, <3>2, DecryptsRight DEF DataInv
    <3>3. CASE SaveFile(c) \/ WriteFile(c) \/ InsertFile(c)
      BY <1>0, <1>a, <2>3, <2>4, <3>3, FileData DEF ThreadInv
    <3>4. ~CrcError(c)
      <4> SUFFICES ASSUME CrcError(c) PROVE FALSE
        OBVIOUS
      <4>1. inbox[c] # None /\ inbox[c].code = "CRC_ERROR"
        BY DEF CrcError, Starts, Handling
      <4> QED
        BY <1>0, <2>4, <4>1, InHandAsked, CalmAlive DEF Asked, Waiting, DataInv
    <3>5. ~RemoveRow(c)
      BY <1>0, <2>4 DEF RemoveRow, DataInv
    <3> QED
      BY <2>1, <3>1, <3>2, <3>3, <3>4, <3>5 DEF Handler
  <2>5. CASE HostOf[c] \notin CalmHosts
    <3>1. \A d \in Conn : DataInv(d)'
      BY <1>1, <1>a, <2>2, <2>5 DEF DataInv
    <3>2. \/ lock' = lock
          \/ lock'.step \notin {"rewrite", "create", "created", "unlinked"}
          \/ lock'.conn = c
      BY <2>1, LockMoves
    <3>3. LockData'
      BY <1>2, <1>a, <2>5, <3>2 DEF LockData, Inside
    <3> QED
      BY <3>1, <3>3
  <2> QED
    BY <2>4, <2>5
<1>5. CASE ServerCrash
  <2>1. client' = client /\ lock' = Free
    BY <1>5 DEF ServerCrash, ServerRestart, Restart, clientVars
  <2>2. \A c \in Conn : /\ session'[c] = session[c] \/ session'[c].pc = "closed"
                        /\ outbox'[c] = None \/ outbox'[c] = outbox[c]
    BY <1>5, ClosedSession DEF ServerCrash, ServerRestart
  <2>3. LockData'
    BY <2>1 DEF LockData, Inside, Free
  <2>4. \A c \in Conn : DataInv(c)'
    BY <1>0, <1>a, <2>1, <2>2 DEF DataInv
  <2> QED
    BY <2>3, <2>4
<1>6. CASE UNCHANGED systemVars
  <2>1. client' = client /\ session' = session /\ outbox' = outbox /\ lock' = lock
    BY <1>6 DEF systemVars, serverVars, vars, netVars, clientVars
  <2> QED
    BY <1>0, <1>2, <1>a, <2>1 DEF DataInv
<1> QED
  BY <1>3, <1>4, <1>5, <1>6, SystemSteps

LEMMA ThreadInvAlways ==
    ASSUME Undisturbed
    PROVE  SystemSpec => []ThreadInv
<1>0. Compatible
  BY DEF Undisturbed
<1>1. SystemInit => ThreadInv
  <2>1. NewSession("idle").pc = "idle" /\ ~Keyed(NewSession("idle"))
    BY DEF NewSession, Keyed
  <2> QED
    BY <2>1 DEF SystemInit, ServerInit, Init, ThreadInv, RequestInv, KeyInv, DataInv, LockData,
       Inside, Free
<1>2. /\ TypeOK /\ ClientsAgree /\ UniqueNames /\ ThreadsInv /\ RunsInv /\ TalkInv /\ HostInv
      /\ LockOwned /\ ThreadInv /\ [SystemNext]_systemVars
      => ThreadInv'
  BY RequestInvStep, KeyInvStep, DataStep DEF ThreadInv
<1> QED
  BY <1>0, <1>1, <1>2, SystemUsesStorage, TypeCorrect, ClientsConsistent, RunsAlways, TalkAlways,
     HostInvAlways, SystemKeepsServer, PTL DEF SystemSpec

----------------------------------------------------------------------------
(* The users of calm hosts *)

CalmUsers == {r \in ID : \A h \in Host :
    meInfo[h] \notin {None, Partial} /\ meInfo[h].ID = r => h \in CalmHosts}

\* Only files of other users are removed.
Spared == lock.step = "unlinked" => lock.ID \notin CalmUsers

CalmRuns == \A c \in Conn : client[c].pc \in Settled /\ HostOf[c] \in CalmHosts =>
    client[c].userId \in CalmUsers

LEMMA CalmUsersShrink ==
    ASSUME Undisturbed, ThreadsInv, RunsInv, TalkInv, HostInv, [SystemNext]_systemVars
    PROVE  CalmUsers' \subseteq CalmUsers
<1>1. InfoKept /\ CalmHosts' \subseteq CalmHosts
  BY CompleteStays, CalmShrinks
<1> QED
  BY <1>1 DEF InfoKept, CalmUsers

\* A thread asks for a calm user's file only for a run of a calm host.
LEMMA NamedByCalm ==
    ASSUME HostInv, NEW c \in Conn, inbox[c] \in UserRequest(c), inbox[c].ID \in CalmUsers
    PROVE  HostOf[c] \in CalmHosts
<1>1. HostOf[c] \in Host
  OBVIOUS
<1> QED
  BY <1>1 DEF HostInv, SenderInv, CalmUsers

\* What the lock's holder writes or removes is named by the request in its hands.
LEMMA HolderNames ==
    ASSUME TypeOK, ThreadsInv, LockOwned, Inside \/ lock.step = "unlinked"
    PROVE  /\ lock.conn \in Conn /\ lock.ID = inbox[lock.conn].ID
           /\ inbox[lock.conn] \in UserRequest(lock.conn)
<1>1. lock.conn \in Conn /\ lock # Free
  BY LockCases DEF Inside, Free, Saving, Removing
<1>2. session[lock.conn].pc \in {"saving", "removing"} /\ lock.ID = inbox[lock.conn].ID
  BY <1>1 DEF LockOwned
<1> DEFINE e == lock.conn
<1>3. Thread(e, link[e], session[e], inbox[e], outbox[e])
  BY <1>1 DEF ThreadsInv
<1> QED
  BY <1>1, <1>2, <1>3 DEF Thread, Phase, UserRequest

LEMMA CalmSpared ==
    ASSUME TypeOK, ThreadsInv, LockOwned, HostInv, ThreadInv
    PROVE  Spared
<1> SUFFICES ASSUME lock.step = "unlinked", lock.ID \in CalmUsers
             PROVE  FALSE
  BY DEF Spared
<1>1. HostOf[lock.conn] \in CalmHosts
  BY HolderNames, NamedByCalm
<1> QED
  BY <1>1 DEF ThreadInv, LockData

LEMMA CalmRunsNamed ==
    ASSUME RunsInv, HostInv
    PROVE  CalmRuns
<1> SUFFICES ASSUME NEW c \in Conn, client[c].pc \in Settled, HostOf[c] \in CalmHosts
             PROVE  client[c].userId \in CalmUsers
  BY DEF CalmRuns
<1>1. HostOf[c] \in Host /\ Given(HostOf[c], client[c].userId) /\ client[c].userId \in ID
  BY DEF HostInv, InfoInv, Given, RunsInv, UserInfo
<1>2. ASSUME NEW h \in Host, meInfo[h] \notin {None, Partial}, meInfo[h].ID = client[c].userId
      PROVE  h = HostOf[c]
  BY <1>1, <1>2 DEF HostInv, OneHost, Given
<1> QED
  BY <1>1, <1>2 DEF CalmUsers

----------------------------------------------------------------------------
(* The tables, the list, the disk and the lock agree *)

Names(g, r, f) == g.ID = r /\ g.fileName = f

\* A file is under the directory of its owner.
OwnPaths ==
    /\ \A g \in dbFiles : g.pathName[1] = g.ID
    /\ \A i \in DOMAIN files : files[i].pathName[1] = files[i].ID
    /\ Inside => lock.pathName[1] = lock.ID

\* The list has no entry beyond the rows for a calm user, whose files are not removed.
Listed == \A i \in DOMAIN files : files[i].ID \in CalmUsers => \E g \in dbFiles :
    Names(g, files[i].ID, files[i].fileName) /\ g.pathName = files[i].pathName

\* The file being written is not an approved one; one that is rewritten has its row
\* if it is a calm user's, and one that has been written holds its content.
LockInv ==
    /\ Inside => \A g \in dbFiles : Names(g, lock.ID, lock.fileName) => ~g.verified
    /\ lock.step = "rewrite" /\ lock.ID \in CalmUsers => \E g \in dbFiles :
         Names(g, lock.ID, lock.fileName) /\ g.pathName = lock.pathName
    /\ lock.step = "created" =>
         lock.pathName \in DOMAIN disk /\ disk[lock.pathName] = lock.content

StorageInv == OwnPaths /\ Listed /\ LockInv

LEMMA FilesTyped ==
    ASSUME TypeOK, NEW g \in dbFiles
    PROVE  g \in File /\ g.pathName \in Path /\ g.pathName[1] \in ID
  BY DEF TypeOK, File, Path

LEMMA ApproveStorage ==
    ASSUME TypeOK, StorageInv, NEW r \in ID, NEW f \in FileName, approveFile(r, f),
           CalmUsers' \subseteq CalmUsers
    PROVE  StorageInv'
<1>0. lock' = Free /\ dbFiles' = validateFile(r, f)
  BY DEF approveFile
<1>1. \A g \in dbFiles : \E h \in dbFiles' :
        h.ID = g.ID /\ h.fileName = g.fileName /\ h.pathName = g.pathName
  BY <1>0, FilesTyped, ApprovedType DEF validateFile
<1>2. \A h \in dbFiles' : \E g \in dbFiles : h.ID = g.ID /\ h.pathName = g.pathName
  <2> SUFFICES ASSUME NEW h \in dbFiles'
               PROVE  \E g \in dbFiles : h.ID = g.ID /\ h.pathName = g.pathName
    OBVIOUS
  <2>1. PICK g \in dbFiles : h = IF g.ID = r /\ g.fileName = f
                                THEN [g EXCEPT !.verified = TRUE] ELSE g
    BY <1>0 DEF validateFile
  <2>2. h.ID = g.ID /\ h.pathName = g.pathName
    BY <2>1, FilesTyped, ApprovedType
  <2> QED
    BY <2>2
<1>3. PICK i \in Matches(r, f) : files' = [files EXCEPT ![i].verified = TRUE]
  BY DEF approveFile
<1>4. \A j \in DOMAIN files' : /\ j \in DOMAIN files /\ files'[j].ID = files[j].ID
                               /\ files'[j].fileName = files[j].fileName
                               /\ files'[j].pathName = files[j].pathName
  <2>1. i \in DOMAIN files /\ files[i] \in File
    BY EntryType
  <2> DEFINE e == [files[i] EXCEPT !.verified = TRUE]
  <2>2. e.ID = files[i].ID /\ e.fileName = files[i].fileName /\ e.pathName = files[i].pathName
    BY <2>1, ApprovedType
  <2>3. files' = [files EXCEPT ![i] = e]
    BY <1>3
  <2> HIDE DEF e
  <2> QED
    BY <2>1, <2>2, <2>3 DEF TypeOK
<1>5. OwnPaths'
  BY <1>0, <1>2, <1>4 DEF StorageInv, OwnPaths, Inside, Free
<1>6. Listed'
  BY <1>1, <1>4 DEF StorageInv, Listed, Names
<1>7. LockInv'
  BY <1>0 DEF LockInv, Inside, Free
<1> QED
  BY <1>5, <1>6, <1>7 DEF StorageInv

LEMMA SaveStorage ==
    ASSUME TypeOK, FilesInv, StorageInv, NEW c \in Conn, NEW r \in ID, NEW f \in FileName,
           NEW content \in Content, saveFile(c, r, f, content), CalmUsers' \subseteq CalmUsers
    PROVE  StorageInv'
<1>0. UNCHANGED <<files, dbFiles>>
  BY DEF saveFile
<1>1. PICK p \in Path, next \in {"rewrite", "create"} :
        /\ lock' = [step |-> next, conn |-> c, ID |-> r, fileName |-> f,
                    pathName |-> p, content |-> content]
        /\ next = "rewrite" => \E i \in Matches(r, f) :
             FirstMatch(i, r, f) /\ ~files[i].verified /\ p = files[i].pathName
        /\ next = "create" => Matches(r, f) = {} /\ \E n \in Nat : p = <<r, n>>
  BY SaveFileOpens
<1>2. /\ lock'.step = next /\ lock'.ID = r /\ lock'.fileName = f /\ lock'.pathName = p
  BY <1>1
<1>3. \A g \in dbFiles : Names(g, r, f) => \E i \in Matches(r, f) : files[i] = g
  BY FilesTyped, RowEntry DEF Names, File, FilesInv
<1>4. CASE next = "create"
  <2>1. p[1] = r
    BY <1>1, <1>4
  <2> QED
    BY <1>0, <1>1, <1>2, <1>3, <1>4, <2>1 DEF StorageInv, OwnPaths, Listed, LockInv
<1>5. CASE next = "rewrite"
  <2>1. PICK i \in Matches(r, f) : ~files[i].verified /\ p = files[i].pathName
    BY <1>1, <1>5
  <2>2. i \in DOMAIN files /\ files[i].ID = r /\ files[i].fileName = f
    BY EntryType
  <2>3. r \in CalmUsers => \E g \in dbFiles : Names(g, r, f) /\ g.pathName = p
    BY <2>1, <2>2 DEF StorageInv, Listed
  <2>4. p[1] = r
    BY <2>1, <2>2 DEF StorageInv, OwnPaths
  <2>5. \A j \in Matches(r, f) : j = i
    BY DEF Matches, FilesInv, OneEntryPerFile
  <2>6. \A h \in dbFiles : Names(h, r, f) => ~h.verified
    BY <1>3, <2>1, <2>5
  <2> QED
    BY <1>0, <1>2, <1>5, <2>3, <2>4, <2>6 DEF StorageInv, OwnPaths, Listed, LockInv
<1> QED
  BY <1>4, <1>5

LEMMA WriteStorage ==
    ASSUME TypeOK, StorageInv, NEW c \in Conn, writeFile(c), CalmUsers' \subseteq CalmUsers
    PROVE  StorageInv'
<1>0. UNCHANGED <<files, dbFiles>> /\ lock \in Saving
  BY LockCases DEF writeFile
<1>1. CASE lock.step = "rewrite"
  BY <1>0, <1>1 DEF writeFile, StorageInv, OwnPaths, Listed, LockInv, Inside, Free
<1>2. CASE lock.step = "create"
  <2>1. lock' = [lock EXCEPT !.step = "created"] /\ disk' = OnDisk(lock.pathName, lock.content)
    BY <1>2 DEF writeFile
  <2>2. /\ lock'.step = "created" /\ lock'.ID = lock.ID /\ lock'.fileName = lock.fileName
        /\ lock'.pathName = lock.pathName /\ lock'.content = lock.content
    BY <1>0, <2>1 DEF Saving
  <2>3. lock.pathName \in DOMAIN disk' /\ disk'[lock.pathName] = lock.content
    BY <2>1 DEF OnDisk
  <2> QED
    BY <1>0, <1>2, <2>2, <2>3 DEF StorageInv, OwnPaths, Listed, LockInv, Inside
<1> QED
  BY <1>1, <1>2 DEF writeFile

LEMMA InsertStorage ==
    ASSUME TypeOK, StorageInv, NEW c \in Conn, insertFile(c), CalmUsers' \subseteq CalmUsers
    PROVE  StorageInv'
<1> DEFINE g == NewFile
<1>1. g.ID = lock.ID /\ g.fileName = lock.fileName /\ g.pathName = lock.pathName
      /\ lock.pathName[1] = lock.ID
  BY DEF NewFile, insertFile, StorageInv, OwnPaths, Inside
<1>2. dbFiles' = dbFiles \cup {g} /\ files' = Append(files, g) /\ lock' = Free
  BY DEF insertFile
<1> HIDE DEF g
<1>3. /\ DOMAIN files' = DOMAIN files \cup {Len(files) + 1}
      /\ \A i \in DOMAIN files : files'[i] = files[i]
      /\ files'[Len(files) + 1] = g
  BY <1>2 DEF TypeOK
<1>4. OwnPaths'
  BY <1>1, <1>2, <1>3 DEF StorageInv, OwnPaths, Inside, Free
<1>5. Listed'
  BY <1>1, <1>2, <1>3 DEF StorageInv, Listed, Names
<1>6. LockInv'
  BY <1>2 DEF LockInv, Inside, Free
<1> QED
  BY <1>4, <1>5, <1>6 DEF StorageInv

LEMMA RestartStorage ==
    ASSUME TypeInv, StorageInv, Restart
    PROVE  StorageInv'
<1>1. files' \in Seq(dbFiles) /\ dbFiles' = dbFiles /\ lock' = Free
  BY ListingOfRows DEF Restart, TypeInv
<1>2. \A i \in DOMAIN files' : files'[i] \in dbFiles
  BY <1>1
<1> QED
  BY <1>1, <1>2 DEF StorageInv, OwnPaths, Listed, Names, LockInv, Inside, Free

\* removeFile leaves the tables alone until it deletes the row, which is not a calm
\* user's.
LEMMA RemoveStorage ==
    ASSUME TypeOK, StorageInv, Spared, CalmUsers' \subseteq CalmUsers, NEW c \in Conn,
           removeRow(c) \/ \E r \in ID, f \in FileName : removeFile(c, r, f)
    PROVE  StorageInv'
<1>1. ASSUME NEW r \in ID, NEW f \in FileName, removeFile(c, r, f)
      PROVE  StorageInv'
  <2>1. lock'.step = "unlinked" /\ UNCHANGED <<files, dbFiles>>
    BY <1>1 DEF removeFile
  <2> QED
    BY <2>1 DEF StorageInv, OwnPaths, Listed, LockInv, Inside
<1>2. CASE removeRow(c)
  <2>1. /\ lock' = Free /\ files' = files /\ dbFiles' = deleteRow(lock.ID, lock.fileName)
        /\ lock.ID \notin CalmUsers
    BY <1>2 DEF removeRow, Spared
  <2>2. /\ \A g \in dbFiles' : g \in dbFiles
        /\ \A g \in dbFiles : g.ID # lock.ID => g \in dbFiles'
    BY <2>1 DEF deleteRow
  <2> QED
    BY <2>1, <2>2 DEF StorageInv, OwnPaths, Listed, LockInv, Inside, Free, Names
<1> QED
  BY <1>1, <1>2

LEMMA StorageInvStep ==
    ASSUME TypeInv, FilesInv, StorageInv, Spared, CalmUsers' \subseteq CalmUsers, [Next]_vars
    PROVE  StorageInv'
<1> USE DEF TypeInv
<1>1. CASE UserStep \/ KeyStep \/ UNCHANGED vars
  BY <1>1, FilesKept DEF StorageInv, OwnPaths, Listed, LockInv, Inside
<1> QED
  BY <1>1, ApproveStorage, SaveStorage, WriteStorage, InsertStorage, RemoveStorage, RestartStorage
     DEF Next, FileStep, LockedStep

LEMMA StorageInvAlways ==
    ASSUME Undisturbed
    PROVE  SystemSpec => [](TypeInv /\ StorageInv)
<1>1. SystemInit => TypeInv /\ StorageInv
  <2>1. SystemInit => Init
    BY DEF SystemInit, ServerInit
  <2> QED
    BY <2>1, InitType DEF Init, StorageInv, OwnPaths, Listed, LockInv, Inside, Free
<1>0. Compatible
  BY DEF Undisturbed
<1>2. TypeOK /\ ThreadsInv /\ LockOwned /\ HostInv /\ ThreadInv => Spared
  BY CalmSpared
<1>3. ThreadsInv /\ RunsInv /\ TalkInv /\ HostInv /\ [SystemNext]_systemVars =>
        CalmUsers' \subseteq CalmUsers
  BY CalmUsersShrink
<1>4. /\ TypeInv /\ StorageInv /\ OneEntryPerFile /\ RowsListed /\ InsertIsNew
      /\ Spared /\ CalmUsers' \subseteq CalmUsers /\ [Next]_vars
      => TypeInv' /\ StorageInv'
  BY TypeInvStep, StorageInvStep DEF FilesInv
<1> QED
  BY <1>0, <1>1, <1>2, <1>3, <1>4, SystemUsesStorage, TypeCorrect, FilesConsistent, RunsAlways,
     TalkAlways, HostInvAlways, ThreadInvAlways, SystemKeepsServer, PTL DEF Spec, SystemSpec

\* A calm user's row stays, with its path, and stays verified.
LEMMA RowsStay ==
    ASSUME TypeOK, [Next]_vars, Spared, NEW g \in dbFiles, g.ID \in CalmUsers
    PROVE  \E h \in dbFiles' : /\ Names(h, g.ID, g.fileName) /\ h.pathName = g.pathName
                               /\ g.verified => h.verified
<1>0. g \in File
  BY FilesTyped
<1>1. CASE dbFiles \subseteq dbFiles'
  BY <1>1 DEF Names
<1>2. ASSUME NEW r \in ID, NEW f \in FileName, approveFile(r, f)
      PROVE  \E h \in dbFiles' : /\ Names(h, g.ID, g.fileName) /\ h.pathName = g.pathName
                                 /\ g.verified => h.verified
  <2> DEFINE h == IF g.ID = r /\ g.fileName = f THEN [g EXCEPT !.verified = TRUE] ELSE g
  <2>1. h \in dbFiles'
    BY <1>2 DEF approveFile, validateFile
  <2>2. h.ID = g.ID /\ h.fileName = g.fileName /\ h.pathName = g.pathName
        /\ (g.verified => h.verified)
    BY <1>0, ApprovedType
  <2> HIDE DEF h
  <2> QED
    BY <2>1, <2>2 DEF Names
<1>3. CASE UserStep \/ KeyStep \/ Restart \/ UNCHANGED vars
  BY <1>1, <1>3, FilesKept DEF Restart
<1>4. CASE FileStep
  BY <1>1, <1>2, <1>4 DEF FileStep, saveFile, removeFile
<1>5. CASE LockedStep
  <2>1. ASSUME NEW c \in Conn, removeRow(c)
        PROVE  g \in dbFiles'
    BY <2>1 DEF removeRow, deleteRow, Spared
  <2> QED
    BY <1>1, <1>5, <2>1 DEF LockedStep, writeFile, insertFile, Names
<1> QED
  BY <1>3, <1>4, <1>5 DEF Next

\* A calm user's file that is neither opened nor written keeps its content.
LEMMA DiskStays ==
    ASSUME TypeOK, [Next]_vars, OwnPaths, Spared', CalmUsers' \subseteq CalmUsers,
           NEW p \in DOMAIN disk, p[1] \in CalmUsers',
           Inside => lock.pathName # p, Inside' => lock'.pathName # p
    PROVE  p \in DOMAIN disk' /\ disk'[p] = disk[p]
<1>1. CASE disk' = disk
  BY <1>1
<1>2. ASSUME NEW q, NEW x, disk' = OnDisk(q, x), q # p
      PROVE  p \in DOMAIN disk' /\ disk'[p] = disk[p]
  BY <1>2 DEF OnDisk
<1>3. ASSUME NEW c \in Conn, NEW r \in ID, NEW f \in FileName, NEW content \in Content,
             saveFile(c, r, f, content)
      PROVE  p \in DOMAIN disk' /\ disk'[p] = disk[p]
  <2>1. PICK q \in Path, next \in {"rewrite", "create"} :
          /\ disk' = OnDisk(q, Partial)
          /\ lock' = [step |-> next, conn |-> c, ID |-> r, fileName |-> f,
                      pathName |-> q, content |-> content]
    BY <1>3, SaveFileOpens
  <2>2. lock'.step = next /\ lock'.pathName = q
    BY <2>1
  <2> QED
    BY <1>2, <2>1, <2>2 DEF Inside
<1>4. CASE UserStep \/ KeyStep \/ Restart \/ UNCHANGED vars
  BY <1>1, <1>4, FilesKept DEF Restart
<1>5. CASE FileStep
  <2>1. ASSUME NEW c \in Conn, NEW r \in ID, NEW f \in FileName, removeFile(c, r, f)
        PROVE  p \in DOMAIN disk' /\ disk'[p] = disk[p]
    <3>1. PICK i \in Matches(r, f) : disk' = Restrict(disk, DOMAIN disk \ {files[i].pathName})
      BY <2>1 DEF removeFile
    <3>2. files[i].pathName[1] = r
      BY EntryType DEF OwnPaths
    <3>3. r \notin CalmUsers'
      BY <2>1 DEF removeFile, Spared
    <3> QED
      BY <3>1, <3>2, <3>3 DEF Restrict
  <2> QED
    BY <1>1, <1>3, <1>5, <2>1 DEF FileStep, approveFile
<1>6. CASE LockedStep
  BY <1>1, <1>2, <1>6 DEF LockedStep, writeFile, insertFile, removeRow, Inside
<1> QED
  BY <1>4, <1>5, <1>6 DEF Next

----------------------------------------------------------------------------
(* The file of a run is kept, and stored once it is approved *)

KeptAs(g, c) ==
    /\ Names(g, client[c].userId, FileOf[HostOf[c]])
    /\ g.pathName \in DOMAIN disk /\ disk[g.pathName] = ContentOf[c]

Kept(c) == \E g \in dbFiles : KeptAs(g, c)

\* The server has said that it has the file, or, in the second case, that it has
\* taken note of the client's approval.
Saved(c) == (client[c].pc = "sending" /\ outbox[c] # None) \/ client[c].pc = "approving"

Confirmed(c) == (client[c].pc = "approving" /\ outbox[c] # None) \/ client[c].pc = "approved"

KeptInv(c) == HostOf[c] \in CalmHosts =>
    (Saved(c) => Kept(c)) /\ (Confirmed(c) => Stored(c))

\* All that was proved so far.
Grounds ==
    /\ TypeOK /\ ThreadsInv /\ RunsInv /\ TalkInv /\ LockOwned
    /\ HostInv /\ ThreadInv /\ StorageInv

\* A calm host's thread inside saveFile is there for a run that waits, with the run's
\* file.
LEMMA WriterIsRun ==
    ASSUME Grounds, Inside, HostOf[lock.conn] \in CalmHosts
    PROVE  LET e == lock.conn
           IN  /\ e \in Conn /\ client[e].pc = "sending" /\ outbox[e] = None
               /\ lock.ID = client[e].userId /\ lock.fileName = FileOf[HostOf[e]]
               /\ lock.content = ContentOf[e]
<1> DEFINE e == lock.conn
<1>1. lock \in Saving /\ lock # Free /\ e \in Conn
  BY LockCases DEF Grounds, Inside, Free, Saving
<1>2. /\ session[e].pc \in {"saving", "removing"}
      /\ lock.ID = inbox[e].ID /\ lock.fileName = inbox[e].fileName
      /\ session[e].pc # "removing" /\ lock.content = ContentOf[e]
  BY <1>1 DEF Grounds, LockOwned, ThreadInv, DataInv, LockData
<1>3. inbox[e] \in SaveRequest(e) /\ inbox[e] # None
  BY <1>1, <1>2 DEF Grounds, ThreadsInv, Thread, Phase
<1>4. inbox[e].code = "SEND_FILE" /\ inbox[e] # [code |-> "SEND_FILE"]
  BY <1>3, SMT DEF SaveRequest
<1>5. Asked(e) /\ client[e].pc \in Waiting /\ outbox[e] = None /\ RequestInv(e)
  BY <1>1, <1>3, InHandAsked, CalmAlive DEF Grounds, TalkInv, ThreadInv
<1>6. client[e].pc = "sending" /\ inbox[e] = FileRequest(e, e)
  BY <1>3, <1>4, <1>5 DEF Asked, Waiting, RequestInv
<1>7. FileFate(SizeOf[e]) = "handled"
  <2>1. FileFate(SizeOf[e]) \in {"misframed", "illegal", "handled"}
    BY DEF FileFate
  <2> QED
    BY <1>4, <1>6, <2>1 DEF FileRequest
<1>8. inbox[e].ID = client[e].userId /\ inbox[e].fileName = FileOf[HostOf[e]]
  BY <1>6, <1>7 DEF FileRequest
<1> QED
  BY <1>1, <1>2, <1>5, <1>6, <1>8

\* No thread writes to the file of a calm host's run that has been told its own is saved.
Secure(c) ==
    /\ HostOf[c] \in CalmHosts
    /\ \/ Saved(c)
       \/ /\ client[c].pc = "approved"
          /\ \E h \in dbFiles : Names(h, client[c].userId, FileOf[HostOf[c]]) /\ h.verified

Untouched == Inside => \A c \in Conn : Secure(c) =>
    \A g \in dbFiles : Names(g, client[c].userId, FileOf[HostOf[c]]) => lock.pathName # g.pathName

LEMMA WritesItsOwn == Grounds => Untouched
<1> SUFFICES ASSUME Grounds, Inside, NEW c \in Conn, Secure(c), NEW g \in dbFiles,
                    Names(g, client[c].userId, FileOf[HostOf[c]]), lock.pathName = g.pathName
             PROVE  FALSE
  BY DEF Untouched
<1> DEFINE e == lock.conn
<1>1. client[c].pc \in Settled /\ HostOf[c] \in CalmHosts /\ RunsInv /\ HostInv
  BY DEF Grounds, Secure, Saved, Settled
<1>2. lock.ID = client[c].userId
  BY DEF Grounds, StorageInv, OwnPaths, Names
<1>3. e \in Conn /\ HostOf[e] = HostOf[c]
  BY <1>1, <1>2, HolderNames, OtherIdentifier DEF Grounds
<1>4. /\ client[e].pc = "sending" /\ outbox[e] = None
      /\ lock.ID = client[e].userId /\ lock.fileName = FileOf[HostOf[e]]
  BY <1>1, <1>3, WriterIsRun
<1>5. Busy(c) /\ Busy(e) => c = e
  BY <1>1, <1>2, <1>3, <1>4, OwnIdentifier DEF Settled
<1>6. ~Saved(c)
  BY <1>4, <1>5 DEF Saved, Busy, Over
<1>7. PICK h \in dbFiles : Names(h, lock.ID, lock.fileName) /\ h.verified
  BY <1>2, <1>3, <1>4, <1>6 DEF Secure
<1> QED
  BY <1>7 DEF Grounds, StorageInv, LockInv

\* What follows from it, of any state.
Kin == Grounds /\ Untouched /\ Spared /\ CalmRuns

LEMMA KinAlways == Grounds => Kin
  BY WritesItsOwn, CalmSpared, CalmRunsNamed DEF Grounds, Kin

\* A run that has its file saved, or approved, and goes on keeps it.
LEMMA KeptStays ==
    ASSUME Kin, Kin', CalmUsers' \subseteq CalmUsers, CalmHosts' \subseteq CalmHosts, [Next]_vars,
           NEW c \in Conn, KeptInv(c), HostOf[c] \in CalmHosts',
           client'[c].userId = client[c].userId,
           Saved(c) \/ client[c].pc = "approved",
           Saved(c)' \/ client'[c].pc = "approved",
           client'[c].pc = "approved" => Confirmed(c)
    PROVE  Kept(c)' /\ (Confirmed(c) => Stored(c)')
<1>0. /\ client[c].pc = "approved" => Stored(c)
      /\ client'[c].pc = "approved" => Stored(c)
      /\ Spared /\ Spared' /\ TypeOK /\ OwnPaths /\ HostOf[c] \in CalmHosts
  BY DEF KeptInv, Confirmed, Kin, Grounds, StorageInv
<1>u. client[c].userId \in CalmUsers /\ client[c].userId \in CalmUsers'
  BY <1>0 DEF Kin, CalmRuns, Saved, Settled
<1>1. ASSUME NEW g \in dbFiles, KeptAs(g, c)
      PROVE  \E h \in dbFiles' : KeptAs(h, c)' /\ (g.verified => h.verified)
  <2>1. PICK h \in dbFiles' : /\ Names(h, g.ID, g.fileName) /\ h.pathName = g.pathName
                              /\ g.verified => h.verified
    BY <1>0, <1>1, <1>u, RowsStay DEF KeptAs, Names
  <2>2. Inside => lock.pathName # g.pathName
    BY <1>0, <1>1 DEF Kin, Untouched, Secure, KeptAs, Stored, Names
  <2>3. Names(h, client'[c].userId, FileOf[HostOf[c]])
    BY <1>1, <2>1 DEF KeptAs, Names
  <2>4. Secure(c)'
    <3>1. CASE client'[c].pc = "approved"
      <4>1. PICK v \in dbFiles : /\ v.ID = client[c].userId /\ v.fileName = FileOf[HostOf[c]]
                                 /\ v.verified
        BY <1>0, <3>1 DEF Stored
      <4>2. PICK k \in dbFiles' : Names(k, v.ID, v.fileName) /\ k.verified
        BY <1>0, <1>u, <4>1, RowsStay
      <4> QED
        BY <3>1, <4>1, <4>2 DEF Secure, Names
    <3> QED
      BY <3>1 DEF Secure
  <2>5. ASSUME Inside'
        PROVE  lock'.pathName # h.pathName
    BY <2>3, <2>4, <2>5 DEF Kin, Untouched
  <2>6. g.pathName[1] \in CalmUsers'
    BY <1>0, <1>1, <1>u DEF OwnPaths, KeptAs, Names
  <2>7. g.pathName \in DOMAIN disk' /\ disk'[g.pathName] = disk[g.pathName]
    BY <1>0, <1>1, <2>1, <2>2, <2>5, <2>6, DiskStays DEF KeptAs
  <2> QED
    BY <1>1, <2>1, <2>3, <2>7 DEF KeptAs, Names
<1>2. Kept(c)
  BY <1>0 DEF KeptInv, Stored, Kept, KeptAs, Names
<1>3. Kept(c)'
  BY <1>1, <1>2 DEF Kept
<1>4. ASSUME Confirmed(c)
      PROVE  Stored(c)'
  <2>1. PICK g \in dbFiles : KeptAs(g, c) /\ g.verified
    BY <1>0, <1>4 DEF KeptInv, Stored, KeptAs, Names
  <2>2. PICK h \in dbFiles' : KeptAs(h, c)' /\ h.verified
    BY <1>1, <2>1
  <2> QED
    BY <2>2 DEF Stored, KeptAs, Names
<1> QED
  BY <1>3, <1>4

\* A handler answers when its run has no reply on the way.
LEMMA OneReply ==
    ASSUME ThreadsInv, NEW c \in Conn, Handler(c), outbox'[c] # outbox[c]
    PROVE  outbox[c] = None
<1>1. inbox[c] # None
  BY HandlerDoes DEF HandlerEffect, Works, Answers, Ignores, Closes
<1> QED
  BY <1>1 DEF ThreadsInv, Thread, Agrees

\* GOT_FILE_WITH_CRC is sent when the run's file is on the disk and in the table.
LEMMA NewlySaved ==
    ASSUME Kin, NEW c \in Conn, Handler(c), client' = client, HostOf[c] \in CalmHosts,
           client[c].pc = "sending", outbox[c] = None, outbox'[c] # None
    PROVE  Kept(c)'
<1>0. /\ Grounds /\ TypeOK /\ ThreadsInv /\ DataInv(c) /\ LockInv /\ DOMAIN outbox = Conn
      /\ Thread(c, link[c], session[c], inbox[c], outbox[c])
  BY DEF Kin, Grounds, ThreadsInv, ThreadInv, StorageInv
<1>1. outbox'[c].code = "GOT_FILE_WITH_CRC"
  <2>1. inbox[c] # None /\ Answers(c, inbox[c], outbox'[c])
    BY <1>0, HandlerDoes DEF HandlerEffect, Works, Answers, Ignores, Closes
  <2>2. inbox[c].code = "SEND_FILE"
    BY <1>0, <2>1, InHandAsked DEF Asked, Grounds, TalkInv, ThreadInv
  <2> QED
    BY <2>1, <2>2 DEF Answers
<1>2. ~(\/ Refuse(c) \/ RefuseIllegal(c) \/ Register(c) \/ SignPublicKey(c) \/ SignAESKey(c)
        \/ CrcNotOk(c) \/ CrcOk(c) \/ EndOfInput(c))
  BY <1>0, <1>1, PlainHandlers
<1>3. GiveUp(c) => outbox'[c] = outbox[c]
  BY DEF GiveUp, Silent
<1>4. WriteFile(c) \/ InsertFile(c)
  <2>1. ~Decrypt(c) /\ ~SaveFile(c)
    BY <1>3 DEF Decrypt, SaveFile
  <2>2. ~RemoveRow(c)
    BY <1>0 DEF RemoveRow, DataInv
  <2>3. ~CrcError(c)
    <3> SUFFICES ASSUME CrcError(c) PROVE FALSE
      OBVIOUS
    <3>1. inbox[c] # None /\ inbox[c].code = "CRC_ERROR"
      BY DEF CrcError, Starts, Handling
    <3> QED
      BY <1>0, <3>1, InHandAsked, CalmAlive DEF Asked, Grounds, TalkInv, ThreadInv
  <2> QED
    BY <1>2, <2>1, <2>2, <2>3 DEF Handler
<1>5. lock.step \in {"rewrite", "create", "created"} /\ lock.conn = c
  BY <1>4 DEF WriteFile, InsertFile, writeFile, insertFile
<1>6. /\ lock.ID = client[c].userId /\ lock.fileName = FileOf[HostOf[c]]
      /\ lock.content = ContentOf[c]
  BY <1>0, <1>5, WriterIsRun DEF Inside
<1>7. CASE InsertFile(c)
  <2> DEFINE g == NewFile
  <2>1. g.ID = lock.ID /\ g.fileName = lock.fileName /\ g.pathName = lock.pathName
    BY DEF NewFile
  <2>2. g \in dbFiles' /\ disk' = disk /\ lock.step = "created"
    BY <1>7 DEF InsertFile, insertFile
  <2> HIDE DEF g
  <2> QED
    BY <1>0, <1>6, <2>1, <2>2 DEF LockInv, Kept, KeptAs, Names
<1>8. CASE WriteFile(c)
  <2>1. lock.step = "rewrite"
    BY <1>8 DEF WriteFile, netVars
  <2>a. lock.ID \in CalmUsers
    BY <1>6 DEF Kin, CalmRuns, Settled
  <2>2. PICK g \in dbFiles : Names(g, lock.ID, lock.fileName) /\ g.pathName = lock.pathName
    BY <1>0, <2>1, <2>a DEF LockInv
  <2>3. dbFiles' = dbFiles /\ disk' = OnDisk(lock.pathName, lock.content)
    BY <1>8 DEF WriteFile, writeFile
  <2> QED
    BY <1>6, <2>2, <2>3 DEF OnDisk, Kept, KeptAs, Names
<1> QED
  BY <1>4, <1>7, <1>8

\* A CRC_OK is answered when the run's row is marked as verified.
LEMMA NewlyConfirmed ==
    ASSUME Grounds, NEW c \in Conn, Handler(c), client' = client, Kept(c),
           HostOf[c] \in CalmHosts, client[c].pc = "approving", outbox[c] = None, outbox'[c] # None
    PROVE  Stored(c)'
<1>0. /\ TypeOK /\ ThreadsInv /\ DataInv(c) /\ DOMAIN outbox = Conn
      /\ Thread(c, link[c], session[c], inbox[c], outbox[c])
      /\ Talks(c) /\ RequestInv(c)
  BY DEF Grounds, ThreadsInv, ThreadInv, TalkInv
<1>1. (GiveUp(c) \/ Raise(c)) => outbox'[c] = outbox[c]
  BY DEF GiveUp, Raise, Silent
<1>2. inbox[c] # None => inbox[c].code = "CRC_OK" /\ inbox[c] = CrcRequest(c, "CRC_OK")
  BY <1>0, InHandAsked DEF Asked, RequestInv
<1>3. CrcOk(c)
  <2>1. ~Refuse(c) /\ ~Decrypt(c) /\ ~SaveFile(c) /\ ~EndOfInput(c)
    BY <1>1 DEF Refuse, Decrypt, SaveFile, EndOfInput
  <2>2. ~RefuseIllegal(c) /\ ~Register(c) /\ ~SignPublicKey(c) /\ ~CrcNotOk(c) /\ ~CrcError(c)
    BY <1>1, <1>2 DEF RefuseIllegal, Register, SignPublicKey, CrcNotOk, CrcError, Starts, Handling
  <2>3. ~SignAESKey(c)
    BY <1>0, <1>2 DEF SignAESKey, Thread, Phase, KeyRequest
  <2>4. ~WriteFile(c) /\ ~InsertFile(c)
    BY <1>0, <1>2 DEF WriteFile, InsertFile, Thread, Phase, SaveRequest
  <2>5. ~RemoveRow(c)
    BY <1>0 DEF RemoveRow, DataInv
  <2> QED
    BY <2>1, <2>2, <2>3, <2>4, <2>5 DEF Handler
<1>4. approveFile(inbox[c].ID, inbox[c].fileName) /\ inbox[c] # None
  BY <1>1, <1>3 DEF CrcOk, Starts, Handling
<1>5. inbox[c].ID = client[c].userId /\ inbox[c].fileName = FileOf[HostOf[c]]
  BY <1>2, <1>4 DEF CrcRequest
<1>6. PICK g \in dbFiles : KeptAs(g, c)
  BY DEF Kept
<1> DEFINE h == [g EXCEPT !.verified = TRUE]
<1>7. h \in dbFiles' /\ disk' = disk
  <2> DEFINE r == inbox[c].ID
             f == inbox[c].fileName
  <2>1. g.ID = r /\ g.fileName = f
    BY <1>5, <1>6 DEF KeptAs, Names
  <2>2. dbFiles' = validateFile(r, f) /\ disk' = disk
    BY <1>4 DEF approveFile
  <2> HIDE DEF r, f
  <2> QED
    BY <2>1, <2>2 DEF validateFile
<1>8. h.ID = g.ID /\ h.fileName = g.fileName /\ h.pathName = g.pathName /\ h.verified
  BY <1>0, FilesTyped, ApprovedType
<1> HIDE DEF h
<1> QED
  BY <1>6, <1>7, <1>8 DEF Stored, KeptAs, Names

LEMMA KeptInvStep ==
    ASSUME Undisturbed, Kin, Kin', [Next]_vars,
           \A d \in Conn : KeptInv(d), NEW c \in Conn, [SystemNext]_systemVars
    PROVE  KeptInv(c)'
<1>0. /\ KeptInv(c) /\ DataInv(c) /\ Grounds /\ ThreadsInv /\ RunsInv /\ TalkInv /\ HostInv
      /\ \A d \in Conn : Talks(d)
  BY DEF Kin, Grounds, ThreadInv, TalkInv
<1>a. CalmHosts' \subseteq CalmHosts /\ CalmUsers' \subseteq CalmUsers
  BY <1>0, CalmShrinks, CalmUsersShrink
<1> SUFFICES ASSUME HostOf[c] \in CalmHosts'
             PROVE  KeptInv(c)'
  BY DEF KeptInv
<1>b. HostOf[c] \in CalmHosts
  BY <1>a
<1>1. ASSUME client'[c] = client[c], outbox'[c] \in {None, outbox[c]}
      PROVE  KeptInv(c)'
  <2>1. (Saved(c)' => Saved(c)) /\ (Confirmed(c)' => Confirmed(c))
    BY <1>1 DEF Saved, Confirmed
  <2>2. client'[c].pc = "approved" => Confirmed(c)
    BY <1>1 DEF Confirmed
  <2>3. Saved(c)' \/ client'[c].pc = "approved" => Kept(c)' /\ (Confirmed(c) => Stored(c)')
    BY <1>0, <1>1, <1>a, <2>1, <2>2, KeptStays
  <2>4. Confirmed(c)' => Saved(c)' \/ client'[c].pc = "approved"
    BY DEF Confirmed, Saved
  <2> QED
    BY <2>1, <2>3, <2>4 DEF KeptInv
<1>2. ASSUME NEW d \in Conn, ClientStep(d)
      PROVE  KeptInv(c)'
  <2>1. Moves(d)
    BY <1>0, <1>2, ClientMoves
  <2>2. CASE d # c
    BY <1>1, <2>1, <2>2 DEF Moves, OnlyRun, OnlyThread
  <2>3. CASE d = c
    <3>1. Starting(c) \/ Identifying(c) => ~Saved(c)' /\ ~Confirmed(c)'
      BY DEF Starting, Identifying, Goes, Asks, Rests, Saved, Confirmed
    <3>2. CASE Sending(c)
      <4>1. Saved(c)' => Saved(c) /\ client'[c].userId = client[c].userId
        BY <3>2 DEF Sending, Goes, Asks, Saved
      <4>2. ~Confirmed(c)' /\ client'[c].pc # "approved"
        BY <3>2 DEF Sending, Goes, Asks, Confirmed
      <4>3. Saved(c)' => Kept(c)'
        BY <1>0, <1>a, <4>1, <4>2, KeptStays
      <4> QED
        BY <4>2, <4>3 DEF KeptInv
    <3>3. CASE Ending(c) \/ Dying(c)
      <4>1. ~Saved(c)'
        BY <3>3 DEF Ending, Dying, Goes, Saved
      <4>2. client'[c].pc = "approved" =>
              Saved(c) /\ Confirmed(c) /\ client'[c].userId = client[c].userId
        BY <3>3 DEF Ending, Dying, Goes, Saved, Confirmed
      <4>3. Confirmed(c)' => client'[c].pc = "approved"
        BY <3>3 DEF Ending, Dying, Goes, Confirmed
      <4>4. client'[c].pc = "approved" => Stored(c)'
        BY <1>0, <1>a, <4>2, KeptStays
      <4> QED
        BY <4>1, <4>3, <4>4 DEF KeptInv
    <3> QED
      BY <2>1, <2>3, <3>1, <3>2, <3>3 DEF Moves, KeptInv
  <2> QED
    BY <2>2, <2>3
<1>3. ASSUME NEW d \in Conn, HandlerStep(d)
      PROVE  KeptInv(c)'
  <2>1. Handler(d) /\ client' = client /\ OnlyThread(d)
    BY <1>0, <1>3, HandlerDoes DEF HandlerStep, clientVars, HandlerEffect
  <2>2. CASE d # c
    BY <1>1, <2>1, <2>2 DEF OnlyThread
  <2>3. CASE outbox'[c] \in {None, outbox[c]}
    BY <1>1, <2>1, <2>3
  <2>4. CASE d = c /\ outbox'[c] \notin {None, outbox[c]}
    <3>1. outbox[c] = None
      BY <1>0, <2>1, <2>4, OneReply
    <3>2. Confirmed(c) => client[c].pc = "approved"
      BY <3>1 DEF Confirmed
    <3>3. CASE client[c].pc = "sending"
      BY <1>0, <1>b, <2>1, <2>4, <3>1, <3>3, NewlySaved DEF KeptInv, Confirmed
    <3>4. CASE client[c].pc = "approving"
      <4>1. Saved(c) /\ Saved(c)' /\ Kept(c) /\ client'[c].pc # "approved"
        BY <1>0, <1>b, <2>1, <3>4 DEF Saved, KeptInv
      <4>2. Kept(c)'
        BY <1>0, <1>a, <2>1, <4>1, KeptStays
      <4>3. Stored(c)'
        BY <1>0, <1>b, <2>1, <2>4, <3>1, <3>4, <4>1, NewlyConfirmed
      <4> QED
        BY <4>2, <4>3 DEF KeptInv
    <3>5. CASE client[c].pc = "approved"
      <4>1. Stored(c)'
        BY <1>0, <1>a, <2>1, <3>5, KeptStays DEF Confirmed
      <4> QED
        BY <2>1, <3>5, <4>1 DEF KeptInv, Saved
    <3>6. CASE client[c].pc \notin {"sending", "approving", "approved"}
      BY <2>1, <3>6 DEF KeptInv, Saved, Confirmed
    <3> QED
      BY <3>3, <3>4, <3>5, <3>6
  <2> QED
    BY <2>2, <2>3, <2>4
<1>4. CASE ServerCrash
  <2>1. client' = client /\ outbox'[c] \in {None, outbox[c]}
    BY <1>4 DEF ServerCrash, ServerRestart, clientVars
  <2> QED
    BY <1>1, <2>1
<1>5. CASE UNCHANGED systemVars
  BY <1>1, <1>5 DEF systemVars, serverVars, netVars, clientVars
<1> QED
  BY <1>2, <1>3, <1>4, <1>5, SystemSteps

\* An approved file stays stored: when the two programs are compatible and the runs of a
\* host follow one another, the file of a run whose CRC_OK was answered is from then on in
\* the table, verified, and on the disk with the content the run sent, as long as no run
\* of its host is killed: whatever the other users send (RequestProcessor.crcOK, saveFile,
\* removeFile of MemoryManager), whichever of their runs are killed and leave a thread
\* behind with a request in its hands, and however often the server dies.
THEOREM ApprovedStaysStored ==
    ASSUME Undisturbed
    PROVE  SystemSpec => []ApprovedUnlessKilled
<1>0. Compatible
  BY DEF Undisturbed
<1>1. SystemInit => \A c \in Conn : KeptInv(c)
  BY DEF SystemInit, ServerInit, KeptInv, Saved, Confirmed
<1>2. Grounds => Kin
  BY KinAlways
<1>3. /\ Kin /\ Kin' /\ [Next]_vars /\ (\A c \in Conn : KeptInv(c)) /\ [SystemNext]_systemVars
      => (\A c \in Conn : KeptInv(c))'
  BY KeptInvStep
<1>4. (\A c \in Conn : KeptInv(c)) => ApprovedUnlessKilled
  BY DEF KeptInv, Confirmed, ApprovedUnlessKilled, CalmHosts
<1>5. TypeOK /\ ThreadsInv /\ RunsInv /\ TalkInv /\ LockOwned /\ HostInv /\ ThreadInv /\ StorageInv
      => Grounds
  BY DEF Grounds
<1> QED
  BY <1>0, <1>1, <1>2, <1>3, <1>4, <1>5, SystemUsesStorage, TypeCorrect, RunsAlways, TalkAlways,
     HostInvAlways, ThreadInvAlways, StorageInvAlways, SystemKeepsServer, PTL
     DEF Spec, SystemSpec
============================================================================
