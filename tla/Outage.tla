------------------------------- MODULE Outage -------------------------------
(***************************************************************************)
(* The storage when the database fails: another process holds its file, or *)
(* the disk is full.  A statement of Server/dbManager.py then raises, or   *)
(* it succeeds and conn.commit() raises.  The code never rolls back: if    *)
(* the file was locked the connection goes on seeing what was not          *)
(* committed, and the next commit saves it; on a full disk SQLite may roll *)
(* back by itself everything that was pending.  The exception leaves the   *)
(* method of MemoryManager where it is and releases the lock, except in    *)
(* insertClient, which tries its INSERT again and again with the lock held.*)
(*                                                                         *)
(* dbClients and dbFiles are what the connection sees, savedClients and    *)
(* savedFiles what a restart finds.                                        *)
(***************************************************************************)
EXTENDS MemoryManager

CONSTANTS
    MaxOutage,  \* bound on the number of outages
    MaxFiles    \* bound on the files on the disk

ASSUME MaxOutageAssumption == MaxOutage \in Nat
ASSUME MaxFilesAssumption == MaxFiles \in Nat

VARIABLES
    up,             \* the database answers
    outages,        \* outages so far
    savedClients,   \* table clients as it is committed
    savedFiles      \* table files as it is committed

saved == <<savedClients, savedFiles>>
outageVars == <<vars, up, outages, saved>>

\* regUser in insertClient's loop.
Inserting == [step : {"inserting"}, name : Name]

OutageInit ==
    /\ Init
    /\ up = TRUE
    /\ outages = 0
    /\ savedClients = dbClients
    /\ savedFiles = dbFiles

----------------------------------------------------------------------------
Commit == savedClients' = dbClients' /\ savedFiles' = dbFiles'

\* SQLite rolls back by itself.
RolledBack == dbClients' = savedClients /\ dbFiles' = savedFiles

\* A statement fails, or a commit does and the method's change is rolled back with
\* all that was pending.
Refused == ~up /\ (UNCHANGED dbVars \/ RolledBack)

\* A method that ends with its commit, which in an outage fails and leaves the
\* method's change pending.
Attempt(A) == A /\ (IF up THEN Commit ELSE UNCHANGED saved)

\* Faulty: no finally.
RaisesHoldingLock == UNCHANGED <<memVars, disk, boots, saved>>

\* A method raises before it has changed anything in memory but the lock.
Raises == lock' = Free /\ UNCHANGED <<clients, files, disk, boots, saved>>

\* It raises after it has changed the client in memory ...
ClientInMemory(r, client) ==
    /\ lock = Free
    /\ Refused
    /\ clients' = [clients EXCEPT ![r] = client]
    /\ UNCHANGED <<files, lock, disk, boots, saved>>

SignPublicKey(r, name) ==
    \/ Attempt(signPublicKey(r, name))
    \/ HasName(clients, r, name) /\ ClientInMemory(r, [clients[r] EXCEPT !.publicKey = TRUE])

SignAESKey(r, key) ==
    \/ Attempt(signAESKey(r, key))
    \/ clients[r] # NoClient /\ ClientInMemory(r, [clients[r] EXCEPT !.AESKey = key])

\* Faulty: the flag is set after the commit.
ApproveFlagLast(r, f) ==
    \/ up /\ approveFile(r, f) /\ Commit
    \/ /\ ~up /\ lock = Free /\ ~ApproveRefused(r, f)
       /\ dbFiles' = validateFile(r, f)
       /\ UNCHANGED <<memVars, dbClients, disk, boots, saved>>

\* ... or the file's flag in the list.
ApproveFile(r, f) ==
    \/ Attempt(approveFile(r, f))
    \/ /\ lock = Free
       /\ ~ApproveRefused(r, f)
       /\ Refused
       /\ \E i \in Matches(r, f) :
            FirstMatch(i, r, f) /\ files' = [files EXCEPT ![i].verified = TRUE]
       /\ UNCHANGED <<clients, lock, disk, boots, saved>>

----------------------------------------------------------------------------
(* Registration *)

\* The INSERT of insertClient.
InsertClient(name) == \E r \in ID :
    /\ dbClients[r] = NoClient
    /\ dbClients' = [dbClients EXCEPT ![r] = NewClient(name)]

\* regUser has searched its dictionary and is at the INSERT of name.  uuid4 always
\* finds a new identifier; here registrations end when ID is used up.
AtInsert(name) ==
    /\ \E r \in ID : ~InTable(r)
    /\ \/ lock = Free /\ ~NameTaken(name)
       \/ lock = [step |-> "inserting", name |-> name]

\* The INSERT fails; it is tried again until it does not.
InsertFails(name) ==
    /\ AtInsert(name)
    /\ Refused
    /\ lock' = [step |-> "inserting", name |-> name]
    /\ UNCHANGED <<clients, files, disk, boots, saved>>

\* Faulty: the client is put in memory before the commit.
CommitFailsLate(name) ==
    /\ ~up
    /\ AtInsert(name)
    /\ InsertClient(name)
    /\ lock' = Free
    /\ \E s \in ID : HasName(dbClients', s, name) /\ clients' = [clients EXCEPT ![s] = NewClient(name)]
    /\ UNCHANGED <<files, dbFiles, disk, boots, saved>>

\* The INSERT succeeds and the commit fails: the row is there, unknown to memory,
\* or it is rolled back.
CommitFails(name) ==
    /\ ~up
    /\ AtInsert(name)
    /\ \/ InsertClient(name) /\ UNCHANGED dbFiles
       \/ RolledBack
    /\ lock' = Free
    /\ UNCHANGED <<clients, files, disk, boots, saved>>

Registers(name, s) ==
    /\ up
    /\ AtInsert(name)
    /\ InsertClient(name)
    /\ HasName(dbClients', s, name)
    /\ clients' = [clients EXCEPT ![s] = NewClient(name)]
    /\ lock' = Free
    /\ UNCHANGED <<files, dbFiles, disk, boots>>
    /\ Commit

----------------------------------------------------------------------------
(* Files *)

InsertRefused == \E g \in dbFiles : g.ID = lock.ID /\ g.fileName = lock.fileName

\* insertFile of thread c raises: in its statement, on its PRIMARY KEY, or in its
\* commit, which leaves the row.  The file stays on the disk.
InsertFileFails(c) ==
    /\ lock.step = "created"
    /\ lock.conn = c
    /\ Raises
    /\ \/ Refused
       \/ InsertRefused /\ UNCHANGED dbVars
       \/ /\ ~up /\ ~InsertRefused
          /\ dbFiles' = dbFiles \cup {NewFile}
          /\ UNCHANGED dbClients

InsertFile(c) ==
    \/ InsertFileFails(c)
    \/ up /\ lock.step = "created" /\ ~InsertRefused /\ insertFile(c) /\ Commit

RemoveRow(c) ==
    \/ Attempt(removeRow(c))
    \/ lock.step = "unlinked" /\ lock.conn = c /\ Refused /\ Raises

WriteFile(c) == writeFile(c) /\ UNCHANGED saved

\* Each insertFile that fails leaves a file: MaxFiles bounds them.
OpenFile(c, r, f) ==
    /\ removeFile(c, r, f) \/ \E content \in Content : saveFile(c, r, f, content)
    /\ Cardinality(DOMAIN disk') <= MaxFiles
    /\ UNCHANGED saved

\* What was not committed is lost.
RestartFromSaved ==
    /\ up
    /\ boots < MaxRestart
    /\ boots' = boots + 1
    /\ clients' = [r \in ID |-> IF savedClients[r] = NoClient THEN NoClient
                                ELSE [savedClients[r] EXCEPT !.AESKey = NoKey]]
    /\ files' \in Listings(savedFiles)
    /\ lock' = Free
    /\ dbClients' = savedClients
    /\ dbFiles' = savedFiles
    /\ UNCHANGED <<disk, saved>>

----------------------------------------------------------------------------
Fail ==
    /\ up
    /\ outages < MaxOutage
    /\ up' = FALSE
    /\ outages' = outages + 1
    /\ UNCHANGED <<vars, saved>>

Recover == ~up /\ up' = TRUE /\ UNCHANGED <<vars, outages, saved>>

\* What the holder of the lock does next, once the database lets it.
Holder ==
    /\ lock # Free
    /\ \/ \E name \in Name, s \in ID : Registers(name, s)
       \/ \E c \in Conn : WriteFile(c) \/ InsertFile(c) \/ RemoveRow(c)
    /\ UNCHANGED <<up, outages>>

Enter ==
    /\ lock = Free
    /\ \E r \in ID :
        \/ \E name \in Name : Registers(name, r) \/ SignPublicKey(r, name)
        \/ \E key \in Conn : SignAESKey(r, key)
        \/ \E f \in FileName : ApproveFile(r, f) \/ \E c \in Conn : OpenFile(c, r, f)
    /\ UNCHANGED <<up, outages>>

RegistrationFails ==
    /\ \E name \in Name : InsertFails(name) \/ CommitFails(name)
    /\ UNCHANGED <<up, outages>>

OutageNext ==
    \/ Enter \/ Holder \/ RegistrationFails \/ Fail \/ Recover
    \/ RestartFromSaved /\ UNCHANGED <<up, outages>>

\* An outage ends, and the holder of the lock goes on; while the database is down
\* insertClient may fail for ever.
OutageSpec ==
    OutageInit /\ [][OutageNext]_outageVars /\ WF_outageVars(Holder) /\ WF_outageVars(Recover)

----------------------------------------------------------------------------
(* Properties *)

\* Every variable has its type.
OutageTypeOK ==
    /\ clients \in [ID -> Client \cup {NoClient}]
    /\ files \in Seq(File)
    /\ lock \in {Free} \cup Saving \cup Removing \cup Inserting
    /\ dbClients \in [ID -> Client \cup {NoClient}]
    /\ savedClients \in [ID -> Client \cup {NoClient}]
    /\ dbFiles \in SUBSET File
    /\ savedFiles \in SUBSET File
    /\ DOMAIN disk \subseteq Path
    /\ disk \in [DOMAIN disk -> Content \cup {Partial}]
    /\ boots \in 0..MaxRestart
    /\ up \in BOOLEAN
    /\ outages \in 0..MaxOutage

\* A client that was told its identifier is found under it after a restart: it gets
\* into memory, and its reply is sent, only when its row has been committed.
ClientsDurable == \A r \in ID, name \in Name :
    HasName(clients, r, name) => HasName(savedClients, r, name)

\* Whatever failed, a file that is verified in the table, seen or saved, is listed
\* as verified, so that saveFile refuses to overwrite it ("File already exists").
VerifiedProtected == \A g \in dbFiles \cup savedFiles : g.verified =>
    \E i \in DOMAIN files :
        files[i].ID = g.ID /\ files[i].fileName = g.fileName /\ files[i].verified

\* No failure of the database leaves the lock held for ever: insertClient's loop
\* ends with the outage, and the other methods release it at once.
LockReleased == lock # Free ~> lock = Free
=============================================================================
