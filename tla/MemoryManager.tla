--------------------------- MODULE MemoryManager ---------------------------
(***************************************************************************)
(* The server's storage: class MemoryManager (Server/MemoryManager.py) and *)
(* the tables of class dbManager (Server/dbManager.py).                    *)
(*                                                                         *)
(* One MemoryManager is shared by every connection thread.  It keeps the   *)
(* clients and the received files three times over: in memory (clients,    *)
(* files), in the SQLite database (dbClients, dbFiles) and, for the file   *)
(* contents, in the directory serverFiles (disk).  Each method runs under  *)
(* one lock.  A method is one action when nothing can come between its     *)
(* first and its last effect; saveFile and removeFile change the disk and  *)
(* the database one after the other, so a crash can separate them and they *)
(* are one action per effect, the lock variable saying what remains to be  *)
(* done.  Restart is the end of the server process at any moment followed  *)
(* by MemoryManager.__init__ of the next one.                              *)
(***************************************************************************)
EXTENDS Naturals, Sequences, FiniteSets, Functions

CONSTANTS
    Conn,       \* connection threads; connection c generates the AES key named c
    ID,         \* client identifiers (uuid4)
    Name,       \* user names
    FileName,   \* file names, as the client sends them
    Content,    \* plaintexts
    NoClient,   \* no client is stored under an identifier
    NoKey,      \* the AES key of a client that has not been given one
    Partial,    \* what a file holds from its truncation to the end of its write
    MaxRestart  \* bound on the number of restarts of the server

Client == [name : Name, publicKey : BOOLEAN, AESKey : Conn \cup {NoKey}]

\* SERVER_DIR/<ID>/<number>
Path == ID \X Nat

File == [ID : ID, fileName : FileName, pathName : Path, verified : BOOLEAN]

\* What the holder of the lock has still to do.
Free == [step |-> "free"]

Saving == [step : {"rewrite", "create", "created"}, conn : Conn, ID : ID,
           fileName : FileName, pathName : Path, content : Content]

Removing == [step : {"unlinked"}, conn : Conn, ID : ID, fileName : FileName]

ASSUME NoClientAssumption == NoClient \notin Client
ASSUME NoKeyAssumption == NoKey \notin Conn
ASSUME PartialAssumption == Partial \notin Content
ASSUME MaxRestartAssumption == MaxRestart \in Nat

VARIABLES
    clients,    \* self.clients: the clients in memory
    files,      \* self.files: the list of files in memory
    lock,       \* self.lock
    dbClients,  \* table clients
    dbFiles,    \* table files
    disk,       \* the files under SERVER_DIR
    boots       \* restarts so far

memVars == <<clients, files, lock>>
dbVars == <<dbClients, dbFiles>>
vars == <<clients, files, lock, dbClients, dbFiles, disk, boots>>

Init ==
    /\ clients = [r \in ID |-> NoClient]
    /\ files = << >>
    /\ lock = Free
    /\ dbClients = [r \in ID |-> NoClient]
    /\ dbFiles = {}
    /\ disk = [p \in {} |-> Partial]
    /\ boots = 0

----------------------------------------------------------------------------
(* Clients *)

\* Faulty: a client without its AESKey default.
NewClientNoAESKey(name) == [name |-> name, publicKey |-> FALSE]

NewClient(name) == [name |-> name, publicKey |-> FALSE, AESKey |-> NoKey]

HasName(table, r, name) == table[r] # NoClient /\ table[r].name = name

\* Faulty: the search stops at clients that have sent their public key.
NameTakenIfSigned(name) == \E r \in ID : HasName(clients, r, name) /\ clients[r].publicKey

NameTaken(name) == \E r \in ID : HasName(clients, r, name)

\* Faulty: the SELECT has no WHERE.
regUserAnyRow(name, s) ==
    /\ lock = Free
    /\ ~NameTaken(name)
    /\ \E r \in ID :
        /\ dbClients[r] = NoClient
        /\ dbClients' = [dbClients EXCEPT ![r] = NewClient(name)]
    /\ dbClients'[s] # NoClient
    /\ clients' = [clients EXCEPT ![s] = NewClient(name)]
    /\ UNCHANGED <<files, lock, dbFiles, disk, boots>>

\* Faulty: uuid4 is called again for the identifier that is returned.
regUserTwoIDs(name, s) ==
    /\ lock = Free
    /\ ~NameTaken(name)
    /\ \E r \in ID :
        /\ dbClients[r] = NoClient
        /\ dbClients' = [dbClients EXCEPT ![r] = NewClient(name)]
    /\ dbClients[s] = NoClient
    /\ clients' = [clients EXCEPT ![s] = NewClient(name)]
    /\ UNCHANGED <<files, lock, dbFiles, disk, boots>>

\* regUser(name) returning s.  The INSERT is under a fresh identifier; the one
\* returned is that of the first row the SELECT by name finds.
regUser(name, s) ==
    /\ lock = Free
    /\ ~NameTaken(name)
    /\ \E r \in ID :
        /\ dbClients[r] = NoClient
        /\ dbClients' = [dbClients EXCEPT ![r] = NewClient(name)]
    /\ HasName(dbClients', s, name)
    /\ clients' = [clients EXCEPT ![s] = NewClient(name)]
    /\ UNCHANGED <<files, lock, dbFiles, disk, boots>>

\* getClient finds a row.
InTable(r) == dbClients[r] # NoClient

\* The membership test every other method starts with.
Known(r) == clients[r] # NoClient \/ InTable(r)

\* The table after the UPDATE of the client's row to row, if there is one.
updateUser(r, row) == [dbClients EXCEPT ![r] = IF InTable(r) THEN row ELSE NoClient]

\* A client that is only in the database passes that test and then fails on
\* the dictionary lookup, so the assignment needs the client in memory.
signPublicKey(r, name) ==
    /\ lock = Free
    /\ HasName(clients, r, name)
    /\ clients' = [clients EXCEPT ![r].publicKey = TRUE]
    /\ dbClients' = updateUser(r, [dbClients[r] EXCEPT !.publicKey = TRUE])
    /\ UNCHANGED <<files, lock, dbFiles, disk, boots>>

\* Faulty: only the table gets the key.
signAESKeyTableOnly(r, key) ==
    /\ lock = Free
    /\ clients[r] # NoClient
    /\ dbClients' = [dbClients EXCEPT ![r].AESKey = key]
    /\ UNCHANGED <<clients, files, lock, dbFiles, disk, boots>>

\* Faulty: only memory gets the key.
signAESKeyMemoryOnly(r, key) ==
    /\ lock = Free
    /\ clients[r] # NoClient
    /\ clients' = [clients EXCEPT ![r].AESKey = key]
    /\ UNCHANGED <<files, lock, dbClients, dbFiles, disk, boots>>

signAESKey(r, key) ==
    /\ lock = Free
    /\ clients[r] # NoClient
    /\ clients' = [clients EXCEPT ![r].AESKey = key]
    /\ dbClients' = updateUser(r, [dbClients[r] EXCEPT !.AESKey = key])
    /\ UNCHANGED <<files, lock, dbFiles, disk, boots>>

----------------------------------------------------------------------------
(* Files *)

\* Faulty: the search looks for verified files only.
MatchesVerified(r, f) == {i \in DOMAIN files :
    files[i].ID = r /\ files[i].fileName = f /\ files[i].verified}

\* Faulty: the search misses the last entry.
MatchesButLast(r, f) == {i \in 1..(Len(files) - 1) :
    files[i].ID = r /\ files[i].fileName = f}

\* The entries of self.files for a client's file name.
Matches(r, f) == {i \in DOMAIN files : files[i].ID = r /\ files[i].fileName = f}

\* i is where the loop over self.files stops.
FirstMatch(i, r, f) == i \in Matches(r, f) /\ \A j \in Matches(r, f) : i <= j

\* Faulty: the search starts at the first number.
StartAtZero == 0

\* Where the search for an unused file number starts ...
StartNumber == Len(files)

\* ... and n is where it stops.
FreeNumber(n, r) ==
    /\ <<r, n>> \notin DOMAIN disk
    /\ \A m \in StartNumber..n : m # n => <<r, m>> \in DOMAIN disk

OnDisk(p, content) ==
    [q \in DOMAIN disk \cup {p} |-> IF q = p THEN content ELSE disk[q]]

\* Faulty: verified files are not protected.
SaveRefusedIfUnknown(r, f) == ~Known(r)

\* saveFile raises "Client does not exist" or "File already exists".
SaveRefused(r, f) ==
    \/ ~Known(r)
    \/ \E i \in Matches(r, f) : FirstMatch(i, r, f) /\ files[i].verified

\* Faulty: the row of a new file is inserted before the file is opened.
saveFileRowFirst(c, r, f, content) ==
    /\ lock = Free
    /\ ~SaveRefused(r, f)
    /\ Matches(r, f) = {}
    /\ \E n \in StartNumber..(StartNumber + Cardinality(DOMAIN disk)) :
        /\ FreeNumber(n, r)
        /\ dbFiles' = dbFiles \cup
             {[ID |-> r, fileName |-> f, pathName |-> <<r, n>>, verified |-> FALSE]}
        /\ lock' = [step |-> "create", conn |-> c, ID |-> r, fileName |-> f,
                    pathName |-> <<r, n>>, content |-> content]
    /\ UNCHANGED <<clients, files, dbClients, disk, boots>>

\* Thread c enters saveFile and opens the file for writing.
saveFile(c, r, f, content) ==
    LET open(p, next) ==
          /\ disk' = OnDisk(p, Partial)
          /\ lock' = [step |-> next, conn |-> c, ID |-> r, fileName |-> f,
                      pathName |-> p, content |-> content]
    IN  /\ lock = Free
        /\ ~SaveRefused(r, f)
        /\ \/ \E i \in Matches(r, f) :
                FirstMatch(i, r, f) /\ open(files[i].pathName, "rewrite")
           \/ /\ Matches(r, f) = {}
              /\ \E n \in StartNumber..(StartNumber + Cardinality(DOMAIN disk)) :
                    FreeNumber(n, r) /\ open(<<r, n>>, "create")
        /\ UNCHANGED <<clients, files, dbClients, dbFiles, boots>>

\* Faulty: the lock stays held after a file was rewritten.
writeFileKeepsLock(c) ==
    /\ lock.step \in {"rewrite", "create"}
    /\ lock.conn = c
    /\ disk' = OnDisk(lock.pathName, lock.content)
    /\ lock' = IF lock.step = "rewrite" THEN lock ELSE [lock EXCEPT !.step = "created"]
    /\ UNCHANGED <<clients, files, dbClients, dbFiles, boots>>

\* It writes the content and closes the file; saveFile of a listed file is over.
writeFile(c) ==
    /\ lock.step \in {"rewrite", "create"}
    /\ lock.conn = c
    /\ disk' = OnDisk(lock.pathName, lock.content)
    /\ lock' = IF lock.step = "rewrite" THEN Free
                                        ELSE [lock EXCEPT !.step = "created"]
    /\ UNCHANGED <<clients, files, dbClients, dbFiles, boots>>

\* The row and the entry of the file just written.
NewFile == [ID |-> lock.ID, fileName |-> lock.fileName,
            pathName |-> lock.pathName, verified |-> FALSE]

\* It records a file that was not listed in the database and in the list.
insertFile(c) ==
    /\ lock.step = "created"
    /\ lock.conn = c
    /\ dbFiles' = dbFiles \cup {NewFile}
    /\ files' = Append(files, NewFile)
    /\ lock' = Free
    /\ UNCHANGED <<clients, dbClients, disk, boots>>

\* The table after the file's row is marked as verified ...
validateFile(r, f) ==
    {IF g.ID = r /\ g.fileName = f THEN [g EXCEPT !.verified = TRUE] ELSE g : g \in dbFiles}

\* ... and after it is deleted.
deleteRow(r, f) == {g \in dbFiles : ~(g.ID = r /\ g.fileName = f)}

\* approveFile raises "Client does not exist" or "File doesn't exist".
ApproveRefused(r, f) == ~Known(r) \/ Matches(r, f) = {}

\* Faulty: only memory gets the verdict.
approveFileMemoryOnly(r, f) ==
    /\ lock = Free
    /\ ~ApproveRefused(r, f)
    /\ \E i \in Matches(r, f) :
        /\ FirstMatch(i, r, f)
        /\ files' = [files EXCEPT ![i].verified = TRUE]
    /\ UNCHANGED <<clients, lock, dbClients, dbFiles, disk, boots>>

approveFile(r, f) ==
    /\ lock = Free
    /\ ~ApproveRefused(r, f)
    /\ \E i \in Matches(r, f) :
        /\ FirstMatch(i, r, f)
        /\ files' = [files EXCEPT ![i].verified = TRUE]
    /\ dbFiles' = validateFile(r, f)
    /\ UNCHANGED <<clients, lock, dbClients, disk, boots>>

\* removeFile raises one of those, or os.remove does not find the file.
RemoveRefused(r, f) ==
    \/ ~Known(r)
    \/ \A i \in Matches(r, f) :
         FirstMatch(i, r, f) => files[i].pathName \notin DOMAIN disk

\* Thread c enters removeFile and deletes the file.  Its entry stays in the list.
removeFile(c, r, f) ==
    /\ lock = Free
    /\ ~RemoveRefused(r, f)
    /\ \E i \in Matches(r, f) :
        /\ FirstMatch(i, r, f)
        /\ disk' = Restrict(disk, DOMAIN disk \ {files[i].pathName})
    /\ lock' = [step |-> "unlinked", conn |-> c, ID |-> r, fileName |-> f]
    /\ UNCHANGED <<clients, files, dbClients, dbFiles, boots>>

\* Faulty: the row stays.
removeRowKeepsRow(c) ==
    /\ lock.step = "unlinked"
    /\ lock.conn = c
    /\ lock' = Free
    /\ UNCHANGED <<clients, files, dbClients, dbFiles, disk, boots>>

\* Faulty: the lock stays held.
removeRowKeepsLock(c) ==
    /\ lock.step = "unlinked"
    /\ lock.conn = c
    /\ dbFiles' = deleteRow(lock.ID, lock.fileName)
    /\ UNCHANGED <<clients, files, lock, dbClients, disk, boots>>

\* It deletes the file's row.
removeRow(c) ==
    /\ lock.step = "unlinked"
    /\ lock.conn = c
    /\ dbFiles' = deleteRow(lock.ID, lock.fileName)
    /\ lock' = Free
    /\ UNCHANGED <<clients, files, dbClients, disk, boots>>

----------------------------------------------------------------------------
(* Restart *)

\* Faulty: only verified files are loaded.
ListingsOfVerified(rows) ==
    LET verified == {g \in rows : g.verified}
    IN  Bijection(1..Cardinality(verified), verified)

\* Faulty: the column Verified is not loaded.
ListingsUnverified(rows) ==
    Bijection(1..Cardinality(rows), {[g EXCEPT !.verified = FALSE] : g \in rows})

\* The lists SELECT * may deliver: it promises no order.
Listings(rows) == Bijection(1..Cardinality(rows), rows)

\* loadDB reads every column of the two tables but AES_KEY.
Restart ==
    /\ boots < MaxRestart
    /\ boots' = boots + 1
    /\ clients' = [r \in ID |-> IF dbClients[r] = NoClient THEN NoClient
                                ELSE [dbClients[r] EXCEPT !.AESKey = NoKey]]
    /\ files' \in Listings(dbFiles)
    /\ lock' = Free
    /\ UNCHANGED <<dbClients, dbFiles, disk>>

----------------------------------------------------------------------------
UserStep == \E r \in ID, name \in Name :
    \/ regUser(name, r)
    \/ signPublicKey(r, name)

KeyStep == \E r \in ID, key \in Conn : signAESKey(r, key)

FileStep == \E r \in ID, f \in FileName :
    \/ approveFile(r, f)
    \/ \E c \in Conn :
        \/ \E content \in Content : saveFile(c, r, f, content)
        \/ removeFile(c, r, f)

LockedStep == \E c \in Conn : writeFile(c) \/ insertFile(c) \/ removeRow(c)

Next == UserStep \/ KeyStep \/ FileStep \/ LockedStep \/ Restart

Spec == Init /\ [][Next]_vars

----------------------------------------------------------------------------
(* Properties *)

\* Every variable has its type.
TypeOK ==
    /\ clients \in [ID -> Client \cup {NoClient}]
    /\ files \in Seq(File)
    /\ lock \in {Free} \cup Saving \cup Removing
    /\ dbClients \in [ID -> Client \cup {NoClient}]
    /\ dbFiles \in SUBSET File
    /\ DOMAIN disk \subseteq Path
    /\ disk \in [DOMAIN disk -> Content \cup {Partial}]
    /\ boots \in 0..MaxRestart

\* Memory and the clients table know the same clients with the same data; the
\* AES key alone may be missing from memory, since loadDB does not read it.
ClientsAgree == \A r \in ID :
    IF dbClients[r] = NoClient
      THEN clients[r] = NoClient
      ELSE clients[r] \in {dbClients[r], [dbClients[r] EXCEPT !.AESKey = NoKey]}

\* The clients table has no unique index on Name: that a name is registered once
\* rests on the search regUser makes in memory, across restarts too.
UniqueNames == \A r, s \in ID, name \in Name :
    HasName(dbClients, r, name) /\ HasName(dbClients, s, name) => r = s

\* The list has at most one entry for a client's file name, so that the loops
\* which stop at the first match see the only one.
OneEntryPerFile == \A i, j \in DOMAIN files :
    files[i].ID = files[j].ID /\ files[i].fileName = files[j].fileName => i = j

\* Every row of the files table is in the list as it stands in the table: what
\* saveFile, approveFile and removeFile decide from the list they decide for
\* the table.
RowsListed == dbFiles \subseteq Range(files)

\* The INSERT of saveFile never meets a row with its PRIMARY KEY(ID, FileName).
InsertIsNew == lock.step \in {"create", "created"} =>
    \A g \in dbFiles \cup Range(files) :
        ~(g.ID = lock.ID /\ g.fileName = lock.fileName)

\* Until the first restart no two listed files are stored under one path.
PathsDistinct == boots = 0 =>
    \A i, j \in DOMAIN files : files[i].pathName = files[j].pathName => i = j

\* Until the first restart a row's file is on the disk, and complete, unless the
\* lock's holder is rewriting or removing that very file.
RowsOnDisk == boots = 0 => \A g \in dbFiles :
    \/ g.pathName \in DOMAIN disk /\ disk[g.pathName] # Partial
    \/ lock.step \in {"rewrite", "unlinked"} /\ lock.ID = g.ID
                                            /\ lock.fileName = g.fileName

\* The step changes no verified file: it may only remove one.
KeepsVerified == \A g \in dbFiles :
    g.verified /\ g.pathName \in DOMAIN disk \cap DOMAIN disk' =>
        disk'[g.pathName] = disk[g.pathName]

\* Until the first restart, what a client has approved is not overwritten,
\* whatever any client sends later ("File already exists").
VerifiedContentStable == [][boots = 0 => KeepsVerified]_vars

\* The same without the reservation: raise Exception("File already exists")
\* is there to refuse every save over a verified file.
VerifiedContentKept == [][KeepsVerified]_vars

\* approveFile raises "File doesn't exist" for a file that is not there; when it
\* does not raise, the files table has the file, verified.
ApprovalRecorded == [][\A r \in ID, f \in FileName : approveFile(r, f) =>
    \E g \in dbFiles' : g.ID = r /\ g.fileName = f /\ g.verified]_vars
----------------------------------------------------------------------------
(* What the users see *)

FilesOf(rows) == {<<g.ID, g.fileName>> : g \in rows}

\* The vault is in the two tables.
Vault == INSTANCE FileVault WITH
    owner <- [r \in {s \in ID : InTable(s)} |-> dbClients[r].name],
    received <- FilesOf({g \in dbFiles : ~g.verified}),
    approved <- FilesOf({g \in dbFiles : g.verified})

\* The storage implements the vault, whenever the process dies: every step on the
\* tables is one of the vault's or changes nothing in it.  The tables themselves
\* would let a name be inserted twice, a file be inserted for a client that is not
\* there (SQLite does not enforce the FOREIGN KEY) or over one that was approved;
\* that none of it happens rests on what the methods find in memory.
ImplementsVault == Vault!Spec
=============================================================================
