------------------------ MODULE MemoryManager_proofs ------------------------
(***************************************************************************)
(* Proofs about MemoryManager, for every value of its constants: that its  *)
(* three copies agree, what Removals says of a storage from which nothing  *)
(* was removed, and that it implements FileVault.                          *)
(***************************************************************************)
EXTENDS Removals, FiniteSetTheorems, TLAPS

USE NoClientAssumption, NoKeyAssumption, PartialAssumption, MaxRestartAssumption

\* A listing of a finite table is a sequence of its rows, each of them once.
LEMMA ListingOfRows ==
    ASSUME NEW rows, IsFiniteSet(rows), NEW s \in Listings(rows)
    PROVE  /\ s \in Seq(rows)
           /\ Range(s) = rows
           /\ \A i, j \in DOMAIN s : s[i] = s[j] => i = j
<1>1. Cardinality(rows) \in Nat
  BY FS_CardinalityType
<1>2. s \in [1..Cardinality(rows) -> rows]
  BY DEF Listings, Bijection, Injection
<1>3. s \in Seq(rows)
  BY <1>1, <1>2
<1>4. \A i, j \in DOMAIN s : s[i] = s[j] => i = j
  BY DEF Listings, Bijection, Injection, IsInjective
<1>5. \A g \in rows : \E i \in DOMAIN s : s[i] = g
  BY <1>2 DEF Listings, Bijection, Surjection
<1>6. Range(s) = rows
  BY <1>2, <1>5 DEF Range
<1> QED
  BY <1>3, <1>4, <1>6

\* A record of the lock says which of the three situations holds.
LEMMA LockCases ==
    ASSUME TypeOK
    PROVE  /\ lock.step \in {"rewrite", "create", "created"} => lock \in Saving
           /\ lock.step = "unlinked" => lock \in Removing
  BY DEF TypeOK, Free, Saving, Removing

\* Storing content in a file of the disk keeps the disk's type.
LEMMA OnDiskType ==
    ASSUME TypeOK, NEW p \in Path, NEW c \in Content \cup {Partial}
    PROVE  /\ DOMAIN OnDisk(p, c) = DOMAIN disk \cup {p}
           /\ DOMAIN OnDisk(p, c) \subseteq Path
           /\ OnDisk(p, c) \in [DOMAIN OnDisk(p, c) -> Content \cup {Partial}]
  BY DEF TypeOK, OnDisk

\* The tables hold finitely many rows, which loadDB needs to list them.
TypeInv == TypeOK /\ IsFiniteSet(dbFiles)

LEMMA InitType == Init => TypeInv
  BY FS_EmptySet DEF Init, TypeInv, TypeOK, Free

LEMMA UserStepType == TypeInv /\ UserStep => TypeInv'
<1> SUFFICES ASSUME TypeInv, NEW r \in ID, NEW name \in Name,
                    regUser(name, r) \/ signPublicKey(r, name)
             PROVE  TypeInv'
  BY DEF UserStep
<1> USE DEF TypeInv, TypeOK
<1>1. CASE regUser(name, r)
  BY <1>1 DEF regUser, NewClient, Client
<1>2. CASE signPublicKey(r, name)
  <2>1. \A client \in Client : [client EXCEPT !.publicKey = TRUE] \in Client
    BY DEF Client
  <2>2. clients[r] \in Client
    BY <1>2 DEF signPublicKey, updateUser, InTable, HasName
  <2>3. clients' \in [ID -> Client \cup {NoClient}]
    BY <1>2, <2>1, <2>2 DEF signPublicKey, updateUser, InTable
  <2>4. dbClients' \in [ID -> Client \cup {NoClient}]
    BY <1>2, <2>1 DEF signPublicKey, updateUser, InTable
  <2> QED
    BY <1>2, <2>3, <2>4 DEF signPublicKey, updateUser, InTable
<1> QED
  BY <1>1, <1>2

LEMMA KeyStepType == TypeInv /\ KeyStep => TypeInv'
  BY DEF KeyStep, signAESKey, updateUser, InTable, TypeInv, TypeOK, Client

\* A match is a position in the list, whose entry is a file.
LEMMA EntryType ==
    ASSUME TypeOK, NEW r \in ID, NEW f \in FileName, NEW i \in Matches(r, f)
    PROVE  /\ i \in DOMAIN files /\ files[i] \in File
           /\ files[i].ID = r /\ files[i].fileName = f
  BY DEF Matches, TypeOK

\* Approving an entry or a row changes nothing else of it.
LEMMA ApprovedType ==
    ASSUME NEW g \in File
    PROVE  /\ [g EXCEPT !.verified = TRUE] \in File
           /\ [g EXCEPT !.verified = TRUE].ID = g.ID
           /\ [g EXCEPT !.verified = TRUE].fileName = g.fileName
           /\ [g EXCEPT !.verified = TRUE].pathName = g.pathName
           /\ [g EXCEPT !.verified = TRUE].verified = TRUE
  BY DEF File

\* What the first step of saveFile does: it truncates the file of the unverified
\* entry it found, or opens a new one under a number from Len(files) on.
LEMMA SaveFileOpens ==
    ASSUME TypeOK, NEW c \in Conn, NEW r \in ID, NEW f \in FileName,
           NEW content \in Content, saveFile(c, r, f, content)
    PROVE  \E p \in Path, next \in {"rewrite", "create"} :
             /\ disk' = OnDisk(p, Partial)
             /\ lock' = [step |-> next, conn |-> c, ID |-> r, fileName |-> f,
                         pathName |-> p, content |-> content]
             /\ next = "rewrite" => \E i \in Matches(r, f) :
                  FirstMatch(i, r, f) /\ ~files[i].verified /\ p = files[i].pathName
             /\ next = "create" => /\ Matches(r, f) = {}
                                   /\ \E n \in Nat : /\ n >= Len(files)
                                                     /\ FreeNumber(n, r)
                                                     /\ p = <<r, n>>
<1> DEFINE opened(p, next) ==
      /\ disk' = OnDisk(p, Partial)
      /\ lock' = [step |-> next, conn |-> c, ID |-> r, fileName |-> f,
                  pathName |-> p, content |-> content]
<1>1. CASE \E i \in Matches(r, f) :
             FirstMatch(i, r, f) /\ opened(files[i].pathName, "rewrite")
  <2>1. PICK i \in Matches(r, f) :
             FirstMatch(i, r, f) /\ opened(files[i].pathName, "rewrite")
    BY <1>1
  <2>2. files[i].pathName \in Path
    BY EntryType DEF File
  <2>3. ~files[i].verified
    BY <2>1 DEF saveFile, SaveRefused
  <2> QED
    BY <2>1, <2>2, <2>3
<1>2. CASE /\ Matches(r, f) = {}
           /\ \E n \in StartNumber..(StartNumber + Cardinality(DOMAIN disk)) :
                FreeNumber(n, r) /\ opened(<<r, n>>, "create")
  <2>1. PICK n \in StartNumber..(StartNumber + Cardinality(DOMAIN disk)) :
                FreeNumber(n, r) /\ opened(<<r, n>>, "create")
    BY <1>2
  <2>2. n \in Nat /\ n >= Len(files)
    BY DEF TypeOK, StartNumber
  <2>3. <<r, n>> \in Path
    BY <2>2 DEF Path
  <2> QED
    BY <1>2, <2>1, <2>2, <2>3
<1> QED
  BY <1>1, <1>2 DEF saveFile

LEMMA FileStepType == TypeInv /\ FileStep => TypeInv'
<1> SUFFICES ASSUME TypeInv, NEW r \in ID, NEW f \in FileName,
                    \/ approveFile(r, f)
                    \/ \E c \in Conn :
                         \/ \E content \in Content : saveFile(c, r, f, content)
                         \/ removeFile(c, r, f)
             PROVE  TypeInv'
  BY DEF FileStep
<1> USE DEF TypeInv
<1>1. CASE approveFile(r, f)
  <2>1. files' \in Seq(File)
    <3>1. PICK i \in Matches(r, f) : files' = [files EXCEPT ![i].verified = TRUE]
      BY <1>1 DEF approveFile, validateFile
    <3>2. i \in DOMAIN files /\ [files[i] EXCEPT !.verified = TRUE] \in File
      BY EntryType, ApprovedType
    <3> QED
      BY <3>1, <3>2 DEF TypeOK
  <2>2. dbFiles' \in SUBSET File
    BY <1>1, ApprovedType DEF approveFile, validateFile, TypeOK
  <2>3. IsFiniteSet(dbFiles')
    <3> DEFINE update == [g \in dbFiles |-> IF g.ID = r /\ g.fileName = f
                              THEN [g EXCEPT !.verified = TRUE] ELSE g]
    <3>1. dbFiles' = {update[g] : g \in dbFiles}
      BY <1>1 DEF approveFile, validateFile
    <3> HIDE DEF update
    <3>2. update \in Surjection(dbFiles, dbFiles')
      BY <3>1 DEF update, Surjection
    <3> QED
      BY <3>2, FS_Surjection
  <2> QED
    BY <1>1, <2>1, <2>2, <2>3 DEF approveFile, validateFile, TypeOK
<1>2. ASSUME NEW c \in Conn, NEW content \in Content, saveFile(c, r, f, content)
      PROVE  TypeInv'
  <2>1. PICK p \in Path, next \in {"rewrite", "create"} :
             /\ disk' = OnDisk(p, Partial)
             /\ lock' = [step |-> next, conn |-> c, ID |-> r, fileName |-> f,
                         pathName |-> p, content |-> content]
    BY <1>2, SaveFileOpens
  <2>2. lock' \in Saving
    BY <2>1 DEF Saving
  <2> QED
    BY <1>2, <2>1, <2>2, OnDiskType DEF saveFile, TypeOK
<1>3. ASSUME NEW c \in Conn, removeFile(c, r, f)
      PROVE  TypeInv'
  <2>1. lock' \in Removing
    BY <1>3 DEF removeFile, Removing
  <2>2. PICK p : disk' = Restrict(disk, DOMAIN disk \ {p})
    BY <1>3 DEF removeFile
  <2> QED
    BY <1>3, <2>1, <2>2 DEF removeFile, TypeOK, Restrict
<1> QED
  BY <1>1, <1>2, <1>3

LEMMA LockedStepType == TypeInv /\ LockedStep => TypeInv'
<1> SUFFICES ASSUME TypeInv, NEW c \in Conn,
                    writeFile(c) \/ insertFile(c) \/ removeRow(c)
             PROVE  TypeInv'
  BY DEF LockedStep
<1> USE DEF TypeInv
<1>1. CASE writeFile(c)
  <2>1. lock \in Saving
    BY <1>1, LockCases DEF writeFile
  <2>2. lock.pathName \in Path /\ lock.content \in Content
    BY <2>1 DEF Saving
  <2>3. lock' \in {Free} \cup Saving
    BY <1>1, <2>1 DEF writeFile, Saving
  <2> QED
    BY <1>1, <2>2, <2>3, OnDiskType DEF writeFile, TypeOK
<1>2. CASE insertFile(c)
  <2>1. lock \in Saving
    BY <1>2, LockCases DEF insertFile
  <2>2. NewFile \in File
    BY <2>1 DEF Saving, File, NewFile
  <2>3. /\ dbFiles' = dbFiles \cup {NewFile} /\ files' = Append(files, NewFile)
        /\ lock' = Free
    BY <1>2 DEF insertFile
  <2>4. IsFiniteSet(dbFiles')
    BY <2>3, FS_AddElement
  <2> QED
    BY <1>2, <2>2, <2>3, <2>4 DEF insertFile, TypeOK
<1>3. CASE removeRow(c)
  <2>1. dbFiles' \subseteq dbFiles
    BY <1>3 DEF removeRow, deleteRow
  <2>2. IsFiniteSet(dbFiles')
    BY <2>1, FS_Subset
  <2> QED
    BY <1>3, <2>1, <2>2 DEF removeRow, deleteRow, TypeOK
<1> QED
  BY <1>1, <1>2, <1>3

LEMMA RestartType == TypeInv /\ Restart => TypeInv'
<1> SUFFICES ASSUME TypeInv, Restart PROVE TypeInv'
  OBVIOUS
<1> USE DEF TypeInv
<1>1. files' \in Seq(dbFiles)
  BY ListingOfRows DEF Restart
<1>2. files' \in Seq(File)
  BY <1>1 DEF TypeOK
<1>3. \A client \in Client : [client EXCEPT !.AESKey = NoKey] \in Client
  BY DEF Client
<1>4. clients' \in [ID -> Client \cup {NoClient}]
  BY <1>3 DEF Restart, TypeOK
<1> QED
  BY <1>2, <1>4 DEF Restart, TypeOK

LEMMA TypeInvStep == TypeInv /\ [Next]_vars => TypeInv'
<1>1. TypeInv /\ UNCHANGED vars => TypeInv'
  BY DEF TypeInv, TypeOK, vars
<1> QED
  BY <1>1, UserStepType, KeyStepType, FileStepType, LockedStepType, RestartType
     DEF Next

\* Type correctness: along every behaviour each variable of the storage has the
\* type the code gives it (MemoryManager.__init__, the tables of createDB).
THEOREM TypeCorrect == Spec => []TypeOK
<1>1. Init => TypeInv
  BY InitType
<1>2. TypeInv /\ [Next]_vars => TypeInv'
  BY TypeInvStep
<1>3. TypeInv => TypeOK
  BY DEF TypeInv
<1> QED
  BY <1>1, <1>2, <1>3, PTL DEF Spec

----------------------------------------------------------------------------
(* Memory and the clients table *)

\* The steps that touch neither copy of the clients.
LEMMA ClientsKept ==
    ASSUME TypeOK, FileStep \/ LockedStep \/ UNCHANGED vars
    PROVE  UNCHANGED <<clients, dbClients>>
  BY DEF FileStep, LockedStep, approveFile, validateFile, saveFile, removeFile, writeFile,
         insertFile, removeRow, vars

\* By ClientsAgree the name regUser does not find in memory is in no row, so the
\* SELECT by name finds the row just inserted.
LEMMA RegisteredRow ==
    ASSUME TypeOK, ClientsAgree, UniqueNames,
           NEW s \in ID, NEW name \in Name, regUser(name, s)
    PROVE  /\ dbClients[s] = NoClient
           /\ dbClients' = [dbClients EXCEPT ![s] = NewClient(name)]
           /\ clients' = [clients EXCEPT ![s] = NewClient(name)]
           /\ \A q \in ID : ~HasName(dbClients, q, name)
<1>1. \A q \in ID : ~HasName(dbClients, q, name)
  <2> SUFFICES ASSUME NEW q \in ID, HasName(dbClients, q, name) PROVE FALSE
    OBVIOUS
  <2>1. dbClients[q] \in Client /\ dbClients[q].name = name
    BY DEF HasName, TypeOK
  <2>2. clients[q] \in {dbClients[q], [dbClients[q] EXCEPT !.AESKey = NoKey]}
    BY <2>1 DEF ClientsAgree
  <2>3. clients[q] \in Client /\ clients[q].name = name
    BY <2>1, <2>2 DEF Client
  <2>4. ~HasName(clients, q, name)
    BY DEF regUser, NameTaken
  <2> QED
    BY <2>3, <2>4 DEF HasName
<1>2. PICK q \in ID : /\ dbClients[q] = NoClient
                      /\ dbClients' = [dbClients EXCEPT ![q] = NewClient(name)]
  BY DEF regUser
<1>3. HasName(dbClients', s, name) /\ clients' = [clients EXCEPT ![s] = NewClient(name)]
  BY DEF regUser
<1>4. s = q
  BY <1>1, <1>2, <1>3 DEF HasName, TypeOK
<1> QED
  BY <1>1, <1>2, <1>3, <1>4

LEMMA ClientsAgreeStep ==
    ASSUME TypeOK, ClientsAgree, UniqueNames, [Next]_vars
    PROVE  ClientsAgree'
<1> SUFFICES ASSUME NEW q \in ID
             PROVE  IF dbClients'[q] = NoClient
                      THEN clients'[q] = NoClient
                      ELSE clients'[q] \in
                             {dbClients'[q], [dbClients'[q] EXCEPT !.AESKey = NoKey]}
  BY DEF ClientsAgree
<1>0. IF dbClients[q] = NoClient
        THEN clients[q] = NoClient
        ELSE /\ dbClients[q] \in Client
             /\ clients[q] \in {dbClients[q], [dbClients[q] EXCEPT !.AESKey = NoKey]}
  BY DEF ClientsAgree, TypeOK
<1>1. ASSUME NEW s \in ID, NEW name \in Name, regUser(name, s)
      PROVE  IF dbClients'[q] = NoClient
               THEN clients'[q] = NoClient
               ELSE clients'[q] \in
                      {dbClients'[q], [dbClients'[q] EXCEPT !.AESKey = NoKey]}
  BY <1>0, <1>1, RegisteredRow DEF TypeOK
<1>2. ASSUME NEW r \in ID, NEW name \in Name, signPublicKey(r, name)
      PROVE  IF dbClients'[q] = NoClient
               THEN clients'[q] = NoClient
               ELSE clients'[q] \in
                      {dbClients'[q], [dbClients'[q] EXCEPT !.AESKey = NoKey]}
  <2>1. clients[r] # NoClient /\ (q # r => clients'[q] = clients[q])
    BY <1>2 DEF signPublicKey, updateUser, InTable, HasName, TypeOK
  <2>2. q # r => dbClients'[q] = dbClients[q]
    BY <1>2 DEF signPublicKey, updateUser, InTable
  <2>3. CASE q = r
    <3>1. clients'[r] = [clients[r] EXCEPT !.publicKey = TRUE]
      BY <1>2 DEF signPublicKey, updateUser, InTable, TypeOK
    <3>2. dbClients'[r] = [dbClients[r] EXCEPT !.publicKey = TRUE]
      BY <1>0, <1>2, <2>1, <2>3 DEF signPublicKey, updateUser, InTable, TypeOK
    <3>3. dbClients'[r] \in Client
      BY <1>0, <2>1, <2>3, <3>2 DEF Client
    <3>4. \A d \in Client : [[d EXCEPT !.AESKey = NoKey] EXCEPT !.publicKey = TRUE]
                            = [[d EXCEPT !.publicKey = TRUE] EXCEPT !.AESKey = NoKey]
      BY DEF Client
    <3> QED
      BY <1>0, <2>1, <2>3, <3>1, <3>2, <3>3, <3>4
  <2> QED
    BY <1>0, <2>1, <2>2, <2>3
<1>3. ASSUME NEW r \in ID, NEW key \in Conn, signAESKey(r, key)
      PROVE  IF dbClients'[q] = NoClient
               THEN clients'[q] = NoClient
               ELSE clients'[q] \in
                      {dbClients'[q], [dbClients'[q] EXCEPT !.AESKey = NoKey]}
  BY <1>0, <1>3 DEF signAESKey, updateUser, InTable, TypeOK, Client
<1>4. CASE Restart
  BY <1>0, <1>4 DEF Restart, TypeOK
<1>5. CASE FileStep \/ LockedStep \/ UNCHANGED vars
  BY <1>0, <1>5, ClientsKept
<1> QED
  BY <1>1, <1>2, <1>3, <1>4, <1>5 DEF Next, UserStep, KeyStep

LEMMA UniqueNamesStep ==
    ASSUME TypeOK, ClientsAgree, UniqueNames, [Next]_vars
    PROVE  UniqueNames'
<1>1. ASSUME NEW s \in ID, NEW name \in Name, regUser(name, s)
      PROVE  UniqueNames'
  BY <1>1, RegisteredRow DEF UniqueNames, HasName, NewClient, TypeOK
<1>2. ASSUME \A q \in ID : /\ dbClients'[q] = NoClient <=> dbClients[q] = NoClient
                           /\ dbClients[q] # NoClient =>
                                dbClients'[q].name = dbClients[q].name
      PROVE  UniqueNames'
  BY <1>2 DEF UniqueNames, HasName
<1>3. ASSUME NEW r \in ID, NEW name \in Name, signPublicKey(r, name)
      PROVE  UniqueNames'
  BY <1>2, <1>3 DEF signPublicKey, updateUser, InTable, TypeOK, Client
<1>4. ASSUME NEW r \in ID, NEW key \in Conn, signAESKey(r, key)
      PROVE  UniqueNames'
  BY <1>2, <1>4 DEF signAESKey, updateUser, InTable, TypeOK, Client
<1>5. CASE Restart \/ FileStep \/ LockedStep \/ UNCHANGED vars
  BY <1>2, <1>5, ClientsKept DEF Restart
<1> QED
  BY <1>1, <1>3, <1>4, <1>5 DEF Next, UserStep, KeyStep

\* At every moment, and after every restart, memory and the clients table agree on
\* who is registered, and no two clients have one name, though nothing but the
\* search in memory keeps regUser from inserting a name twice.
THEOREM ClientsConsistent == Spec => [](ClientsAgree /\ UniqueNames)
<1>1. Init => ClientsAgree /\ UniqueNames
  BY DEF Init, ClientsAgree, UniqueNames, HasName
<1>2. TypeOK /\ ClientsAgree /\ UniqueNames /\ [Next]_vars =>
        ClientsAgree' /\ UniqueNames'
  BY ClientsAgreeStep, UniqueNamesStep
<1> QED
  BY <1>1, <1>2, TypeCorrect, PTL DEF Spec

----------------------------------------------------------------------------
(* The list and the files table *)

FilesInv == OneEntryPerFile /\ RowsListed /\ InsertIsNew

\* The steps that touch neither copy of the files, and leave the lock alone.
LEMMA FilesKept ==
    ASSUME TypeOK, UserStep \/ KeyStep \/ UNCHANGED vars
    PROVE  UNCHANGED <<files, lock, dbFiles, disk, boots>>
  BY DEF UserStep, KeyStep, regUser, signPublicKey, updateUser, InTable, signAESKey, updateUser, InTable, vars

\* A row is an entry of the list, and the only one of its file.
LEMMA RowEntry ==
    ASSUME TypeOK, RowsListed, NEW g \in dbFiles
    PROVE  \E i \in Matches(g.ID, g.fileName) : files[i] = g
  BY DEF RowsListed, Range, Matches

LEMMA ApproveFileFiles ==
    ASSUME TypeOK, FilesInv, NEW r \in ID, NEW f \in FileName, approveFile(r, f)
    PROVE  FilesInv'
<1>1. PICK i \in Matches(r, f) : files' = [files EXCEPT ![i].verified = TRUE]
  BY DEF approveFile, validateFile
<1>2. i \in DOMAIN files /\ files[i] \in File /\ files[i].ID = r /\ files[i].fileName = f
  BY EntryType
<1>3. /\ DOMAIN files' = DOMAIN files
      /\ \A j \in DOMAIN files : j # i => files'[j] = files[j]
      /\ files'[i] = [files[i] EXCEPT !.verified = TRUE]
  BY <1>1, <1>2 DEF TypeOK
<1>4. \A j \in DOMAIN files : /\ files'[j].ID = files[j].ID
                               /\ files'[j].fileName = files[j].fileName
  <2>1. files'[i].ID = files[i].ID /\ files'[i].fileName = files[i].fileName
    BY <1>2, <1>3, ApprovedType
  <2> QED
    BY <1>3, <2>1
<1>5. OneEntryPerFile'
  BY <1>3, <1>4 DEF FilesInv, OneEntryPerFile
<1>6. RowsListed'
  <2> SUFFICES ASSUME NEW h \in dbFiles' PROVE h \in Range(files')
    BY DEF RowsListed
  <2>1. PICK g \in dbFiles : h = IF g.ID = r /\ g.fileName = f
                                   THEN [g EXCEPT !.verified = TRUE] ELSE g
    BY DEF approveFile, validateFile
  <2>2. PICK j \in Matches(g.ID, g.fileName) : files[j] = g
    BY RowEntry DEF FilesInv
  <2>3. j \in DOMAIN files
    BY DEF Matches
  <2>4. g.ID = r /\ g.fileName = f <=> j = i
    BY <1>2, <2>2, <2>3 DEF FilesInv, OneEntryPerFile
  <2>5. files'[j] = h
    BY <1>3, <2>1, <2>2, <2>3, <2>4
  <2> QED
    BY <1>3, <2>3, <2>5 DEF Range
<1>7. InsertIsNew'
  BY DEF approveFile, validateFile, InsertIsNew, Free
<1> QED
  BY <1>5, <1>6, <1>7 DEF FilesInv

LEMMA InsertFileFiles ==
    ASSUME TypeOK, FilesInv, NEW c \in Conn, insertFile(c)
    PROVE  FilesInv'
<1> DEFINE g == NewFile
<1>1. g.ID = lock.ID /\ g.fileName = lock.fileName
  BY DEF NewFile
<1> HIDE DEF g
<1>2. dbFiles' = dbFiles \cup {g} /\ files' = Append(files, g) /\ lock' = Free
  BY DEF insertFile, g
<1>3. \A i \in DOMAIN files : ~(files[i].ID = g.ID /\ files[i].fileName = g.fileName)
  BY <1>1 DEF insertFile, FilesInv, InsertIsNew, Range
<1>4. /\ DOMAIN files' = DOMAIN files \cup {Len(files) + 1}
      /\ \A i \in DOMAIN files : i # Len(files) + 1 /\ files'[i] = files[i]
      /\ files'[Len(files) + 1] = g
  BY <1>2 DEF TypeOK
<1>5. OneEntryPerFile'
  BY <1>3, <1>4 DEF FilesInv, OneEntryPerFile
<1>6. RowsListed'
  BY <1>2, <1>4 DEF FilesInv, RowsListed, Range
<1>7. InsertIsNew'
  BY <1>2 DEF InsertIsNew, Free
<1> QED
  BY <1>5, <1>6, <1>7 DEF FilesInv

LEMMA RestartFiles ==
    ASSUME TypeInv, FilesInv, Restart
    PROVE  FilesInv'
<1>1. /\ files' \in Seq(dbFiles)
      /\ Range(files') = dbFiles
      /\ \A i, j \in DOMAIN files' : files'[i] = files'[j] => i = j
  BY ListingOfRows DEF Restart, TypeInv
<1>2. \A g, h \in dbFiles : g.ID = h.ID /\ g.fileName = h.fileName => g = h
  <2> SUFFICES ASSUME NEW g \in dbFiles, NEW h \in dbFiles,
                      g.ID = h.ID, g.fileName = h.fileName
               PROVE  g = h
    OBVIOUS
  <2>1. PICK i \in Matches(g.ID, g.fileName) : files[i] = g
    BY RowEntry DEF TypeInv, FilesInv
  <2>2. PICK j \in Matches(h.ID, h.fileName) : files[j] = h
    BY RowEntry DEF TypeInv, FilesInv
  <2>3. i = j
    BY <2>1, <2>2 DEF Matches, FilesInv, OneEntryPerFile
  <2> QED
    BY <2>1, <2>2, <2>3
<1>3. \A i \in DOMAIN files' : files'[i] \in dbFiles
  BY <1>1
<1>4. OneEntryPerFile'
  BY <1>1, <1>2, <1>3 DEF OneEntryPerFile
<1>5. RowsListed' /\ InsertIsNew'
  BY <1>1 DEF Restart, RowsListed, InsertIsNew, Free
<1> QED
  BY <1>4, <1>5 DEF FilesInv

LEMMA FilesInvStep ==
    ASSUME TypeInv, FilesInv, [Next]_vars
    PROVE  FilesInv'
<1> USE DEF TypeInv
<1>1. CASE UserStep \/ KeyStep \/ UNCHANGED vars
  BY <1>1, FilesKept DEF FilesInv, OneEntryPerFile, RowsListed, InsertIsNew
<1>2. ASSUME NEW r \in ID, NEW f \in FileName, approveFile(r, f)
      PROVE  FilesInv'
  BY <1>2, ApproveFileFiles
<1>3. ASSUME NEW c \in Conn, NEW r \in ID, NEW f \in FileName, NEW content \in Content,
             saveFile(c, r, f, content)
      PROVE  FilesInv'
  <2>1. PICK p \in Path, next \in {"rewrite", "create"} :
          /\ lock' = [step |-> next, conn |-> c, ID |-> r, fileName |-> f,
                      pathName |-> p, content |-> content]
          /\ next = "create" => Matches(r, f) = {}
    BY <1>3, SaveFileOpens
  <2>2. Matches(r, f) = {} =>
          \A g \in dbFiles \cup Range(files) : ~(g.ID = r /\ g.fileName = f)
    BY DEF FilesInv, RowsListed, Range, Matches
  <2>3. InsertIsNew'
    BY <1>3, <2>1, <2>2 DEF saveFile, InsertIsNew
  <2> QED
    BY <1>3, <2>3 DEF saveFile, FilesInv, OneEntryPerFile, RowsListed
<1>4. ASSUME NEW c \in Conn, NEW r \in ID, NEW f \in FileName, removeFile(c, r, f)
      PROVE  FilesInv'
  BY <1>4 DEF removeFile, FilesInv, OneEntryPerFile, RowsListed, InsertIsNew
<1>5. ASSUME NEW c \in Conn, writeFile(c)
      PROVE  FilesInv'
  <2>1. lock \in Saving
    BY <1>5, LockCases DEF writeFile
  <2>2. InsertIsNew'
    BY <1>5, <2>1 DEF writeFile, FilesInv, InsertIsNew, Free, Saving
  <2> QED
    BY <1>5, <2>2 DEF writeFile, FilesInv, OneEntryPerFile, RowsListed
<1>6. ASSUME NEW c \in Conn, insertFile(c)
      PROVE  FilesInv'
  BY <1>6, InsertFileFiles
<1>7. ASSUME NEW c \in Conn, removeRow(c)
      PROVE  FilesInv'
  BY <1>7 DEF removeRow, deleteRow, FilesInv, OneEntryPerFile, RowsListed, InsertIsNew, Free
<1>8. CASE Restart
  BY <1>8, RestartFiles
<1> QED
  BY <1>1, <1>2, <1>3, <1>4, <1>5, <1>6, <1>7, <1>8 DEF Next, FileStep, LockedStep

\* The list mirrors the files table well enough for the methods to decide on it
\* alone: one entry per file, no row missing, no INSERT that meets a row.
THEOREM FilesConsistent == Spec => [](OneEntryPerFile /\ RowsListed /\ InsertIsNew)
<1>1. Init => TypeInv /\ FilesInv
  BY InitType DEF Init, FilesInv, OneEntryPerFile, RowsListed, InsertIsNew, Free
<1>2. TypeInv /\ FilesInv /\ [Next]_vars => TypeInv' /\ FilesInv'
  BY TypeInvStep, FilesInvStep
<1>3. FilesInv => OneEntryPerFile /\ RowsListed /\ InsertIsNew
  BY DEF FilesInv
<1> QED
  BY <1>1, <1>2, <1>3, PTL DEF Spec

----------------------------------------------------------------------------
(* Until the first restart *)

\* File numbers are positions in the list: nothing but a restart makes the list
\* shorter than the numbers already used.
Numbered == \A i \in DOMAIN files : files[i].pathName = <<files[i].ID, i - 1>>

\* The holder of the lock writes under the next number, or to its own entry.
LockNumbered ==
    /\ lock.step \in {"create", "created"} => lock.pathName = <<lock.ID, Len(files)>>
    /\ lock.step = "created" => /\ lock.pathName \in DOMAIN disk
                                /\ disk[lock.pathName] # Partial
    /\ lock.step = "rewrite" => \E i \in Matches(lock.ID, lock.fileName) :
         lock.pathName = files[i].pathName /\ ~files[i].verified

\* Nothing else is on the disk.
DiskNumbered == \A p \in DOMAIN disk :
    \/ \E n \in Nat : n < Len(files) /\ p[2] = n
    \/ lock.step \in {"create", "created"} /\ p = lock.pathName

FirstRun == boots = 0 => Numbered /\ LockNumbered /\ DiskNumbered

LEMMA NumbersDistinct ==
    ASSUME TypeOK, Numbered
    PROVE  \A i, j \in DOMAIN files : files[i].pathName = files[j].pathName => i = j
  BY DEF Numbered, TypeOK

\* A new file gets the number Len(files), since every number used is below it.
LEMMA FirstNumber ==
    ASSUME TypeOK, DiskNumbered, lock = Free,
           NEW r \in ID, NEW n \in Nat, n >= Len(files), FreeNumber(n, r)
    PROVE  n = Len(files)
<1>1. Len(files) \in Nat
  BY DEF TypeOK
<1>2. <<r, Len(files)>> \notin DOMAIN disk
  BY <1>1 DEF DiskNumbered, Free
<1>3. Len(files) \in Len(files)..n
  BY <1>1
<1> QED
  BY <1>1, <1>2, <1>3 DEF FreeNumber, StartNumber

LEMMA ApproveFileFirstRun ==
    ASSUME TypeOK, FirstRun, NEW r \in ID, NEW f \in FileName, approveFile(r, f)
    PROVE  FirstRun'
<1>1. PICK i \in Matches(r, f) : files' = [files EXCEPT ![i].verified = TRUE]
  BY DEF approveFile, validateFile
<1>2. i \in DOMAIN files /\ files[i] \in File
  BY EntryType
<1>3. /\ DOMAIN files' = DOMAIN files /\ Len(files') = Len(files)
      /\ \A j \in DOMAIN files : j # i => files'[j] = files[j]
      /\ files'[i] = [files[i] EXCEPT !.verified = TRUE]
  BY <1>1, <1>2 DEF TypeOK
<1>4. files'[i].ID = files[i].ID /\ files'[i].pathName = files[i].pathName
  BY <1>2, <1>3, ApprovedType
<1>5. Numbered => Numbered'
  BY <1>3, <1>4 DEF Numbered
<1>6. LockNumbered /\ DiskNumbered => LockNumbered' /\ DiskNumbered'
  BY <1>3 DEF approveFile, validateFile, LockNumbered, DiskNumbered, Free
<1> QED
  BY <1>5, <1>6 DEF approveFile, validateFile, FirstRun

LEMMA SaveFileFirstRun ==
    ASSUME TypeOK, FirstRun, NEW c \in Conn, NEW r \in ID, NEW f \in FileName,
           NEW content \in Content, saveFile(c, r, f, content)
    PROVE  FirstRun'
<1> SUFFICES ASSUME boots = 0, Numbered, LockNumbered, DiskNumbered
             PROVE  Numbered' /\ LockNumbered' /\ DiskNumbered'
  BY DEF FirstRun, saveFile
<1>0. lock = Free /\ UNCHANGED files
  BY DEF saveFile
<1>1. PICK p \in Path, next \in {"rewrite", "create"} :
             /\ disk' = OnDisk(p, Partial)
             /\ lock' = [step |-> next, conn |-> c, ID |-> r, fileName |-> f,
                         pathName |-> p, content |-> content]
             /\ next = "rewrite" => \E i \in Matches(r, f) :
                  FirstMatch(i, r, f) /\ ~files[i].verified /\ p = files[i].pathName
             /\ next = "create" => /\ Matches(r, f) = {}
                                   /\ \E n \in Nat : /\ n >= Len(files)
                                                     /\ FreeNumber(n, r)
                                                     /\ p = <<r, n>>
  BY SaveFileOpens
<1>2. next = "create" => p = <<r, Len(files)>>
  BY <1>0, <1>1, FirstNumber
<1>3. next = "rewrite" => \E n \in Nat : n < Len(files) /\ p[2] = n
  <2> SUFFICES ASSUME next = "rewrite" PROVE \E n \in Nat : n < Len(files) /\ p[2] = n
    OBVIOUS
  <2>1. PICK i \in Matches(r, f) : p = files[i].pathName
    BY <1>1
  <2>2. p = <<files[i].ID, i - 1>> /\ i \in 1..Len(files)
    BY <2>1, EntryType DEF Numbered, TypeOK
  <2> QED
    BY <2>2 DEF TypeOK
<1>4. DOMAIN disk' = DOMAIN disk \cup {p}
  BY <1>1 DEF OnDisk
<1>5. Numbered'
  BY <1>0 DEF Numbered
<1>6. LockNumbered'
  BY <1>0, <1>1, <1>2 DEF LockNumbered, Matches
<1>7. DiskNumbered'
  BY <1>0, <1>1, <1>3, <1>4 DEF DiskNumbered, Free
<1> QED
  BY <1>5, <1>6, <1>7

LEMMA WriteFileFirstRun ==
    ASSUME TypeOK, FirstRun, NEW c \in Conn, writeFile(c)
    PROVE  FirstRun'
<1> SUFFICES ASSUME boots = 0, Numbered, LockNumbered, DiskNumbered
             PROVE  Numbered' /\ LockNumbered' /\ DiskNumbered'
  BY DEF FirstRun, writeFile
<1>1. lock \in Saving /\ lock.pathName \in Path /\ lock.content # Partial
  BY LockCases DEF writeFile, Saving
<1>2. /\ DOMAIN disk' = DOMAIN disk \cup {lock.pathName}
      /\ disk'[lock.pathName] # Partial
  BY <1>1 DEF writeFile, OnDisk
<1>3. Numbered'
  BY DEF writeFile, Numbered
<1>4. CASE lock.step = "rewrite"
  <2>1. lock' = Free
    BY <1>4 DEF writeFile
  <2>2. PICK i \in DOMAIN files : lock.pathName = files[i].pathName
    BY <1>4 DEF LockNumbered, Matches
  <2>3. lock.pathName[2] = i - 1 /\ i \in 1..Len(files)
    BY <2>2 DEF Numbered, TypeOK
  <2>4. \E n \in Nat : n < Len(files) /\ lock.pathName[2] = n
    BY <2>3 DEF TypeOK
  <2>5. DiskNumbered'
    BY <1>2, <1>4, <2>1, <2>4 DEF writeFile, DiskNumbered, Free
  <2> QED
    BY <1>3, <2>1, <2>5 DEF LockNumbered, Free
<1>5. CASE lock.step = "create"
  <2>1. lock' = [lock EXCEPT !.step = "created"]
    BY <1>5 DEF writeFile
  <2>2. lock'.step = "created" /\ lock'.pathName = lock.pathName /\ lock'.ID = lock.ID
    BY <1>1, <2>1 DEF Saving
  <2>3. LockNumbered'
    BY <1>2, <1>5, <2>2 DEF writeFile, LockNumbered
  <2>4. DiskNumbered'
    BY <1>2, <1>5, <2>2 DEF writeFile, DiskNumbered
  <2> QED
    BY <1>3, <2>3, <2>4
<1> QED
  BY <1>4, <1>5 DEF writeFile

LEMMA InsertFileFirstRun ==
    ASSUME TypeOK, FirstRun, NEW c \in Conn, insertFile(c)
    PROVE  FirstRun'
<1> SUFFICES ASSUME boots = 0, Numbered, LockNumbered, DiskNumbered
             PROVE  Numbered' /\ LockNumbered' /\ DiskNumbered'
  BY DEF FirstRun, insertFile
<1> DEFINE g == NewFile
<1>1. g.ID = lock.ID /\ g.pathName = <<lock.ID, Len(files)>>
  BY DEF insertFile, LockNumbered, NewFile
<1> HIDE DEF g
<1>2. files' = Append(files, g) /\ lock' = Free /\ UNCHANGED disk
  BY DEF insertFile, g
<1>3. /\ Len(files) \in Nat /\ Len(files') = Len(files) + 1
      /\ DOMAIN files' = DOMAIN files \cup {Len(files) + 1}
      /\ \A i \in DOMAIN files : files'[i] = files[i]
      /\ files'[Len(files) + 1] = g
  BY <1>2 DEF TypeOK
<1>4. Numbered'
  BY <1>1, <1>3 DEF Numbered
<1>5. LockNumbered'
  BY <1>2 DEF LockNumbered, Free
<1>6. DiskNumbered'
  <2> SUFFICES ASSUME NEW p \in DOMAIN disk
               PROVE  \E n \in Nat : n < Len(files') /\ p[2] = n
    BY <1>2 DEF DiskNumbered
  <2>1. CASE \E n \in Nat : n < Len(files) /\ p[2] = n
    BY <1>3, <2>1
  <2>2. CASE p = lock.pathName
    BY <1>3, <2>2 DEF insertFile, LockNumbered
  <2> QED
    BY <2>1, <2>2 DEF DiskNumbered
<1> QED
  BY <1>4, <1>5, <1>6

LEMMA FirstRunStep ==
    ASSUME TypeOK, FirstRun, [Next]_vars
    PROVE  FirstRun'
<1>1. CASE UserStep \/ KeyStep \/ UNCHANGED vars
  BY <1>1, FilesKept
     DEF FirstRun, Numbered, LockNumbered, DiskNumbered, Matches
<1>2. ASSUME NEW r \in ID, NEW f \in FileName, approveFile(r, f)
      PROVE  FirstRun'
  BY <1>2, ApproveFileFirstRun
<1>3. ASSUME NEW c \in Conn, NEW r \in ID, NEW f \in FileName, NEW content \in Content,
             saveFile(c, r, f, content)
      PROVE  FirstRun'
  BY <1>3, SaveFileFirstRun
<1>4. ASSUME NEW c \in Conn, NEW r \in ID, NEW f \in FileName, removeFile(c, r, f)
      PROVE  FirstRun'
  <2>1. DOMAIN disk' \subseteq DOMAIN disk
    BY <1>4 DEF removeFile, Restrict
  <2> QED
    BY <1>4, <2>1
       DEF removeFile, FirstRun, Numbered, LockNumbered, DiskNumbered, Free
<1>5. ASSUME NEW c \in Conn, writeFile(c)
      PROVE  FirstRun'
  BY <1>5, WriteFileFirstRun
<1>6. ASSUME NEW c \in Conn, insertFile(c)
      PROVE  FirstRun'
  BY <1>6, InsertFileFirstRun
<1>7. ASSUME NEW c \in Conn, removeRow(c)
      PROVE  FirstRun'
  BY <1>7 DEF removeRow, deleteRow, FirstRun, Numbered, LockNumbered, DiskNumbered, Free
<1>8. CASE Restart
  BY <1>8 DEF Restart, FirstRun, TypeOK
<1> QED
  BY <1>1, <1>2, <1>3, <1>4, <1>5, <1>6, <1>7, <1>8 DEF Next, FileStep, LockedStep

\* Until the first restart two listed files never share a path.
THEOREM PathsStayDistinct == Spec => []PathsDistinct
<1>1. Init => FirstRun
  BY DEF Init, FirstRun, Numbered, LockNumbered, DiskNumbered, Free
<1>2. TypeOK /\ FirstRun /\ [Next]_vars => FirstRun'
  BY FirstRunStep
<1>3. TypeOK /\ FirstRun => PathsDistinct
  BY NumbersDistinct DEF FirstRun, PathsDistinct
<1> QED
  BY <1>1, <1>2, <1>3, TypeCorrect, PTL DEF Spec

\* An open file is not one of a verified row: a new file has a number no entry
\* has, and a rewritten one belongs to an entry that is not verified.
LEMMA OpenFileUnverified ==
    ASSUME TypeOK, RowsListed, Numbered, LockNumbered,
           lock.step \in {"rewrite", "create", "created"},
           NEW g \in dbFiles, g.pathName = lock.pathName
    PROVE  ~g.verified
<1>1. PICK i \in DOMAIN files : files[i] = g
  BY DEF RowsListed, Range
<1>2. i \in 1..Len(files) /\ Len(files) \in Nat /\ files[i].pathName[2] = i - 1
  BY <1>1 DEF Numbered, TypeOK
<1>3. CASE lock.step \in {"create", "created"}
  BY <1>1, <1>2, <1>3 DEF LockNumbered
<1>4. CASE lock.step = "rewrite"
  <2>1. PICK j \in DOMAIN files : lock.pathName = files[j].pathName /\ ~files[j].verified
    BY <1>4 DEF LockNumbered, Matches
  <2>2. i = j
    BY <1>1, <2>1, NumbersDistinct
  <2> QED
    BY <1>1, <2>1, <2>2
<1> QED
  BY <1>3, <1>4

LEMMA KeepsVerifiedStep ==
    ASSUME TypeOK, RowsListed, FirstRun, boots = 0, [Next]_vars
    PROVE  KeepsVerified
<1> USE DEF KeepsVerified
<1>1. CASE UNCHANGED disk
  BY <1>1
<1>2. ASSUME NEW c \in Conn, NEW r \in ID, NEW f \in FileName, NEW content \in Content,
             saveFile(c, r, f, content)
      PROVE  KeepsVerified
  <2>1. PICK p \in Path, next \in {"rewrite", "create"} :
             /\ disk' = OnDisk(p, Partial)
             /\ lock' = [step |-> next, conn |-> c, ID |-> r, fileName |-> f,
                         pathName |-> p, content |-> content]
             /\ next = "rewrite" => \E i \in Matches(r, f) :
                  FirstMatch(i, r, f) /\ ~files[i].verified /\ p = files[i].pathName
             /\ next = "create" => /\ Matches(r, f) = {}
                                   /\ \E n \in Nat : /\ n >= Len(files)
                                                     /\ FreeNumber(n, r)
                                                     /\ p = <<r, n>>
    BY <1>2, SaveFileOpens
  <2>2. \A q \in DOMAIN disk : q # p => disk'[q] = disk[q]
    BY <2>1 DEF OnDisk
  <2>3. CASE next = "create"
    BY <2>1, <2>2, <2>3 DEF FreeNumber
  <2>4. CASE next = "rewrite"
    <3>1. PICK i \in DOMAIN files : ~files[i].verified /\ p = files[i].pathName
      BY <2>1, <2>4 DEF Matches
    <3>2. \A g \in dbFiles : g.verified => g.pathName # p
      BY <3>1, NumbersDistinct DEF FirstRun, RowsListed, Range
    <3> QED
      BY <2>2, <3>2
  <2> QED
    BY <2>3, <2>4
<1>3. ASSUME NEW c \in Conn, writeFile(c)
      PROVE  KeepsVerified
  <2>1. \A q \in DOMAIN disk : q # lock.pathName => disk'[q] = disk[q]
    BY <1>3 DEF writeFile, OnDisk
  <2>2. \A g \in dbFiles : g.verified => g.pathName # lock.pathName
    BY <1>3, OpenFileUnverified DEF writeFile, FirstRun
  <2> QED
    BY <2>1, <2>2
<1>4. ASSUME NEW c \in Conn, NEW r \in ID, NEW f \in FileName, removeFile(c, r, f)
      PROVE  KeepsVerified
  BY <1>4 DEF removeFile, Restrict
<1>5. CASE Restart \/ UserStep \/ KeyStep \/ UNCHANGED vars
  BY <1>1, <1>5, FilesKept DEF Restart
<1>6. ASSUME NEW r \in ID, NEW f \in FileName, approveFile(r, f)
      PROVE  KeepsVerified
  BY <1>1, <1>6 DEF approveFile, validateFile
<1>7. ASSUME NEW c \in Conn, insertFile(c) \/ removeRow(c)
      PROVE  KeepsVerified
  BY <1>1, <1>7 DEF insertFile, removeRow, deleteRow
<1> QED
  BY <1>2, <1>3, <1>4, <1>5, <1>6, <1>7 DEF Next, FileStep, LockedStep

\* Until the first restart no sequence of requests, of however many clients and
\* connections, changes the content of a file its client has approved.
THEOREM VerifiedStaysStable == Spec => VerifiedContentStable
<1>1. Init => FirstRun
  BY DEF Init, FirstRun, Numbered, LockNumbered, DiskNumbered, Free
<1>2. TypeOK /\ FirstRun /\ [Next]_vars => FirstRun'
  BY FirstRunStep
<1>3. TypeOK /\ RowsListed /\ FirstRun /\ [Next]_vars =>
        [boots = 0 => KeepsVerified]_vars
  BY KeepsVerifiedStep
<1> QED
  BY <1>1, <1>2, <1>3, TypeCorrect, FilesConsistent, PTL
     DEF Spec, VerifiedContentStable

----------------------------------------------------------------------------
(* The files table and the disk, until the first restart *)

\* The row's file is there, complete ...
Whole(g) == g.pathName \in DOMAIN disk /\ disk[g.pathName] # Partial

\* ... or the holder of the lock is at it.
InHand(g) == /\ lock.step \in {"rewrite", "unlinked"}
             /\ lock.ID = g.ID /\ lock.fileName = g.fileName

LEMMA RowIsEntry ==
    ASSUME TypeOK, OneEntryPerFile, RowsListed, Numbered, NEW g \in dbFiles, NEW i \in DOMAIN files,
           g.pathName = files[i].pathName \/ (g.ID = files[i].ID /\ g.fileName = files[i].fileName)
    PROVE  files[i] = g
<1>1. PICK j \in Matches(g.ID, g.fileName) : files[j] = g
  BY RowEntry
<1>2. j \in DOMAIN files
  BY DEF Matches
<1>3. i = j
  BY <1>1, <1>2, NumbersDistinct DEF OneEntryPerFile
<1> QED
  BY <1>1, <1>3

LEMMA FileStepRows ==
    ASSUME TypeOK, OneEntryPerFile, RowsListed, Numbered, DiskNumbered,
           \A g \in dbFiles : Whole(g) \/ InHand(g),
           NEW r \in ID, NEW f \in FileName,
           \/ approveFile(r, f)
           \/ \E c \in Conn : \/ \E content \in Content : saveFile(c, r, f, content)
                              \/ removeFile(c, r, f)
    PROVE  \A g \in dbFiles' : Whole(g)' \/ InHand(g)'
<1>0. lock = Free
  BY DEF approveFile, saveFile, removeFile
<1>1. \A g \in dbFiles : Whole(g)
  BY <1>0 DEF InHand, Free
<1>2. CASE approveFile(r, f)
  <2> SUFFICES ASSUME NEW g \in dbFiles'
               PROVE  Whole(g)'
    OBVIOUS
  <2>1. PICK h \in dbFiles :
          g = IF h.ID = r /\ h.fileName = f THEN [h EXCEPT !.verified = TRUE] ELSE h
    BY <1>2 DEF approveFile, validateFile
  <2>2. h \in File /\ g.pathName = h.pathName
    BY <2>1, ApprovedType DEF TypeOK
  <2> QED
    BY <1>1, <1>2, <2>2 DEF approveFile, Whole
<1>3. ASSUME NEW c \in Conn, NEW content \in Content, saveFile(c, r, f, content),
             NEW g \in dbFiles
      PROVE  Whole(g)' \/ InHand(g)'
  <2>1. PICK p \in Path, next \in {"rewrite", "create"} :
             /\ disk' = OnDisk(p, Partial)
             /\ lock' = [step |-> next, conn |-> c, ID |-> r, fileName |-> f,
                         pathName |-> p, content |-> content]
             /\ next = "rewrite" => \E i \in Matches(r, f) :
                  FirstMatch(i, r, f) /\ ~files[i].verified /\ p = files[i].pathName
             /\ next = "create" => /\ Matches(r, f) = {}
                                   /\ \E n \in Nat : /\ n >= Len(files)
                                                     /\ FreeNumber(n, r)
                                                     /\ p = <<r, n>>
    BY <1>3, SaveFileOpens
  <2>2. CASE g.pathName # p
    BY <1>1, <2>1, <2>2 DEF Whole, OnDisk
  <2>3. CASE g.pathName = p
    <3>1. p \in DOMAIN disk
      BY <1>1, <2>3 DEF Whole
    <3>2. next = "rewrite"
      BY <2>1, <3>1 DEF FreeNumber
    <3>3. PICK i \in Matches(r, f) : p = files[i].pathName
      BY <2>1, <3>2
    <3>4. g.ID = r /\ g.fileName = f
      BY <2>3, <3>3, EntryType, RowIsEntry
    <3> QED
      BY <2>1, <3>2, <3>4 DEF InHand
  <2> QED
    BY <2>2, <2>3
<1>4. ASSUME NEW c \in Conn, removeFile(c, r, f), NEW g \in dbFiles
      PROVE  Whole(g)' \/ InHand(g)'
  <2>1. PICK i \in Matches(r, f) : disk' = Restrict(disk, DOMAIN disk \ {files[i].pathName})
    BY <1>4 DEF removeFile
  <2>2. CASE g.pathName # files[i].pathName
    BY <1>1, <2>1, <2>2 DEF Whole, Restrict
  <2>3. CASE g.pathName = files[i].pathName
    <3>1. g.ID = r /\ g.fileName = f
      BY <2>3, EntryType, RowIsEntry
    <3> QED
      BY <1>4, <3>1 DEF removeFile, InHand
  <2> QED
    BY <2>2, <2>3
<1>5. ASSUME NEW c \in Conn,
             (\E content \in Content : saveFile(c, r, f, content)) \/ removeFile(c, r, f)
      PROVE  \A g \in dbFiles' : Whole(g)' \/ InHand(g)'
  <2>1. dbFiles' = dbFiles
    BY <1>5 DEF saveFile, removeFile
  <2> QED
    BY <1>3, <1>4, <1>5, <2>1
<1> QED
  BY <1>2, <1>5

LEMMA LockedStepRows ==
    ASSUME TypeOK, OneEntryPerFile, RowsListed, Numbered, LockNumbered,
           \A g \in dbFiles : Whole(g) \/ InHand(g),
           NEW c \in Conn, writeFile(c) \/ insertFile(c) \/ removeRow(c)
    PROVE  \A g \in dbFiles' : Whole(g)' \/ InHand(g)'
<1>1. CASE writeFile(c)
  <2> SUFFICES ASSUME NEW g \in dbFiles
               PROVE  Whole(g)'
    BY <1>1 DEF writeFile
  <2>0. lock.step \in {"rewrite", "create"} /\ lock \in Saving
    BY <1>1, LockCases DEF writeFile
  <2>1. disk' = OnDisk(lock.pathName, lock.content) /\ lock.content # Partial
    BY <1>1, <2>0, PartialAssumption DEF writeFile, Saving
  <2>2. CASE g.pathName = lock.pathName
    BY <2>1, <2>2 DEF Whole, OnDisk
  <2>3. CASE Whole(g)
    BY <2>1, <2>3 DEF Whole, OnDisk
  <2>4. CASE InHand(g)
    <3>1. PICK i \in Matches(lock.ID, lock.fileName) : lock.pathName = files[i].pathName
      BY <2>0, <2>4 DEF InHand, LockNumbered
    <3>2. i \in DOMAIN files /\ files[i].ID = g.ID /\ files[i].fileName = g.fileName
      BY <2>4, <3>1 DEF InHand, Matches
    <3>3. g.pathName = lock.pathName
      BY <3>1, <3>2, RowIsEntry
    <3> QED
      BY <2>2, <3>3
  <2> QED
    BY <2>3, <2>4
<1>2. CASE insertFile(c)
  <2>1. \A g \in dbFiles : Whole(g)
    BY <1>2 DEF insertFile, InHand
  <2>2. NewFile.pathName \in DOMAIN disk /\ disk[NewFile.pathName] # Partial
    BY <1>2 DEF insertFile, NewFile, LockNumbered
  <2> QED
    BY <1>2, <2>1, <2>2 DEF insertFile, Whole
<1>3. CASE removeRow(c)
  BY <1>3 DEF removeRow, deleteRow, Whole, InHand
<1> QED
  BY <1>1, <1>2, <1>3

LEMMA RowsOnDiskStep ==
    ASSUME TypeOK, OneEntryPerFile, RowsListed, FirstRun, RowsOnDisk, [Next]_vars
    PROVE  RowsOnDisk'
<1> SUFFICES ASSUME boots' = 0
             PROVE  \A g \in dbFiles' : Whole(g)' \/ InHand(g)'
  BY DEF RowsOnDisk, Whole, InHand
<1>1. ~Restart
  BY DEF Restart, TypeOK
<1>2. boots = 0
  BY <1>1 DEF Next, UserStep, KeyStep, FileStep, LockedStep, regUser, signPublicKey, signAESKey,
     approveFile, saveFile, removeFile, writeFile, insertFile, removeRow, vars
<1>3. Numbered /\ LockNumbered /\ DiskNumbered
  BY <1>2 DEF FirstRun
<1>4. \A g \in dbFiles : Whole(g) \/ InHand(g)
  BY <1>2 DEF RowsOnDisk, Whole, InHand
<1>5. CASE UserStep \/ KeyStep \/ UNCHANGED vars
  BY <1>4, <1>5, FilesKept DEF Whole, InHand
<1>6. CASE FileStep
  BY <1>3, <1>4, <1>6, FileStepRows DEF FileStep
<1>7. CASE LockedStep
  BY <1>3, <1>4, <1>7, LockedStepRows DEF LockedStep
<1> QED
  BY <1>1, <1>5, <1>6, <1>7 DEF Next

\* Until the first restart every row's file is on the disk, whole, at every moment
\* but those at which the lock's holder is rewriting or removing that very file: a
\* crash leaves at most the file of one request damaged.
THEOREM RowsStayOnDisk == Spec => []RowsOnDisk
<1>1. Init => FirstRun /\ RowsOnDisk
  BY DEF Init, FirstRun, Numbered, LockNumbered, DiskNumbered, Free, RowsOnDisk
<1>2. TypeOK /\ FirstRun /\ [Next]_vars => FirstRun'
  BY FirstRunStep
<1>3. /\ TypeOK /\ OneEntryPerFile /\ RowsListed /\ FirstRun
      /\ RowsOnDisk /\ [Next]_vars
      => RowsOnDisk'
  BY RowsOnDiskStep
<1> QED
  BY <1>1, <1>2, <1>3, TypeCorrect, FilesConsistent, PTL DEF Spec

----------------------------------------------------------------------------
(* Until a file is removed *)

\* The list and the table hold the same files, ...
ListIsTable == Range(files) = dbFiles

\* ... every listed file is on the disk, under a path of its own, ...
PathsHeld == /\ \A i \in DOMAIN files : files[i].pathName \in DOMAIN disk
             /\ \A i, j \in DOMAIN files : files[i].pathName = files[j].pathName => i = j

\* ... and the holder of the lock writes to a path that is no entry's, or to that
\* of an entry that is not verified.
OwnPath ==
    /\ lock.step \in {"create", "created"} =>
         /\ lock.pathName \in DOMAIN disk
         /\ \A i \in DOMAIN files : files[i].pathName # lock.pathName
    /\ lock.step = "rewrite" =>
         \E i \in DOMAIN files : files[i].pathName = lock.pathName /\ ~files[i].verified

Unremoved == ListIsTable /\ PathsHeld /\ OwnPath

LEMMA ApproveFileUnremoved ==
    ASSUME TypeOK, FilesInv, Unremoved, NEW r \in ID, NEW f \in FileName, approveFile(r, f)
    PROVE  Unremoved'
<1>1. PICK i \in Matches(r, f) : files' = [files EXCEPT ![i].verified = TRUE]
  BY DEF approveFile
<1>2. i \in DOMAIN files /\ files[i] \in File /\ files[i].ID = r /\ files[i].fileName = f
  BY EntryType
<1>3. /\ DOMAIN files' = DOMAIN files
      /\ \A j \in DOMAIN files : j # i => files'[j] = files[j]
      /\ files'[i] = [files[i] EXCEPT !.verified = TRUE]
  BY <1>1, <1>2 DEF TypeOK
<1>4. \A j \in DOMAIN files : files'[j].pathName = files[j].pathName
  <2>1. files'[i].pathName = files[i].pathName
    BY <1>2, <1>3, ApprovedType
  <2> QED
    BY <1>3, <2>1
<1>5. \A j \in DOMAIN files : files'[j] \in dbFiles'
  <2> SUFFICES ASSUME NEW j \in DOMAIN files
               PROVE  files'[j] \in dbFiles'
    OBVIOUS
  <2>1. files[j] \in dbFiles
    BY DEF Unremoved, ListIsTable, Range
  <2>2. files[j].ID = r /\ files[j].fileName = f <=> j = i
    BY <1>2 DEF FilesInv, OneEntryPerFile
  <2>3. files'[j] = IF files[j].ID = r /\ files[j].fileName = f
                      THEN [files[j] EXCEPT !.verified = TRUE] ELSE files[j]
    BY <1>3, <2>2
  <2> QED
    BY <2>1, <2>3 DEF approveFile, validateFile
<1>6. Range(files') \subseteq dbFiles'
  BY <1>3, <1>5 DEF Range
<1>7. dbFiles' \subseteq Range(files')
  BY ApproveFileFiles DEF FilesInv, RowsListed
<1>8. PathsHeld'
  BY <1>3, <1>4 DEF approveFile, Unremoved, PathsHeld
<1>9. OwnPath'
  BY DEF approveFile, OwnPath, Free
<1> QED
  BY <1>6, <1>7, <1>8, <1>9 DEF Unremoved, ListIsTable

LEMMA SaveFileUnremoved ==
    ASSUME TypeOK, Unremoved, NEW c \in Conn, NEW r \in ID, NEW f \in FileName,
           NEW content \in Content, saveFile(c, r, f, content)
    PROVE  Unremoved' /\ KeepsVerified
<1>0. UNCHANGED <<files, dbFiles>>
  BY DEF saveFile
<1>1. PICK p \in Path, next \in {"rewrite", "create"} :
             /\ disk' = OnDisk(p, Partial)
             /\ lock' = [step |-> next, conn |-> c, ID |-> r, fileName |-> f,
                         pathName |-> p, content |-> content]
             /\ next = "rewrite" => \E i \in Matches(r, f) :
                  FirstMatch(i, r, f) /\ ~files[i].verified /\ p = files[i].pathName
             /\ next = "create" => /\ Matches(r, f) = {}
                                   /\ \E n \in Nat : /\ n >= Len(files)
                                                     /\ FreeNumber(n, r)
                                                     /\ p = <<r, n>>
  BY SaveFileOpens
<1>2. DOMAIN disk' = DOMAIN disk \cup {p} /\ \A q \in DOMAIN disk : q # p => disk'[q] = disk[q]
  BY <1>1 DEF OnDisk
<1>3. next = "create" => \A i \in DOMAIN files : files[i].pathName # p
  BY <1>1 DEF FreeNumber, Unremoved, PathsHeld
<1>4. next = "rewrite" => \E i \in DOMAIN files : files[i].pathName = p /\ ~files[i].verified
  BY <1>1 DEF Matches
<1>5. lock'.step = next /\ lock'.pathName = p
  BY <1>1
<1>6. OwnPath'
  BY <1>0, <1>2, <1>3, <1>4, <1>5 DEF OwnPath
<1>7. Unremoved'
  BY <1>0, <1>2, <1>6 DEF Unremoved, ListIsTable, PathsHeld
<1>8. \A g \in dbFiles : g.verified => g.pathName # p
  BY <1>3, <1>4 DEF Unremoved, ListIsTable, PathsHeld, Range
<1> QED
  BY <1>2, <1>7, <1>8 DEF KeepsVerified

LEMMA WriteFileUnremoved ==
    ASSUME TypeOK, Unremoved, NEW c \in Conn, writeFile(c)
    PROVE  Unremoved' /\ KeepsVerified
<1>1. lock.step \in {"rewrite", "create"} /\ lock \in Saving
  BY LockCases DEF writeFile
<1>2. lock.pathName \in DOMAIN disk
  BY <1>1 DEF Unremoved, OwnPath, PathsHeld
<1>3. DOMAIN disk' = DOMAIN disk /\ \A q \in DOMAIN disk : q # lock.pathName => disk'[q] = disk[q]
  BY <1>2 DEF writeFile, OnDisk
<1>4. /\ lock.step = "rewrite" => lock' = Free
      /\ lock.step = "create" => lock'.step = "created" /\ lock'.pathName = lock.pathName
  BY <1>1 DEF writeFile, Saving
<1>5. OwnPath'
  BY <1>1, <1>3, <1>4 DEF writeFile, Unremoved, OwnPath, Free
<1>6. Unremoved'
  BY <1>3, <1>5 DEF writeFile, Unremoved, ListIsTable, PathsHeld
<1>7. \A g \in dbFiles : g.verified => g.pathName # lock.pathName
  BY <1>1 DEF Unremoved, ListIsTable, PathsHeld, OwnPath, Range
<1> QED
  BY <1>3, <1>6, <1>7 DEF KeepsVerified

LEMMA InsertFileUnremoved ==
    ASSUME TypeOK, Unremoved, NEW c \in Conn, insertFile(c)
    PROVE  Unremoved'
<1> DEFINE g == NewFile
<1>1. g.pathName = lock.pathName
  BY DEF NewFile
<1>2. /\ g.pathName \in DOMAIN disk
      /\ \A i \in DOMAIN files : files[i].pathName # g.pathName
  BY <1>1 DEF insertFile, Unremoved, OwnPath
<1> HIDE DEF g
<1>3. dbFiles' = dbFiles \cup {g} /\ files' = Append(files, g) /\ lock' = Free /\ disk' = disk
  BY DEF insertFile, g
<1>4. /\ DOMAIN files' = DOMAIN files \cup {Len(files) + 1}
      /\ \A i \in DOMAIN files : i # Len(files) + 1 /\ files'[i] = files[i]
      /\ files'[Len(files) + 1] = g
  BY <1>3 DEF TypeOK
<1>5. ListIsTable'
  BY <1>3, <1>4 DEF Unremoved, ListIsTable, Range
<1>6. PathsHeld'
  BY <1>2, <1>3, <1>4 DEF Unremoved, PathsHeld
<1>7. OwnPath'
  BY <1>3 DEF OwnPath, Free
<1> QED
  BY <1>5, <1>6, <1>7 DEF Unremoved

\* The next run's list is the table, in some order.
LEMMA RestartUnremoved ==
    ASSUME TypeInv, Unremoved, Restart
    PROVE  Unremoved'
<1>1. /\ files' \in Seq(dbFiles)
      /\ Range(files') = dbFiles
      /\ \A i, j \in DOMAIN files' : files'[i] = files'[j] => i = j
  BY ListingOfRows DEF Restart, TypeInv
<1>2. \A i \in DOMAIN files' : files'[i] \in dbFiles
  BY <1>1
<1>3. /\ \A g \in dbFiles : g.pathName \in DOMAIN disk
      /\ \A g, h \in dbFiles : g.pathName = h.pathName => g = h
  BY DEF Unremoved, ListIsTable, PathsHeld, Range
<1>4. PathsHeld'
  BY <1>1, <1>2, <1>3 DEF Restart, PathsHeld
<1> QED
  BY <1>1, <1>4 DEF Restart, Unremoved, ListIsTable, OwnPath, Free

LEMMA UnremovedStep ==
    ASSUME TypeInv, FilesInv, Unremoved, [Next]_vars,
           lock.step # "unlinked", lock'.step # "unlinked"
    PROVE  Unremoved' /\ KeepsVerified
<1> USE DEF TypeInv
<1>0. disk' = disk => KeepsVerified
  BY DEF KeepsVerified
<1>1. CASE UserStep \/ KeyStep \/ UNCHANGED vars
  BY <1>0, <1>1, FilesKept DEF Unremoved, ListIsTable, PathsHeld, OwnPath
<1>2. ASSUME NEW r \in ID, NEW f \in FileName, approveFile(r, f)
      PROVE  Unremoved' /\ KeepsVerified
  BY <1>0, <1>2, ApproveFileUnremoved DEF approveFile
<1>3. ASSUME NEW c \in Conn, NEW r \in ID, NEW f \in FileName, NEW content \in Content,
             saveFile(c, r, f, content)
      PROVE  Unremoved' /\ KeepsVerified
  BY <1>3, SaveFileUnremoved
<1>4. ASSUME NEW c \in Conn, NEW r \in ID, NEW f \in FileName, removeFile(c, r, f)
      PROVE  FALSE
  BY <1>4 DEF removeFile
<1>5. ASSUME NEW c \in Conn, writeFile(c)
      PROVE  Unremoved' /\ KeepsVerified
  BY <1>5, WriteFileUnremoved
<1>6. ASSUME NEW c \in Conn, insertFile(c)
      PROVE  Unremoved' /\ KeepsVerified
  BY <1>0, <1>6, InsertFileUnremoved DEF insertFile
<1>7. ASSUME NEW c \in Conn, removeRow(c)
      PROVE  FALSE
  BY <1>7 DEF removeRow
<1>8. CASE Restart
  BY <1>0, <1>8, RestartUnremoved DEF Restart
<1> QED
  BY <1>1, <1>2, <1>3, <1>4, <1>5, <1>6, <1>7, <1>8 DEF Next, FileStep, LockedStep

\* The step that removes a file changes none.
LEMMA Unlinking ==
    ASSUME [Next]_vars, TypeOK, lock.step # "unlinked", lock'.step = "unlinked"
    PROVE  KeepsVerified
<1>1. ASSUME NEW c \in Conn, NEW r \in ID, NEW f \in FileName, removeFile(c, r, f)
      PROVE  KeepsVerified
  BY <1>1 DEF removeFile, Restrict, KeepsVerified
<1>2. ~(UserStep \/ KeyStep \/ UNCHANGED vars)
  BY FilesKept
<1>3. ASSUME NEW c \in Conn, NEW r \in ID, NEW f \in FileName, NEW content \in Content,
             saveFile(c, r, f, content)
      PROVE  FALSE
  <2>1. lock'.step \in {"rewrite", "create"}
    BY <1>3, SaveFileOpens
  <2> QED
    BY <2>1
<1>4. ASSUME NEW c \in Conn, writeFile(c)
      PROVE  FALSE
  <2>1. lock \in Saving
    BY <1>4, LockCases DEF writeFile
  <2> QED
    BY <1>4, <2>1 DEF writeFile, Saving, Free
<1>5. ASSUME NEW c \in Conn, insertFile(c) \/ removeRow(c)
      PROVE  FALSE
  BY <1>5 DEF insertFile, removeRow, Free
<1>6. ~Restart
  BY DEF Restart, Free
<1>7. ASSUME NEW r \in ID, NEW f \in FileName, approveFile(r, f)
      PROVE  FALSE
  BY <1>7 DEF approveFile
<1> QED
  BY <1>1, <1>2, <1>3, <1>4, <1>5, <1>6, <1>7 DEF Next, FileStep, LockedStep

\* What every state satisfies as long as nothing was removed.
RemovalsInv == TypeInv /\ FilesInv /\ (~removed => Unremoved /\ lock.step # "unlinked")

LEMMA RemovalsInvInit == RemovalsInit => RemovalsInv
<1> SUFFICES ASSUME RemovalsInit PROVE RemovalsInv
  OBVIOUS
<1>1. TypeInv
  BY InitType DEF RemovalsInit
<1> QED
  BY <1>1 DEF RemovalsInit, Init, RemovalsInv, FilesInv, OneEntryPerFile, RowsListed,
     InsertIsNew, Unremoved, ListIsTable, PathsHeld, OwnPath, Range, Free

LEMMA RemovalsInvStep ==
    RemovalsInv /\ [RemovalsNext]_removalsVars =>
        RemovalsInv' /\ [~removed => KeepsVerified]_removalsVars
<1> SUFFICES ASSUME RemovalsInv, [RemovalsNext]_removalsVars
             PROVE  RemovalsInv' /\ [~removed => KeepsVerified]_removalsVars
  OBVIOUS
<1>1. [Next]_vars
  BY DEF RemovalsNext, removalsVars, vars
<1>2. TypeInv' /\ FilesInv'
  BY <1>1, TypeInvStep, FilesInvStep DEF RemovalsInv
<1>3. CASE UNCHANGED removalsVars
  <2>1. removed' = removed /\ lock' = lock /\ UNCHANGED vars
    BY <1>3 DEF removalsVars, vars
  <2>2. ~removed' => Unremoved'
    BY <2>1, <1>1, UnremovedStep DEF RemovalsInv
  <2> QED
    BY <1>2, <1>3, <2>1, <2>2 DEF RemovalsInv
<1>4. CASE RemovalsNext
  <2>1. removed' = (removed \/ lock'.step = "unlinked")
    BY <1>4 DEF RemovalsNext
  <2>2. ~removed' => Unremoved' /\ lock'.step # "unlinked"
    BY <1>1, <2>1, UnremovedStep DEF RemovalsInv
  <2>3. ~removed => KeepsVerified
    <3> SUFFICES ASSUME ~removed PROVE KeepsVerified
      OBVIOUS
    <3>1. CASE lock'.step # "unlinked"
      BY <1>1, <3>1, UnremovedStep DEF RemovalsInv
    <3>2. CASE lock'.step = "unlinked"
      BY <1>1, <3>2, Unlinking DEF RemovalsInv, TypeInv
    <3> QED
      BY <3>1, <3>2
  <2> QED
    BY <1>2, <2>2, <2>3 DEF RemovalsInv
<1> QED
  BY <1>3, <1>4

\* As long as no file was removed, through any number of crashes between any two
\* effects and of restarts, every row's file is on the disk, under a path no other
\* row has, and the list from which the methods decide is the table.
THEOREM RowsStayKept == RemovalsSpec => []RowsKept
<1>1. RemovalsInv /\ [RemovalsNext]_removalsVars => RemovalsInv'
  BY RemovalsInvStep
<1>2. RemovalsInv => RowsKept
  BY DEF RemovalsInv, Unremoved, ListIsTable, PathsHeld, RowsKept, Range
<1> QED
  BY <1>1, <1>2, RemovalsInvInit, PTL DEF RemovalsSpec

\* As long as no file was removed, what a client has approved is not overwritten,
\* in whichever run of the server the request comes.
THEOREM VerifiedStaysKept == RemovalsSpec => VerifiedKept
  BY RemovalsInvInit, RemovalsInvStep, PTL DEF RemovalsSpec, VerifiedKept

----------------------------------------------------------------------------
(* The storage implements FileVault *)

\* The vault's variables as MemoryManager keeps them.
Owner == [r \in {s \in ID : InTable(s)} |-> dbClients[r].name]
Received == FilesOf({g \in dbFiles : ~g.verified})
Approved == FilesOf({g \in dbFiles : g.verified})

\* Who saves a new file is in the clients table, whatever other threads did since
\* saveFile looked.
SaverInTable == lock.step \in {"create", "created"} => InTable(lock.ID)

\* A client that memory or table knows is in the table.
LEMMA KnownInTable ==
    ASSUME ClientsAgree, NEW r \in ID, Known(r)
    PROVE  InTable(r)
  BY DEF ClientsAgree, Known, InTable

LEMMA RegUserVault ==
    ASSUME TypeOK, ClientsAgree, UniqueNames,
           NEW s \in ID, NEW name \in Name, regUser(name, s)
    PROVE  Vault!Register(s, name)
<1>1. /\ dbClients[s] = NoClient
      /\ dbClients' = [dbClients EXCEPT ![s] = NewClient(name)]
      /\ \A q \in ID : ~HasName(dbClients, q, name)
  BY RegisteredRow
<1>2. NewClient(name) \in Client /\ NewClient(name).name = name
  BY DEF NewClient, Client
<1>3. dbClients'[s] = NewClient(name) /\ \A q \in ID : q # s => dbClients'[q] = dbClients[q]
  BY <1>1 DEF TypeOK
<1>4. {q \in ID : InTable(q)'} = {q \in ID : InTable(q)} \cup {s}
  BY <1>2, <1>3, NoClientAssumption DEF InTable
<1>5. s \notin DOMAIN Owner /\ name \notin Vault!Range(Owner)
  BY <1>1 DEF Owner, InTable, HasName, Vault!Range
<1>6. Owner' = [q \in DOMAIN Owner \cup {s} |-> IF q = s THEN name ELSE Owner[q]]
  BY <1>1, <1>2, <1>3, <1>4 DEF Owner, InTable
<1>7. UNCHANGED <<Received, Approved>>
  BY DEF regUser, Received, Approved
<1> QED
  BY <1>5, <1>6, <1>7 DEF Vault!Register, Owner, Received, Approved

LEMMA OwnerKept ==
    ASSUME \A r \in ID : /\ dbClients'[r] = NoClient <=> dbClients[r] = NoClient
                         /\ dbClients[r] # NoClient => dbClients'[r].name = dbClients[r].name
    PROVE  Owner' = Owner
  BY DEF Owner, InTable

\* An UPDATE of a client's row leaves its name, and the other rows.
LEMMA TablesKept ==
    ASSUME TypeOK, NEW r \in ID,
           (\E name \in Name : signPublicKey(r, name)) \/ (\E key \in Conn : signAESKey(r, key)),
           NEW s \in ID
    PROVE  /\ dbClients'[s] = NoClient <=> dbClients[s] = NoClient
           /\ dbClients[s] # NoClient => dbClients'[s].name = dbClients[s].name
<1>1. InTable(r) => dbClients[r] \in Client
  BY DEF InTable, TypeOK
<1>2. CASE \E name \in Name : signPublicKey(r, name)
  <2> DEFINE row == [dbClients[r] EXCEPT !.publicKey = TRUE]
  <2>1. dbClients' = updateUser(r, row)
    BY <1>2 DEF signPublicKey
  <2>2. InTable(r) => row \in Client /\ row.name = dbClients[r].name
    BY <1>1 DEF Client
  <2> HIDE DEF row
  <2> QED
    BY <2>1, <2>2, NoClientAssumption DEF updateUser, InTable, TypeOK
<1>3. CASE \E key \in Conn : signAESKey(r, key)
  <2>1. PICK key \in Conn : dbClients' = updateUser(r, [dbClients[r] EXCEPT !.AESKey = key])
    BY <1>3 DEF signAESKey
  <2> DEFINE row == [dbClients[r] EXCEPT !.AESKey = key]
  <2>2. InTable(r) => row \in Client /\ row.name = dbClients[r].name
    BY <1>1 DEF Client
  <2>3. dbClients' = updateUser(r, row)
    BY <2>1
  <2> HIDE DEF row
  <2> QED
    BY <2>2, <2>3, NoClientAssumption DEF updateUser, InTable, TypeOK
<1> QED
  BY <1>2, <1>3

LEMMA KeysVault ==
    ASSUME TypeOK, NEW r \in ID,
           (\E name \in Name : signPublicKey(r, name)) \/ (\E key \in Conn : signAESKey(r, key))
    PROVE  UNCHANGED <<Owner, Received, Approved>>
<1>1. \A s \in ID : /\ dbClients'[s] = NoClient <=> dbClients[s] = NoClient
                    /\ dbClients[s] # NoClient => dbClients'[s].name = dbClients[s].name
  BY TablesKept
<1>2. dbFiles' = dbFiles
  BY DEF signPublicKey, signAESKey
<1> QED
  BY <1>1, <1>2, OwnerKept DEF Received, Approved

LEMMA ApproveFileVault ==
    ASSUME TypeOK, NEW r \in ID, NEW f \in FileName, approveFile(r, f)
    PROVE  Vault!Approve(<<r, f>>) \/ UNCHANGED <<Owner, Received, Approved>>
<1> DEFINE k == <<r, f>>
           key(g) == g.ID = r /\ g.fileName = f
           set(g) == IF key(g) THEN [g EXCEPT !.verified = TRUE] ELSE g
<1>1. dbFiles' = {set(g) : g \in dbFiles} /\ UNCHANGED dbClients
  BY DEF approveFile, validateFile
<1>2. \A g \in dbFiles : /\ set(g).ID = g.ID /\ set(g).fileName = g.fileName
                         /\ set(g).verified <=> (key(g) \/ g.verified)
  BY ApprovedType DEF TypeOK, File
<1>3. \A g \in dbFiles : key(g) <=> <<g.ID, g.fileName>> = k
  OBVIOUS
<1> HIDE DEF k, key, set
<1>4. Received' = Received \ {k}
  BY <1>1, <1>2, <1>3 DEF Received, FilesOf
<1>5. Approved' = Approved \cup (IF k \in Received THEN {k} ELSE {})
  <2>1. Approved' = {<<g.ID, g.fileName>> : g \in {h \in dbFiles : key(h) \/ h.verified}}
    BY <1>1, <1>2 DEF Approved, FilesOf
  <2>2. \A g \in dbFiles : key(g) => k \in Received \/ k \in Approved
    BY <1>3 DEF Received, Approved, FilesOf
  <2>3. k \in Received => \E g \in dbFiles : key(g)
    BY <1>3 DEF Received, FilesOf
  <2>4. Approved' \subseteq Approved \cup (IF k \in Received THEN {k} ELSE {})
    BY <1>3, <2>1, <2>2 DEF Approved, FilesOf
  <2>5. Approved \subseteq Approved'
    BY <2>1 DEF Approved, FilesOf
  <2>6. k \in Received => k \in Approved'
    BY <1>3, <2>1, <2>3
  <2> QED
    BY <2>4, <2>5, <2>6
<1>6. Owner' = Owner
  BY <1>1 DEF Owner, InTable
<1>7. CASE k \in Received
  BY <1>4, <1>5, <1>6, <1>7 DEF Vault!Approve, Owner, Received, Approved, k
<1>8. CASE k \notin Received
  BY <1>4, <1>5, <1>6, <1>8
<1> QED
  BY <1>7, <1>8

\* By InsertIsNew the vault has no such file, and by SaverInTable its client.
LEMMA InsertFileVault ==
    ASSUME TypeOK, InsertIsNew, SaverInTable, NEW c \in Conn, insertFile(c)
    PROVE  \E k \in ID \X FileName : Vault!Receive(k)
<1>1. lock.ID \in ID /\ lock.fileName \in FileName
  BY LockCases DEF insertFile, Saving
<1> DEFINE k == <<lock.ID, lock.fileName>>
           g == NewFile
<1>2. /\ g.ID = lock.ID /\ g.fileName = lock.fileName /\ ~g.verified
      /\ <<g.ID, g.fileName>> = k /\ k[1] = lock.ID
  BY DEF NewFile
<1>3. dbFiles' = dbFiles \cup {g} /\ UNCHANGED dbClients
  BY DEF insertFile
<1>4. \A h \in dbFiles : <<h.ID, h.fileName>> # k
  BY DEF insertFile, InsertIsNew
<1> HIDE DEF g, k
<1>5. k \notin Received \cup Approved
  BY <1>4 DEF Received, Approved, FilesOf
<1>6. Received' = Received \cup {k} /\ Approved' = Approved
  BY <1>2, <1>3 DEF Received, Approved, FilesOf
<1>7. Owner' = Owner
  BY <1>3 DEF Owner, InTable
<1>8. k[1] \in DOMAIN Owner
  BY <1>1, <1>2 DEF insertFile, SaverInTable, Owner
<1>9. k \in ID \X FileName
  BY <1>1 DEF k
<1> QED
  BY <1>5, <1>6, <1>7, <1>8, <1>9 DEF Vault!Receive, Owner, Received, Approved

LEMMA RemoveRowVault ==
    ASSUME TypeOK, NEW c \in Conn, removeRow(c)
    PROVE  (\E k \in ID \X FileName : Vault!Remove(k)) \/ UNCHANGED <<Owner, Received, Approved>>
<1>1. lock.ID \in ID /\ lock.fileName \in FileName
  BY LockCases DEF removeRow, Removing
<1> DEFINE k == <<lock.ID, lock.fileName>>
<1>2. k \in ID \X FileName
  BY <1>1
<1>3. dbFiles' = {g \in dbFiles : <<g.ID, g.fileName>> # k} /\ UNCHANGED dbClients
  BY DEF removeRow, deleteRow
<1> HIDE DEF k
<1>4. Received' = Received \ {k} /\ Approved' = Approved \ {k}
  BY <1>3 DEF Received, Approved, FilesOf
<1>5. Owner' = Owner
  BY <1>3 DEF Owner, InTable
<1>6. CASE k \in Received \cup Approved
  BY <1>2, <1>4, <1>5, <1>6 DEF Vault!Remove, Owner, Received, Approved
<1>7. CASE k \notin Received \cup Approved
  BY <1>4, <1>5, <1>7
<1> QED
  BY <1>6, <1>7

LEMMA SaverInTableStep ==
    ASSUME TypeOK, ClientsAgree, SaverInTable, [Next]_vars
    PROVE  SaverInTable'
<1>1. CASE UserStep \/ KeyStep
  <2>1. UNCHANGED lock
    BY <1>1, FilesKept
  <2>2. \A r \in ID : InTable(r) => InTable(r)'
    <3>1. ASSUME NEW s \in ID, NEW name \in Name, regUser(name, s), NEW r \in ID, InTable(r)
          PROVE  InTable(r)'
      <4>1. PICK q \in ID : dbClients[q] = NoClient /\ dbClients' = [dbClients EXCEPT ![q] = NewClient(name)]
        BY <3>1 DEF regUser
      <4> QED
        BY <3>1, <4>1 DEF InTable, TypeOK
    <3> QED
      BY <1>1, <3>1, TablesKept DEF UserStep, KeyStep, InTable
  <2>3. lock.step \in {"create", "created"} => lock.ID \in ID
    BY LockCases DEF Saving
  <2> QED
    BY <2>1, <2>2, <2>3 DEF SaverInTable
<1>2. ASSUME NEW c \in Conn, NEW r \in ID, NEW f \in FileName, NEW content \in Content,
             saveFile(c, r, f, content)
      PROVE  SaverInTable'
  <2>1. InTable(r)
    BY <1>2, KnownInTable DEF saveFile, SaveRefused
  <2>2. lock'.ID = r
    BY <1>2, SaveFileOpens
  <2> QED
    BY <1>2, <2>1, <2>2 DEF saveFile, SaverInTable, InTable
<1>3. ASSUME NEW c \in Conn, writeFile(c)
      PROVE  SaverInTable'
  <2>1. lock \in Saving
    BY <1>3, LockCases DEF writeFile
  <2> QED
    BY <1>3, <2>1 DEF writeFile, SaverInTable, InTable, Free, Saving
<1>4. CASE Restart \/ UNCHANGED vars
  BY <1>4 DEF Restart, SaverInTable, InTable, Free, vars
<1>5. ASSUME NEW r \in ID, NEW f \in FileName, approveFile(r, f)
      PROVE  SaverInTable'
  BY <1>5 DEF approveFile, SaverInTable, Free
<1>6. ASSUME NEW c \in Conn, NEW r \in ID, NEW f \in FileName, removeFile(c, r, f)
      PROVE  SaverInTable'
  BY <1>6 DEF removeFile, SaverInTable
<1>7. ASSUME NEW c \in Conn, insertFile(c) \/ removeRow(c)
      PROVE  SaverInTable'
  BY <1>7 DEF insertFile, removeRow, SaverInTable, Free
<1> QED
  BY <1>1, <1>2, <1>3, <1>4, <1>5, <1>6, <1>7 DEF Next, FileStep, LockedStep

\* Every step of the storage is a step of the vault or changes nothing in it.
LEMMA StepOfVault ==
    ASSUME TypeOK, ClientsAgree, UniqueNames, InsertIsNew, SaverInTable, [Next]_vars
    PROVE  Vault!Next \/ UNCHANGED <<Owner, Received, Approved>>
<1>1. CASE UserStep
  BY <1>1, RegUserVault, KeysVault DEF UserStep, Vault!Next
<1>2. CASE KeyStep
  BY <1>2, KeysVault DEF KeyStep
<1>3. CASE FileStep
  <2>1. ASSUME NEW r \in ID, NEW f \in FileName, approveFile(r, f)
        PROVE  Vault!Next \/ UNCHANGED <<Owner, Received, Approved>>
    <3>1. <<r, f>> \in Vault!Key
      BY DEF Vault!Key
    <3> QED
      BY <2>1, <3>1, ApproveFileVault DEF Vault!Next
  <2>2. ASSUME NEW c \in Conn, NEW r \in ID, NEW f \in FileName,
               (\E content \in Content : saveFile(c, r, f, content)) \/ removeFile(c, r, f)
        PROVE  UNCHANGED <<Owner, Received, Approved>>
    BY <2>2 DEF saveFile, removeFile, Owner, Received, Approved, InTable
  <2> QED
    BY <1>3, <2>1, <2>2 DEF FileStep
<1>4. CASE LockedStep
  <2>1. ASSUME NEW c \in Conn, writeFile(c)
        PROVE  UNCHANGED <<Owner, Received, Approved>>
    BY <2>1 DEF writeFile, Owner, Received, Approved, InTable
  <2> QED
    BY <1>4, <2>1, InsertFileVault, RemoveRowVault DEF LockedStep, Vault!Next, Vault!Key
<1>5. CASE Restart \/ UNCHANGED vars
  BY <1>5 DEF Restart, vars, Owner, Received, Approved, InTable
<1> QED
  BY <1>1, <1>2, <1>3, <1>4, <1>5 DEF Next

LEMMA InitOfVault == Init => Vault!Init
<1> SUFFICES ASSUME Init PROVE Vault!Init
  OBVIOUS
<1>1. {r \in ID : InTable(r)} = {}
  BY DEF Init, InTable
<1>2. Owner = [r \in {} |-> r]
  BY <1>1 DEF Owner
<1>3. Received = {} /\ Approved = {}
  BY DEF Init, Received, Approved, FilesOf
<1> QED
  BY <1>2, <1>3 DEF Vault!Init, Owner, Received, Approved

\* The storage implements the vault, for every set of clients, names and files and any
\* number of restarts at any moment: an identifier has one owner and a name one
\* identifier for ever, a file is received only for a registered client, and never
\* again once it is approved, unless it was removed in between.
THEOREM StorageImplementsVault == Spec => ImplementsVault
<1>1. Init => SaverInTable
  BY DEF Init, SaverInTable, Free
<1>2. TypeOK /\ ClientsAgree /\ SaverInTable /\ [Next]_vars => SaverInTable'
  BY SaverInTableStep
<1>3. TypeOK /\ ClientsAgree /\ UniqueNames /\ InsertIsNew /\ SaverInTable /\ [Next]_vars
      => [Vault!Next]_(Vault!vaultVars)
  <2>1. Vault!vaultVars = <<Owner, Received, Approved>>
    BY DEF Vault!vaultVars, Owner, Received, Approved
  <2> QED
    BY <2>1, StepOfVault DEF Vault!vaultVars, Owner, Received, Approved
<1> QED
  BY <1>1, <1>2, <1>3, InitOfVault, TypeCorrect, ClientsConsistent, FilesConsistent, PTL
     DEF Spec, ImplementsVault, Vault!Spec
=============================================================================
