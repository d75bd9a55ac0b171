--------------------------- MODULE Outage_proofs ----------------------------
(***************************************************************************)
(* What outlasts a failing database, for every set of clients, names and   *)
(* files, any number of outages and restarts, and however often each       *)
(* statement and each commit fails.                                        *)
(***************************************************************************)
EXTENDS Outage, MemoryManager_proofs

USE NoClientAssumption, NoKeyAssumption, PartialAssumption, MaxRestartAssumption,
    MaxOutageAssumption

----------------------------------------------------------------------------
(* Types *)

\* A restart lists the rows that are saved, so there must be finitely many.
Types ==
    /\ OutageTypeOK
    /\ IsFiniteSet(dbFiles) /\ IsFiniteSet(savedFiles)

LEMMA TypesInit == OutageInit => Types
  BY FS_EmptySet DEF OutageInit, Init, Types, OutageTypeOK, Free

\* Outside insertClient's loop the storage has the types it has without outages.
LEMMA StorageTyped ==
    ASSUME Types, lock.step # "inserting"
    PROVE  TypeInv
  BY DEF Types, OutageTypeOK, TypeInv, TypeOK, Inserting

\* A step of the storage with its commit or without it keeps the types.
LEMMA StorageStepTypes ==
    ASSUME Types, TypeInv', UNCHANGED <<up, outages>>, Commit \/ UNCHANGED saved
    PROVE  Types'
  BY DEF Types, OutageTypeOK, TypeInv, TypeOK, Commit, saved

\* So does one that leaves the list, the disk and, but for a roll back, the files
\* table alone.
LEMMA ClientStepTypes ==
    ASSUME Types, UNCHANGED <<files, disk, boots, up, outages>>,
           clients' \in [ID -> Client \cup {NoClient}],
           dbClients' \in [ID -> Client \cup {NoClient}],
           dbFiles' \in {dbFiles, savedFiles},
           lock' \in {Free} \cup Inserting,
           Commit \/ UNCHANGED saved
    PROVE  Types'
  BY DEF Types, OutageTypeOK, Commit, saved

\* What a statement that fails leaves of the tables.
LEMMA RefusedTypes ==
    ASSUME Types, Refused
    PROVE  /\ dbClients' \in [ID -> Client \cup {NoClient}]
           /\ dbFiles' \in {dbFiles, savedFiles}
  BY DEF Types, OutageTypeOK, Refused, RolledBack, dbVars

LEMMA NewClientType == \A name \in Name : NewClient(name) \in Client /\ NewClient(name).name = name
  BY DEF NewClient, Client

\* The INSERT adds one row, under an identifier that was free.
LEMMA Inserted ==
    ASSUME Types, NEW name \in Name, InsertClient(name)
    PROVE  /\ dbClients' \in [ID -> Client \cup {NoClient}]
           /\ \A r \in ID, n \in Name : HasName(dbClients, r, n) => HasName(dbClients', r, n)
<1>1. PICK q \in ID : dbClients[q] = NoClient /\ dbClients' = [dbClients EXCEPT ![q] = NewClient(name)]
  BY DEF InsertClient
<1> QED
  BY <1>1, NewClientType DEF Types, OutageTypeOK, HasName

LEMMA RegistrationTypes ==
    ASSUME Types, UNCHANGED <<up, outages>>, NEW name \in Name, NEW s \in ID,
           InsertFails(name) \/ CommitFails(name) \/ Registers(name, s)
    PROVE  Types'
<1>1. CASE InsertFails(name)
  <2>1. lock' \in Inserting
    BY <1>1 DEF InsertFails, Inserting
  <2> QED
    BY <1>1, <2>1, RefusedTypes, ClientStepTypes DEF InsertFails, Types, OutageTypeOK
<1>2. CASE CommitFails(name)
  BY <1>2, Inserted, ClientStepTypes DEF CommitFails, RolledBack, Types, OutageTypeOK
<1>3. CASE Registers(name, s)
  <2>1. clients' \in [ID -> Client \cup {NoClient}]
    BY <1>3, NewClientType DEF Registers, Types, OutageTypeOK
  <2> QED
    BY <1>3, <2>1, Inserted, ClientStepTypes DEF Registers
<1> QED
  BY <1>1, <1>2, <1>3

LEMMA KeyTypes ==
    ASSUME Types, UNCHANGED <<up, outages>>, lock = Free, NEW r \in ID
    PROVE  /\ \A name \in Name : SignPublicKey(r, name) => Types'
           /\ \A key \in Conn : SignAESKey(r, key) => Types'
<1>0. TypeInv
  BY StorageTyped DEF Free
<1>1. ASSUME NEW client \in Client, ClientInMemory(r, client) PROVE Types'
  BY <1>1, RefusedTypes, ClientStepTypes DEF ClientInMemory, Types, OutageTypeOK
<1>2. ASSUME NEW name \in Name, SignPublicKey(r, name) PROVE Types'
  <2>1. CASE Attempt(signPublicKey(r, name))
    <3>1. TypeInv'
      BY <1>0, <2>1, UserStepType DEF Attempt, UserStep
    <3> QED
      BY <2>1, <3>1, StorageStepTypes DEF Attempt
  <2>2. CASE HasName(clients, r, name) /\ ClientInMemory(r, [clients[r] EXCEPT !.publicKey = TRUE])
    <3>1. [clients[r] EXCEPT !.publicKey = TRUE] \in Client
      BY <2>2 DEF HasName, Types, OutageTypeOK, Client
    <3> QED
      BY <1>1, <2>2, <3>1
  <2> QED
    BY <1>2, <2>1, <2>2 DEF SignPublicKey
<1>3. ASSUME NEW key \in Conn, SignAESKey(r, key) PROVE Types'
  <2>1. CASE Attempt(signAESKey(r, key))
    <3>1. TypeInv'
      BY <1>0, <2>1, KeyStepType DEF Attempt, KeyStep
    <3> QED
      BY <2>1, <3>1, StorageStepTypes DEF Attempt
  <2>2. CASE clients[r] # NoClient /\ ClientInMemory(r, [clients[r] EXCEPT !.AESKey = key])
    <3>1. [clients[r] EXCEPT !.AESKey = key] \in Client
      BY <2>2 DEF Types, OutageTypeOK, Client
    <3> QED
      BY <1>1, <2>2, <3>1
  <2> QED
    BY <1>3, <2>1, <2>2 DEF SignAESKey
<1> QED
  BY <1>2, <1>3

LEMMA FileTypes ==
    ASSUME Types, UNCHANGED <<up, outages>>, lock = Free, NEW r \in ID, NEW f \in FileName,
           ApproveFile(r, f) \/ \E c \in Conn : OpenFile(c, r, f)
    PROVE  Types'
<1>0. TypeInv
  BY StorageTyped DEF Free
<1>1. ASSUME FileStep, Commit \/ UNCHANGED saved PROVE Types'
  BY <1>0, <1>1, FileStepType, StorageStepTypes
<1>2. ASSUME NEW c \in Conn, OpenFile(c, r, f) PROVE Types'
  BY <1>1, <1>2 DEF OpenFile, FileStep
<1>3. CASE Attempt(approveFile(r, f))
  BY <1>1, <1>3 DEF Attempt, FileStep
<1>4. CASE /\ Refused /\ UNCHANGED <<clients, lock, disk, boots, saved>>
           /\ \E i \in Matches(r, f) : files' = [files EXCEPT ![i].verified = TRUE]
  <2>1. files' \in Seq(File)
    BY <1>0, <1>4, EntryType, ApprovedType DEF TypeInv, TypeOK
  <2> QED
    BY <1>4, <2>1, RefusedTypes DEF Types, OutageTypeOK, saved
<1> QED
  BY <1>2, <1>3, <1>4 DEF ApproveFile

LEMMA HolderTypes ==
    ASSUME Types, UNCHANGED <<up, outages>>, NEW c \in Conn,
           WriteFile(c) \/ InsertFile(c) \/ RemoveRow(c)
    PROVE  Types'
<1>0. TypeInv
  <2>1. lock.step \in {"rewrite", "create", "created", "unlinked"}
    BY DEF WriteFile, InsertFile, InsertFileFails, RemoveRow, Attempt, writeFile, insertFile,
           removeRow
  <2> QED
    BY <2>1, StorageTyped
<1>1. ASSUME LockedStep, Commit \/ UNCHANGED saved PROVE Types'
  BY <1>0, <1>1, LockedStepType, StorageStepTypes
<1>2. CASE WriteFile(c)
  BY <1>1, <1>2 DEF WriteFile, LockedStep
<1>3. CASE Raises /\ Refused
  BY <1>3, RefusedTypes DEF Raises, Types, OutageTypeOK, saved
<1>4. CASE lock.step = "created" /\ dbFiles' \in {dbFiles, dbFiles \cup {NewFile}} /\ lock' = Free
           /\ UNCHANGED <<clients, files, dbClients, disk, boots, saved>>
  <2>1. NewFile \in File
    BY <1>0, <1>4, LockCases DEF TypeInv, Saving, File, NewFile
  <2>2. IsFiniteSet(dbFiles')
    BY <1>4, FS_AddElement DEF Types
  <2> QED
    BY <1>4, <2>1, <2>2 DEF Types, OutageTypeOK, saved
<1>5. CASE insertFile(c) /\ Commit
  BY <1>1, <1>5 DEF LockedStep
<1>6. CASE Attempt(removeRow(c))
  BY <1>1, <1>6 DEF Attempt, LockedStep
<1> QED
  BY <1>2, <1>3, <1>4, <1>5, <1>6 DEF InsertFile, InsertFileFails, RemoveRow, Raises, dbVars

LEMMA RestartTypes == Types /\ RestartFromSaved /\ UNCHANGED <<up, outages>> => Types'
<1> SUFFICES ASSUME Types, RestartFromSaved, UNCHANGED <<up, outages>> PROVE Types'
  OBVIOUS
<1>1. files' \in Seq(File)
  BY ListingOfRows DEF RestartFromSaved, Types, OutageTypeOK
<1>2. \A client \in Client : [client EXCEPT !.AESKey = NoKey] \in Client
  BY DEF Client
<1>3. clients' \in [ID -> Client \cup {NoClient}]
  BY <1>2 DEF RestartFromSaved, Types, OutageTypeOK
<1>4. boots' \in 0..MaxRestart
  BY DEF RestartFromSaved, Types, OutageTypeOK
<1> QED
  BY <1>1, <1>3, <1>4 DEF RestartFromSaved, Types, OutageTypeOK, saved

LEMMA TypesStep == Types /\ [OutageNext]_outageVars => Types'
<1> SUFFICES ASSUME Types, [OutageNext]_outageVars PROVE Types'
  OBVIOUS
<1>1. CASE Enter
  <2>1. lock = Free /\ UNCHANGED <<up, outages>>
    BY <1>1 DEF Enter
  <2>2. PICK r \in ID :
        \/ \E name \in Name : Registers(name, r) \/ SignPublicKey(r, name)
        \/ \E key \in Conn : SignAESKey(r, key)
        \/ \E f \in FileName : ApproveFile(r, f) \/ \E c \in Conn : OpenFile(c, r, f)
    BY <1>1 DEF Enter
  <2>3. CASE \E name \in Name : Registers(name, r)
    BY <2>1, <2>3, RegistrationTypes
  <2>4. CASE \/ \E name \in Name : SignPublicKey(r, name)
             \/ \E key \in Conn : SignAESKey(r, key)
    BY <2>1, <2>4, KeyTypes
  <2>5. CASE \E f \in FileName : ApproveFile(r, f) \/ \E c \in Conn : OpenFile(c, r, f)
    BY <2>1, <2>5, FileTypes
  <2> QED
    BY <2>2, <2>3, <2>4, <2>5
<1>2. CASE Holder
  BY <1>2, RegistrationTypes, HolderTypes DEF Holder
<1>3. CASE RegistrationFails
  <2>1. ID # {}
    BY <1>3 DEF RegistrationFails, InsertFails, CommitFails, AtInsert
  <2> QED
    BY <1>3, <2>1, RegistrationTypes DEF RegistrationFails
<1>4. CASE Fail \/ Recover \/ UNCHANGED outageVars
  <2>0. up \in BOOLEAN /\ outages \in 0..MaxOutage
    BY DEF Types, OutageTypeOK
  <2>1. up' \in BOOLEAN
    BY <1>4, <2>0, Zenon DEF Fail, Recover, outageVars
  <2>2. (outages < MaxOutage /\ outages' = outages + 1) \/ outages' = outages
    BY <1>4 DEF Fail, Recover, outageVars
  <2>3. outages' \in 0..MaxOutage
    BY <2>0, <2>2
  <2>4. UNCHANGED <<clients, files, lock, dbClients, dbFiles, disk, boots, savedClients, savedFiles>>
    BY <1>4 DEF Fail, Recover, outageVars, vars, saved
  <2> QED
    BY <2>1, <2>3, <2>4 DEF Types, OutageTypeOK
<1>5. CASE RestartFromSaved /\ UNCHANGED <<up, outages>>
  BY <1>5, RestartTypes
<1> QED
  BY <1>1, <1>2, <1>3, <1>4, <1>5 DEF OutageNext

LEMMA TypesAlways == OutageSpec => []Types
  BY TypesInit, TypesStep, PTL DEF OutageSpec

\* The types hold through every outage.
THEOREM OutageTypeCorrect == OutageSpec => []OutageTypeOK
<1>1. Types => OutageTypeOK
  BY DEF Types
<1> QED
  BY <1>1, TypesAlways, PTL
----------------------------------------------------------------------------
(* Registered clients *)

\* What is saved under a name is seen under it too.
SavedSeen == \A r \in ID, n \in Name : HasName(savedClients, r, n) => HasName(dbClients, r, n)

\* A table keeps its names: every client keeps the name it has.
KeepsNames(old, new) == \A r \in ID, n \in Name : HasName(old, r, n) => HasName(new, r, n)

\* Enough that memory gets no new name, the table loses none, and what is saved is
\* what was saved, or what the table has.
LEMMA DurableIfKept ==
    ASSUME SavedSeen, ClientsDurable, KeepsNames(clients', clients),
           KeepsNames(dbClients, dbClients'), Commit \/ UNCHANGED saved
    PROVE  SavedSeen' /\ ClientsDurable'
<1>1. CASE Commit
  BY <1>1 DEF Commit, SavedSeen, ClientsDurable, KeepsNames, HasName
<1>2. CASE UNCHANGED saved
  BY <1>2 DEF saved, SavedSeen, ClientsDurable, KeepsNames, HasName
<1> QED
  BY <1>1, <1>2

\* The table may be rolled back: it loses names that no client was told.
LEMMA DurableIfRefused ==
    ASSUME SavedSeen, ClientsDurable, KeepsNames(clients', clients),
           UNCHANGED dbClients \/ RolledBack, UNCHANGED saved
    PROVE  SavedSeen' /\ ClientsDurable'
<1>1. CASE UNCHANGED dbClients
  BY <1>1, DurableIfKept DEF KeepsNames
<1>2. CASE RolledBack
  BY <1>2 DEF RolledBack, saved, SavedSeen, ClientsDurable, KeepsNames, HasName
<1> QED
  BY <1>1, <1>2

\* A client whose key is set keeps its name.
LEMMA KeysKeepNames ==
    ASSUME NEW table \in [ID -> Client \cup {NoClient}], NEW r \in ID, NEW client \in Client,
           table[r] \in Client, client.name = table[r].name
    PROVE  /\ KeepsNames(table, [table EXCEPT ![r] = client])
           /\ KeepsNames([table EXCEPT ![r] = client], table)
  BY DEF KeepsNames, HasName

LEMMA KeySetType ==
    ASSUME NEW client \in Client
    PROVE  /\ [client EXCEPT !.publicKey = TRUE] \in Client
           /\ [client EXCEPT !.publicKey = TRUE].name = client.name
           /\ \A key \in Conn \cup {NoKey} :
                /\ [client EXCEPT !.AESKey = key] \in Client
                /\ [client EXCEPT !.AESKey = key].name = client.name
  BY DEF Client

\* updateUser changes at most one row, and no name.
LEMMA RowKeepsNames ==
    ASSUME Types, NEW r \in ID, NEW row,
           InTable(r) => row \in Client /\ row.name = dbClients[r].name
    PROVE  KeepsNames(dbClients, updateUser(r, row))
  BY DEF Types, OutageTypeOK, InTable, updateUser, KeepsNames, HasName

LEMMA KeysDurable ==
    ASSUME Types, SavedSeen, ClientsDurable, NEW r \in ID
    PROVE  /\ \A name \in Name : SignPublicKey(r, name) => SavedSeen' /\ ClientsDurable'
           /\ \A key \in Conn : SignAESKey(r, key) => SavedSeen' /\ ClientsDurable'
<1>0. clients \in [ID -> Client \cup {NoClient}] /\ dbClients \in [ID -> Client \cup {NoClient}]
  BY DEF Types, OutageTypeOK
<1>1. ASSUME NEW client \in Client, ClientInMemory(r, client),
             clients[r] \in Client, client.name = clients[r].name
      PROVE  SavedSeen' /\ ClientsDurable'
  <2>1. KeepsNames(clients', clients)
    BY <1>0, <1>1, KeysKeepNames DEF ClientInMemory
  <2>2. (UNCHANGED dbClients \/ RolledBack) /\ UNCHANGED saved
    BY <1>1 DEF ClientInMemory, Refused, dbVars
  <2> QED
    BY <2>1, <2>2, DurableIfRefused
<1>2. ASSUME NEW name \in Name, SignPublicKey(r, name)
      PROVE  SavedSeen' /\ ClientsDurable'
  <2> DEFINE client == [clients[r] EXCEPT !.publicKey = TRUE]
             row == [dbClients[r] EXCEPT !.publicKey = TRUE]
  <2>1. clients[r] \in Client
    BY <1>0, <1>2 DEF SignPublicKey, Attempt, signPublicKey, HasName
  <2>2. client \in Client /\ client.name = clients[r].name
    BY <2>1, KeySetType
  <2>3. InTable(r) => row \in Client /\ row.name = dbClients[r].name
    BY <1>0, KeySetType DEF InTable
  <2>4. \/ clients' = [clients EXCEPT ![r] = client] /\ dbClients' = updateUser(r, row)
           /\ (Commit \/ UNCHANGED saved)
        \/ ClientInMemory(r, client)
    BY <1>2 DEF SignPublicKey, Attempt, signPublicKey
  <2> HIDE DEF client, row
  <2>5. CASE clients' = [clients EXCEPT ![r] = client] /\ dbClients' = updateUser(r, row)
             /\ (Commit \/ UNCHANGED saved)
    <3>1. KeepsNames(clients', clients)
      BY <1>0, <2>1, <2>2, <2>5, KeysKeepNames
    <3>2. KeepsNames(dbClients, dbClients')
      BY <2>3, <2>5, RowKeepsNames
    <3> QED
      BY <2>5, <3>1, <3>2, DurableIfKept
  <2> QED
    BY <1>1, <2>1, <2>2, <2>4, <2>5
<1>3. ASSUME NEW key \in Conn, SignAESKey(r, key)
      PROVE  SavedSeen' /\ ClientsDurable'
  <2> DEFINE client == [clients[r] EXCEPT !.AESKey = key]
             row == [dbClients[r] EXCEPT !.AESKey = key]
  <2>1. clients[r] \in Client
    BY <1>0, <1>3 DEF SignAESKey, Attempt, signAESKey
  <2>2. client \in Client /\ client.name = clients[r].name
    BY <2>1, KeySetType
  <2>3. InTable(r) => row \in Client /\ row.name = dbClients[r].name
    BY <1>0, KeySetType DEF InTable
  <2>4. \/ clients' = [clients EXCEPT ![r] = client] /\ dbClients' = updateUser(r, row)
           /\ (Commit \/ UNCHANGED saved)
        \/ ClientInMemory(r, client)
    BY <1>3 DEF SignAESKey, Attempt, signAESKey
  <2> HIDE DEF client, row
  <2>5. CASE clients' = [clients EXCEPT ![r] = client] /\ dbClients' = updateUser(r, row)
             /\ (Commit \/ UNCHANGED saved)
    <3>1. KeepsNames(clients', clients)
      BY <1>0, <2>1, <2>2, <2>5, KeysKeepNames
    <3>2. KeepsNames(dbClients, dbClients')
      BY <2>3, <2>5, RowKeepsNames
    <3> QED
      BY <2>5, <3>1, <3>2, DurableIfKept
  <2> QED
    BY <1>1, <2>1, <2>2, <2>4, <2>5
<1> QED
  BY <1>2, <1>3

LEMMA RegistrationDurable ==
    ASSUME Types, SavedSeen, ClientsDurable, NEW name \in Name, NEW s \in ID,
           InsertFails(name) \/ CommitFails(name) \/ Registers(name, s)
    PROVE  SavedSeen' /\ ClientsDurable'
<1>1. CASE InsertFails(name)
  BY <1>1, DurableIfRefused DEF InsertFails, Refused, dbVars, KeepsNames
<1>2. CASE CommitFails(name)
  <2>1. KeepsNames(clients', clients) /\ UNCHANGED saved
    BY <1>2 DEF CommitFails, KeepsNames
  <2>2. CASE InsertClient(name)
    <3>1. KeepsNames(dbClients, dbClients')
      BY <2>2, Inserted DEF KeepsNames
    <3> QED
      BY <2>1, <3>1, DurableIfKept
  <2>3. CASE RolledBack
    BY <2>1, <2>3, DurableIfRefused
  <2> QED
    BY <1>2, <2>2, <2>3 DEF CommitFails
<1>3. CASE Registers(name, s)
  <2>1. KeepsNames(dbClients, dbClients')
    BY <1>3, Inserted DEF Registers, KeepsNames
  <2>2. savedClients' = dbClients' /\ HasName(dbClients', s, name)
    BY <1>3 DEF Registers, Commit
  <2>3. SavedSeen'
    BY <2>2 DEF SavedSeen, HasName
  <2>4. ASSUME NEW r \in ID, NEW n \in Name, HasName(clients', r, n)
        PROVE  HasName(savedClients', r, n)
    <3>1. CASE r = s
      <4>1. clients'[s].name = name
        BY <1>3, NewClientType DEF Registers, Types, OutageTypeOK
      <4> QED
        BY <2>2, <2>4, <3>1, <4>1 DEF HasName
    <3>2. CASE r # s
      <4>1. HasName(clients, r, n)
        BY <1>3, <2>4, <3>2 DEF Registers, HasName, Types, OutageTypeOK
      <4> QED
        BY <2>1, <2>2, <4>1 DEF ClientsDurable, SavedSeen, KeepsNames
    <3> QED
      BY <3>1, <3>2
  <2> QED
    BY <2>3, <2>4 DEF ClientsDurable, HasName
<1> QED
  BY <1>1, <1>2, <1>3

LEMMA RestartDurable ==
    ASSUME Types, RestartFromSaved
    PROVE  SavedSeen' /\ ClientsDurable'
<1>1. UNCHANGED savedClients /\ dbClients' = savedClients
  BY DEF RestartFromSaved, saved
<1>2. clients' = [r \in ID |-> IF savedClients[r] = NoClient THEN NoClient
                               ELSE [savedClients[r] EXCEPT !.AESKey = NoKey]]
  BY DEF RestartFromSaved
<1>3. ASSUME NEW r \in ID, NEW n \in Name, HasName(clients', r, n)
      PROVE  HasName(savedClients', r, n)
  <2>1. savedClients[r] \in Client
    BY <1>2, <1>3 DEF HasName, Types, OutageTypeOK
  <2>2. clients'[r].name = savedClients[r].name
    BY <1>2, <2>1, KeySetType
  <2> QED
    BY <1>1, <1>3, <2>1, <2>2 DEF HasName
<1> QED
  BY <1>1, <1>3 DEF SavedSeen, ClientsDurable, HasName

LEMMA DurableStep ==
    Types /\ SavedSeen /\ ClientsDurable /\ [OutageNext]_outageVars => SavedSeen' /\ ClientsDurable'
<1> SUFFICES ASSUME Types, SavedSeen, ClientsDurable, [OutageNext]_outageVars
             PROVE  SavedSeen' /\ ClientsDurable'
  OBVIOUS
<1>1. ASSUME UNCHANGED <<clients, dbClients>>, Commit \/ UNCHANGED saved
      PROVE  SavedSeen' /\ ClientsDurable'
  BY <1>1, DurableIfKept DEF KeepsNames
<1>2. ASSUME NEW r \in ID, NEW f \in FileName,
             ApproveFile(r, f) \/ \E c \in Conn : OpenFile(c, r, f)
      PROVE  SavedSeen' /\ ClientsDurable'
  <2>1. CASE ApproveFile(r, f)
    BY <1>1, <2>1, DurableIfRefused DEF ApproveFile, Attempt, approveFile, Refused, dbVars, KeepsNames
  <2>2. CASE \E c \in Conn : OpenFile(c, r, f)
    BY <1>1, <2>2 DEF OpenFile, removeFile, saveFile
  <2> QED
    BY <1>2, <2>1, <2>2
<1>3. ASSUME NEW c \in Conn, WriteFile(c) \/ InsertFile(c) \/ RemoveRow(c)
      PROVE  SavedSeen' /\ ClientsDurable'
  <2>1. CASE Raises /\ Refused
    BY <2>1, DurableIfRefused DEF Raises, Refused, dbVars, KeepsNames
  <2>2. CASE ~Refused \/ ~Raises
    BY <1>1, <1>3, <2>2 DEF WriteFile, writeFile, InsertFile, InsertFileFails, insertFile, RemoveRow,
       Attempt, removeRow, Raises, dbVars
  <2> QED
    BY <2>1, <2>2
<1>4. CASE Enter
  <2>1. PICK r \in ID :
        \/ \E name \in Name : Registers(name, r) \/ SignPublicKey(r, name)
        \/ \E key \in Conn : SignAESKey(r, key)
        \/ \E f \in FileName : ApproveFile(r, f) \/ \E c \in Conn : OpenFile(c, r, f)
    BY <1>4 DEF Enter
  <2>2. CASE \E name \in Name : Registers(name, r)
    BY <2>2, RegistrationDurable
  <2>3. CASE (\E name \in Name : SignPublicKey(r, name)) \/ (\E key \in Conn : SignAESKey(r, key))
    BY <2>3, KeysDurable
  <2>4. CASE \E f \in FileName : ApproveFile(r, f) \/ \E c \in Conn : OpenFile(c, r, f)
    BY <2>4, <1>2
  <2> QED
    BY <2>1, <2>2, <2>3, <2>4
<1>5. CASE Holder
  BY <1>3, <1>5, RegistrationDurable DEF Holder
<1>6. CASE RegistrationFails
  <2>1. ID # {}
    BY <1>6 DEF RegistrationFails, InsertFails, CommitFails, AtInsert
  <2> QED
    BY <1>6, <2>1, RegistrationDurable DEF RegistrationFails
<1>7. CASE Fail \/ Recover \/ UNCHANGED outageVars
  BY <1>1, <1>7 DEF Fail, Recover, outageVars, vars
<1>8. CASE RestartFromSaved /\ UNCHANGED <<up, outages>>
  BY <1>8, RestartDurable
<1> QED
  BY <1>4, <1>5, <1>6, <1>7, <1>8 DEF OutageNext

\* Whoever was told an identifier has it after a restart, however many statements and
\* commits fail: no name gets into memory before its row is saved.
THEOREM ClientsStayDurable == OutageSpec => []ClientsDurable
<1>1. OutageInit => SavedSeen /\ ClientsDurable
  BY DEF OutageInit, Init, SavedSeen, ClientsDurable, HasName
<1> QED
  BY <1>1, DurableStep, TypesAlways, PTL DEF OutageSpec
----------------------------------------------------------------------------
(* Verified files *)

\* A file listed as verified, before and after the step.
Listed(g, list) == \E i \in DOMAIN list :
    list[i].ID = g.ID /\ list[i].fileName = g.fileName /\ list[i].verified

\* The list loses no verified file.
KeepsListed == \A g \in File : Listed(g, files) => Listed(g, files')

\* Enough that the table's verified rows were verified in it, or saved so, or are
\* listed.
LEMMA ProtectedIfKept ==
    ASSUME Types, Types', VerifiedProtected, KeepsListed, Commit \/ UNCHANGED saved,
           \A g \in dbFiles' : g.verified => g \in dbFiles \cup savedFiles \/ Listed(g, files')
    PROVE  VerifiedProtected'
<1> SUFFICES ASSUME NEW g \in dbFiles' \cup savedFiles', g.verified
             PROVE  Listed(g, files')
  BY DEF VerifiedProtected, Listed
<1>1. g \in File
  BY DEF Types, OutageTypeOK
<1>2. g \in dbFiles' \/ g \in savedFiles
  BY DEF Commit, saved
<1>3. g \in dbFiles \cup savedFiles => Listed(g, files)
  BY DEF VerifiedProtected, Listed
<1> QED
  BY <1>1, <1>2, <1>3 DEF KeepsListed

LEMMA ApproveProtects ==
    ASSUME Types, Types', VerifiedProtected, lock = Free, NEW r \in ID, NEW f \in FileName,
           ApproveFile(r, f)
    PROVE  VerifiedProtected'
<1>0. TypeOK
  BY StorageTyped DEF Free, TypeInv
<1>1. PICK i \in Matches(r, f) : files' = [files EXCEPT ![i].verified = TRUE]
  BY DEF ApproveFile, Attempt, approveFile
<1>2. i \in DOMAIN files /\ files \in Seq(File) /\ files[i].ID = r /\ files[i].fileName = f
  BY <1>0, EntryType DEF TypeOK
<1>3. /\ DOMAIN files' = DOMAIN files
      /\ \A j \in DOMAIN files : j # i => files'[j] = files[j]
      /\ files'[i] = [files[i] EXCEPT !.verified = TRUE]
  BY <1>1, <1>2
<1>4. files'[i].ID = r /\ files'[i].fileName = f /\ files'[i].verified
  BY <1>2, <1>3, ApprovedType
<1>5. KeepsListed
  BY <1>2, <1>3, <1>4 DEF KeepsListed, Listed
<1>6. \A g \in dbFiles' : g.verified => g \in dbFiles \cup savedFiles \/ Listed(g, files')
  <2>1. dbFiles' = validateFile(r, f) \/ dbFiles' \in {dbFiles, savedFiles}
    BY DEF ApproveFile, Attempt, approveFile, Refused, RolledBack, dbVars
  <2>2. CASE dbFiles' = validateFile(r, f)
    <3> SUFFICES ASSUME NEW g \in validateFile(r, f), g \notin dbFiles
                 PROVE  Listed(g, files')
      BY <2>2
    <3>1. PICK h \in dbFiles : g = [h EXCEPT !.verified = TRUE] /\ h.ID = r /\ h.fileName = f
      BY DEF validateFile
    <3>2. g.ID = r /\ g.fileName = f
      BY <1>0, <3>1, ApprovedType DEF TypeOK
    <3> QED
      BY <1>2, <1>3, <1>4, <3>2 DEF Listed
  <2> QED
    BY <2>1, <2>2
<1>7. Commit \/ UNCHANGED saved
  BY DEF ApproveFile, Attempt
<1> QED
  BY <1>5, <1>6, <1>7, ProtectedIfKept

LEMMA HolderProtects ==
    ASSUME Types, Types', VerifiedProtected, NEW c \in Conn,
           WriteFile(c) \/ InsertFile(c) \/ RemoveRow(c)
    PROVE  VerifiedProtected'
<1>1. ~NewFile.verified
  BY DEF NewFile
<1>2. Commit \/ UNCHANGED saved
  BY DEF WriteFile, InsertFile, InsertFileFails, RemoveRow, Attempt, Raises
<1>3. dbFiles' \subseteq dbFiles \cup savedFiles \cup {NewFile}
  <2>1. CASE Refused
    BY <2>1 DEF Refused, RolledBack, dbVars
  <2>2. CASE ~Refused
    BY <2>2 DEF WriteFile, writeFile, InsertFile, InsertFileFails, insertFile, RemoveRow, removeRow,
       deleteRow, Attempt, dbVars
  <2> QED
    BY <2>1, <2>2
<1>4. files' = files \/ files' = Append(files, NewFile)
  BY DEF WriteFile, writeFile, InsertFile, InsertFileFails, insertFile, RemoveRow, removeRow,
     Attempt, Raises
<1>5. KeepsListed
  <2>1. CASE files' = Append(files, NewFile)
    <3>1. \A i \in DOMAIN files : i \in DOMAIN files' /\ files'[i] = files[i]
      BY <2>1 DEF Types, OutageTypeOK
    <3> QED
      BY <3>1 DEF KeepsListed, Listed
  <2> QED
    BY <1>4, <2>1 DEF KeepsListed, Listed
<1> QED
  BY <1>1, <1>2, <1>3, <1>5, ProtectedIfKept

LEMMA RestartProtects ==
    ASSUME Types, RestartFromSaved
    PROVE  VerifiedProtected'
<1>1. Range(files') = savedFiles
  BY ListingOfRows DEF RestartFromSaved, Types
<1>2. dbFiles' = savedFiles /\ savedFiles' = savedFiles
  BY DEF RestartFromSaved, saved
<1>3. \A g \in savedFiles : \E i \in DOMAIN files' : files'[i] = g
  BY <1>1 DEF Range
<1> QED
  BY <1>2, <1>3 DEF VerifiedProtected

LEMMA ProtectedStep ==
    Types /\ VerifiedProtected /\ [OutageNext]_outageVars => VerifiedProtected'
<1> SUFFICES ASSUME Types, VerifiedProtected, [OutageNext]_outageVars
             PROVE  VerifiedProtected'
  OBVIOUS
<1>0. Types'
  BY TypesStep
<1>1. ASSUME UNCHANGED files, dbFiles' \in {dbFiles, savedFiles}, Commit \/ UNCHANGED saved
      PROVE  VerifiedProtected'
  <2>1. KeepsListed
    BY <1>1 DEF KeepsListed, Listed
  <2> QED
    BY <1>0, <1>1, <2>1, ProtectedIfKept
<1>2. ASSUME NEW name \in Name, NEW s \in ID,
             InsertFails(name) \/ CommitFails(name) \/ Registers(name, s)
      PROVE  VerifiedProtected'
  BY <1>1, <1>2 DEF InsertFails, CommitFails, Registers, Refused, RolledBack, dbVars
<1>3. ASSUME NEW r \in ID, NEW name \in Name, SignPublicKey(r, name)
      PROVE  VerifiedProtected'
  BY <1>1, <1>3 DEF SignPublicKey, Attempt, signPublicKey, ClientInMemory, Refused, RolledBack, dbVars
<1>4. ASSUME NEW r \in ID, NEW key \in Conn, SignAESKey(r, key)
      PROVE  VerifiedProtected'
  BY <1>1, <1>4 DEF SignAESKey, Attempt, signAESKey, ClientInMemory, Refused, RolledBack, dbVars
<1>5. ASSUME NEW c \in Conn, NEW r \in ID, NEW f \in FileName, OpenFile(c, r, f)
      PROVE  VerifiedProtected'
  BY <1>1, <1>5 DEF OpenFile, removeFile, saveFile
<1>6. CASE Enter
  <2>0. lock = Free
    BY <1>6 DEF Enter
  <2>1. PICK r \in ID :
        \/ \E name \in Name : Registers(name, r) \/ SignPublicKey(r, name)
        \/ \E key \in Conn : SignAESKey(r, key)
        \/ \E f \in FileName : ApproveFile(r, f) \/ \E c \in Conn : OpenFile(c, r, f)
    BY <1>6 DEF Enter
  <2>2. CASE \E name \in Name : Registers(name, r) \/ SignPublicKey(r, name)
    BY <2>2, <1>2, <1>3
  <2>3. CASE \E key \in Conn : SignAESKey(r, key)
    BY <2>3, <1>4
  <2>4. CASE \E f \in FileName : ApproveFile(r, f)
    BY <1>0, <2>0, <2>4, ApproveProtects
  <2>5. CASE \E f \in FileName : \E c \in Conn : OpenFile(c, r, f)
    BY <2>5, <1>5
  <2> QED
    BY <2>1, <2>2, <2>3, <2>4, <2>5
<1>7. CASE Holder
  BY <1>0, <1>2, <1>7, HolderProtects DEF Holder
<1>8. CASE RegistrationFails
  <2>1. ID # {}
    BY <1>8 DEF RegistrationFails, InsertFails, CommitFails, AtInsert
  <2> QED
    BY <1>2, <1>8, <2>1 DEF RegistrationFails
<1>9. CASE Fail \/ Recover \/ UNCHANGED outageVars
  BY <1>1, <1>9 DEF Fail, Recover, outageVars, vars
<1>10. CASE RestartFromSaved /\ UNCHANGED <<up, outages>>
  BY <1>10, RestartProtects
<1> QED
  BY <1>6, <1>7, <1>8, <1>9, <1>10 DEF OutageNext

\* A file that is verified in the table, seen or saved, is listed as verified, also
\* when the statement or the commit of its approval, or of its removal, fails, and
\* after a restart that loses what was pending.
THEOREM VerifiedStaysProtected == OutageSpec => []VerifiedProtected
<1>1. OutageInit => VerifiedProtected
  BY DEF OutageInit, Init, VerifiedProtected
<1> QED
  BY <1>1, ProtectedStep, TypesAlways, PTL DEF OutageSpec
=============================================================================
