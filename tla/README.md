# SecuredFileTransfer: a TLA+ verification project

The repository holds a file-transfer service: a Windows client in C++
(`Client/`) and a threaded server in Python with an SQLite database
(`Server/`).  A client registers a user name once, sends an RSA public key on
every connection, gets an AES key back, sends one encrypted file, compares the
CRC the server computes with its own, and confirms the file (`CRC_OK`), sends it
again (`CRC_NOT_OK`, at most three times) or gives it up (`CRC_ERROR`).

This directory models the system in TLA+, checks it with TLC on small instances
and proves with TLAPS, for every instance, the safety properties of the storage (also
when the database fails), of the server's threads, of the framing on a connection, of the
checksum and of the whole system, up to what a user is finally told: that an approved file
is stored.  Storage, server and system implement an abstract specification of what the
server promises its users.

## 1. The system: components, state, operations

| Component | State | Operations | What makes it correct |
|---|---|---|---|
| **MemoryManager** (`Server/MemoryManager.py`) and **dbManager** (`Server/dbManager.py`), one object for all threads, one lock | `clients` (dict), `files` (list), `lock`; tables `clients`, `files`; the directory `serverFiles` | `regUser`, `signPublicKey`, `signAESKey`, `saveFile`, `approveFile`, `removeFile`; `__init__`/`loadDB` at a start | memory, tables and disk say the same, also when the process dies between two effects; a name is registered once; two files never share a path; what is verified is kept |
| **Server threads** (`Server/Server.py`), **handlers** (`Server/RequestProcessor.py`), **replies** (`Server/ResponseProcessor.py`) | per connection: `expectedReq`, `repeats`, the request in hand, the decrypted file | one handler per request code; `manageClient`'s loop; `listen` | the lock is never leaked; the protocol's order is enforced; every request is dealt with; a thread ends with its client |
| **Client program** (`Client/Client.cpp`, `Helper.cpp`, `SockHandler.cpp`) | where `main` is, `times`, the user identifier; the files `me.info` and `transfer.info` of its host | register, write and read `me.info`, send key, send file, compare CRC, resend, confirm or give up | it ends; it never waits for a reply that will not come; what it was told is approved is stored; `me.info` is what the server has |
| **Client's wire format** (`Client/RequestProcessor.cpp`, `Client/ResponseProcessor.cpp`) | none | `numberToBytes`, `padString`, `requestToString`, `getFilePayload`, `deserialize` | what one side writes is what the other reads |
| **Framing** (`Server.py:48-57,135`, `SockHandler.cpp:24-43`) | the bytes in the socket | `recv`, `read_some` | a request that was sent is received as one |
| **CRC** (`Server/crc.py`, `Client/crc.cpp`) | the running CRC | `update`, `digest` | both sides compute the same value |
| **Encryption wrappers** (`AESWrapper`, `RSAWrapper`, `Base64Wrapper`, `EncHelper`), **hex helpers** (`StringHelper`) | none | thin calls into Crypto++ | - |

The client and the server exchange one request and one reply at a time over one
TCP connection.  The threads of the server share nothing but the MemoryManager
(and through it the database and the disk); two runs of the client on one host
share `me.info`; two connections of one user share the user's row, its AES key
and its files.

What is hard here, and what the properties are aimed at (each is a hazard of
`PROJECT.json` with its line):

* *Interleaving.*  A handler takes the lock once or twice, and reads the AES key
  and decrypts without it.  Between two of these steps any other thread runs: the
  key of a client can be replaced by another connection of the same client, and a
  thread can enter `saveFile` long after its client died.
* *Three copies of one truth.*  List, table and disk are changed one after the
  other.  The process can die in between, and `removeFile` forgets one of them.
* *Silence.*  A raised exception is printed and the thread receives again: the
  server answers some requests with nothing, and the client has no timeout.  That
  no client hangs rests on both sides agreeing what comes next and how often.
* *Restart.*  `loadDB` brings back everything but the AES keys, in any order.
* *Failing statements.*  SQLite may refuse a statement or a commit; no method undoes
  what it did before, nothing is rolled back unless SQLite does so itself, and one INSERT is retried for ever with
  the lock held.
* *Encodings.*  Numbers and identifiers pass through C strings on the client.
* *Framing.*  The server counts calls of `recv` and not bytes, the client takes one
  `read_some` for a reply, and after an exception the server goes on wherever in the
  stream it is.
* *Checksum.*  Two hand-written tables of 256 words and a length of varying width must
  agree, and see what a transfer damages.

## 2. The modules

| Module | Models | Extends |
|---|---|---|
| `FileVault` | abstract specification: what the server promises its users | - |
| `MemoryManager` | storage; its refinement mapping to `FileVault` | instantiates `FileVault` |
| `Removals` | the storage, and whether a file was ever removed | `MemoryManager` |
| `MemoryManager_proofs` | theorems about both, and that the storage implements `FileVault` | `Removals`, TLAPS |
| `Outage` | the storage when statements and commits fail | `MemoryManager` |
| `Outage_proofs` | theorems about it | `Outage`, `MemoryManager_proofs` |
| `Server` | threads, handlers, connections, restart; composes the threads with the storage | `MemoryManager` |
| `Server_proofs` | theorems about it | `Server`, `MemoryManager_proofs` |
| `WireFormat` | number fields of requests and replies | - |
| `WireFormat_proofs` | theorems about it | `WireFormat`, TLAPS |
| `Framing` | one connection's two byte streams | - |
| `Framing_proofs` | theorems about it | `Framing`, TLAPS |
| `Crc` | the checksum, and its way into the client | instantiates `WireFormat` |
| `Crc_proofs` | theorems about it | `Crc`, TLAPS |
| `SecuredFileTransfer` | the client program; composes everything | `Server`, `WireFormat` |
| `SecuredFileTransfer_proofs` | theorems about it | `SecuredFileTransfer`, `Server_proofs` |
| `StoredFile_proofs` | that an approved file stays stored | `SecuredFileTransfer_proofs` |
| `MCMemoryManager`, `MCRemovals`, `MCOutage`, `MCServer`, `MCWireFormat`, `MCFraming`, `MCCrc`, `MCSecuredFileTransfer` | instances for TLC (symmetry sets, constant functions) | the module of that name |

The storage, the threads and the client are composed in one state machine.  `Framing`,
`Crc` and `Outage` look at one mechanism each below it: they justify, or bound, what the
composed model takes for granted (that a request is received as one; that two contents
with one checksum are equal; that statements succeed).

### FileVault: state and actions

`owner` gives each registered identifier its user's name, `received` and `approved` are
the files, each a pair of identifier and file name.  `Register` takes a fresh identifier
and a fresh name, `Receive` a file of a registered user that is neither received nor
approved, `Approve` a received file, `Remove` any file.  There is no list, dictionary,
disk, lock or restart.  `MemoryManager` maps it to its two tables (`Vault`) and states
`ImplementsVault == Vault!Spec`: no restart is a step of it, no step between the effects
of one method changes it, and no INSERT repeats a name, has no client, or has a row.

### MemoryManager: state and actions

`clients` is `self.clients`, a function from identifiers to records or
`NoClient`; `files` is the list `self.files`; `dbClients` and `dbFiles` are the
tables (`dbFiles` a set of rows); `disk` maps the existing paths to contents,
`Partial` standing for a file that has been truncated and not completely written;
`boots` counts restarts.  A public key is reduced to whether one was stored, an
AES key to the connection that generated it, `lastSeen` is left out.

`lock` is `Free` or says what its holder has still to do.  A method with one
visible effect, or whose effects are all in one commit, is one action
(`regUser`, `signPublicKey`, `signAESKey`, `approveFile`).  `saveFile` is three
(truncate; write; insert and append, only for a new file) and `removeFile` two
(unlink; delete the row), because the process can die between them.  Other
threads cannot run in between: every action but these needs `lock = Free`.
`approveFile` and the key methods change memory before the database; a crash in
between loses memory with the process, so that they are one action.  Two names
that are equal by chance of `uuid4` are excluded, as the code excludes them: the
INSERT fails and is tried again.

The guards follow the code to the letter where it is surprising: a client that
is only in the database passes the membership test but has no entry to assign to
(`signPublicKey`, `signAESKey`); the loops over `files` stop at the first match;
the file number starts at the length of the list; `removeFile` leaves the entry;
`removeFile` of a file that is not on the disk raises; `Restart` may deliver the
rows in any order and drops the AES keys.

### Removals: state and actions

`removed` becomes true when `removeFile` deletes a file, and stays so through restarts;
every step is one of `MemoryManager`.  The two `violation` runs on the storage begin with a
removal, because `removeFile` is the one operation that leaves the list and the table
apart.  The module says that this alone is to blame: as long as nothing was removed,
the process may die between any two effects of `saveFile`, and an orphan it left on the
disk push the file numbers away from the positions in the list, and still the list is
the table and each row has its file to itself (`RowsKept`), and no approved file is
overwritten (`VerifiedKept`).  They hold over restarts, where `PathsDistinct`,
`RowsOnDisk` and `VerifiedContentStable` say nothing; these three hold after removals.
What `RowsKept` does not say is that a row's file is complete: a crash in the middle of a
rewrite leaves it truncated, and a client may approve it in the server's next run.

### Outage: state and actions

While `up` is false each statement raises, or it succeeds and `conn.commit()` raises.  The
code never rolls back, so `dbClients` and `dbFiles` are what the one connection sees and
`savedClients` and `savedFiles` what is committed: each later commit saves all that is
pending (`Commit`), and `RestartFromSaved` loses what was not.  When another process holds
the file a failed commit leaves its changes pending (`Attempt`); when the disk is full
SQLite may roll back by itself all that is pending (`RolledBack`, a disjunct of `Refused`
beside the statement that changes nothing).  An exception leaves the
method where it is and the `finally` frees the lock (`Raises`): `ClientInMemory` and the
second disjunct of `ApproveFile` are the methods that have by then changed memory;
`InsertFileFails` leaves the file on the disk, with or without its row; `RemoveRow` fails
after the unlink.  In `insertClient` a failing INSERT is retried with the lock held
(`InsertFails`, a lock whose step is `inserting`), a failing commit is not
(`CommitFails`).  `Holder` is what the lock's holder does next, `Enter` every method's
first step.

Several properties of `MemoryManager` fail here, and none of them is claimed: after a
failed commit of a registration the name is in the table and not in memory, and the user
who tries again gets a second row of that name (`UniqueNames`); after a failed commit in
`insertFile` the row is there and the list has no entry, so that every later save of that
file name meets the PRIMARY KEY and leaves one more orphan on the disk until a restart
(`RowsListed`, `InsertIsNew`); orphans push the file numbers away from the positions in
the list, on which `PathsDistinct` and `VerifiedContentStable` rest before a restart.

### Server: state and actions

`session[c]` holds the locals of `manageClient` and a program counter; `inbox[c]`
the request the thread has received and not yet dealt with; `outbox[c]` the reply
its client has not yet read; `link[c]` how the client left the connection.

There is one action per section under the lock, plus one for what precedes it:
`Register`; `SignPublicKey`, `SignAESKey`; `Decrypt`, `SaveFile`, `WriteFile`,
`InsertFile`; `CrcOk`; `CrcNotOk`; `CrcError`, `RemoveRow`; `EndOfInput`.
`Refuse` is a request out of turn (or one resend too many): the exception reaches
`manageClient`, nothing is sent, the expectation is kept (`Raise`).
A public key that is not `usable` makes `SignAESKey` raise, in `importKey` before the new
key is stored or in `encrypt` after it, when the client has another key than its last
reply said.  `RefuseIllegal` is a payload the handler's method rejects, which depends on the
code: a failure reply, silence, or the end of the connection (`GiveUp`).  Each
handler has its failing branches as disjuncts.

The peer of `ServerSpec` is any program: it connects, sends any request of
`Requests(c)` with any identifier, reads the reply, disconnects at any moment.  It
knows only the AES key of its own connection, so that a file decrypted under
another key gives an exception or `Garbage`.  `ServerRestart` ends every thread
wherever it is; a reply already sent may still arrive.

A dead guard of the code is kept: `repeats > TIMES` in the handler of
`CRC_NOT_OK` (`Server.py:111`) can never hold, which `SendsCounted` shows.

### WireFormat

`numberToBytes` fills a buffer little-endian and returns
`std::string(resChar)`, which ends before the first zero byte; `padString` fills
up with zeros.  `Arrives(n)` is what the server reads for `n`.  The codes 1100 to
1106 and the version have no zero byte and arrive; the size of the file and of
the payload may not.  `FileFate(size)` says what follows for a file of a given
size: `handled`, `illegal` (the payload has not the announced file size: the
server closes the connection) or `misframed` (the announced payload is too
short: the server raises, and reads the rest of the payload as headers).
A reply's numbers, of one, two or four bytes, are packed by the server (`pack`) and read
by `deserialize`: each char is cast to a byte (`Operand`), shifted as an `int`
(`ShiftLeft`) and joined by `|=`.  Here a number is the set of the positions of its ones,
as in `Crc`, which sends its digest this way (`DigestArrives`): they arrive whatever they
are (`Returns`), thanks to the cast, since a `char` above 127 is negative and would bring
its sign along (`OperandSigned`).

### Framing: state and actions

The bytes of one connection are counted: `written` and `read` for the stream of requests,
`asked` the requests with their places in it, `back` the bytes of replies under way, each
labelled with its request.  `RecvHeader` takes one `recv` for a header and calls a short
one a bad request; `RecvPayload` is one turn of the loop, which counts calls of `recv` and
not bytes (`Looping`) and raises when it has too much (`TooLong`); `SetPayload` raises unless it has
exactly enough, else a handler answers or not and ends the connection or not;
`EndOfStream` is a `recv` of nothing.  An exception leaves the thread at a header wherever
`read` is: bytes that are no header announce any size of `PhantomSize`.  The client
writes whole requests (`Write`) and takes what one `read_some` returns for the reply
(`ReadSome`).  `faults` records which assumption of the code has been broken so far: a
short read, a size announced wrongly (which `WireFormat` shows to happen), a silent
handler (which `SecuredFileTransfer` shows not to happen to its client).

Asking `recv` for a whole block although less is missing is harmless only because a client
has one request outstanding: nothing of a next request is there to be read.  A short read
within a payload loses the request unless the slack of the last block takes it up.

### Crc: state and actions

A word is the set of positions of its ones, so that `^` is a symmetric difference.  `crctab`
is the table of `crc.py` (the one of `crc.cpp` has the same 256 words), `Update` the class's
`update`, `digest` its end with the bytes of the length.  Beside it `remainder` is the
content's remainder by long division, bit by bit, and `damaged` holds the words the same
content would have given with one burst of bits of at most four bytes flipped.  Zero bytes leave the word as it
is, so that contents of 254, 65,534 or 16,777,214 zero bytes are initial states.
`TableAssumption` says that each of the table's words is the remainder of its byte; it is a
closed statement about the 256 words written out in the module, which TLC evaluates, and
not a condition on anything.

### SecuredFileTransfer: state and actions

A run of the client is named by its connection.  `client[c].pc` is where `main`
is, `meInfo[h]` the file `me.info` of a host: `None`, `Partial` (opened and not
complete) or what it says.  From the arrival of a reply to the next request the
program touches nothing that others see, except `me.info`; so one action takes a
reply and sends the next request (`SendFirst`, `CompareCrc`, `Resend`), and the
accesses to `me.info` are actions of their own (`CheckInfo`, `Registered`,
`CreateInfo`, `LoadInfo`).  `ServerClosed` is the exception of
`SockHandler::request` after which the program exits.  `Crash` kills a run, at any moment
between two of these steps; its thread notices only when it receives again, and until
then goes on with the request in its hands.

`UserIds` is undefined behaviour: an identifier with a zero byte becomes a
`std::string` that is too short, and `string_to_hex` reads 16 bytes from it; any
identifier may come out.

## 3. What is checked

Every constant below is a bound of the instance, not of the specification.

| Run | Instance | Properties | Result |
|---|---|---|---|
| `storage` | 1 client, 3 file names, 1 restart | `TypeOK`, `OneEntryPerFile`, `RowsListed`, `InsertIsNew`, `PathsDistinct`, `RowsOnDisk`, `RowsKept`, `VerifiedContentStable`, `VerifiedKept`, `ImplementsVault` | hold (532,250 states) |
| `outage` | 1 thread, 2 identifiers, 1 name, 1 file name, 2 files on the disk, 1 outage, 1 restart | `OutageTypeOK`, `ClientsDurable`, `VerifiedProtected`, `LockReleased` | hold (121,294) |
| `server` | 2 connections, 1 identifier, 1 name, 1 file name, TIMES = 2, 1 restart | `ServerTypeOK`, `LockOwned`, `ReplyAgrees`, `SendsCounted`, `KeyLoaded`, `ThreadsServe` | hold (254,996) |
| `framing` | 2 requests, header and blocks of 2 bytes, replies of 2, `read_some` of 4, phantom sizes 0 and 3 | `TypeOK`, `InStep`, `OwnReply`, `CutAtBlock`, `Served`, `ThreadEnds` | hold (244,573) |
| `crc` | up to 5 bytes after 0, 254, 65,534 or 16,777,214 zero bytes, in buffers of 0, 1 and 4 bytes | `TypeOK`, `DigestIsRemainder`, `BurstsSeen`, `PaddingSeen`, `DigestArrives` | hold (1,484) |
| `two_users` | 3 runs on 2 hosts, one after the other on a host, 1 killed run, 1 restart, the code's TIMES = 4 and FILE_SENDING_TIMES = 3 | `NeverStuck`, `InfoIsRegistered`, `ApprovedUnlessKilled` | hold (302,663) |
| `overlap` | 2 overlapping runs of one user, one of them with a file whose size does not arrive, 1 killed run, 1 restart | `SystemTypeOK`, `NeverStuck`, `InfoIsRegistered`, `ClientsAgree`, `UniqueNames`, `Termination` | hold (9,719) |
| `stale_entry` | 1 client, 1 file | `ApprovalRecorded` | violated |
| `path_reuse` | 1 client, 2 files, 1 restart | `VerifiedContentKept` | violated |
| `late_thread` | 2 runs one after the other, 1 killed | `ApprovedIsStored` | violated |
| `zero_byte_id` | 2 runs, an identifier with a zero byte | `InfoIsRegistered` | violated |
| `size_lost` | sizes from 240 | `SizeArrives` | violated |

Why the bounds are enough.  *storage*: three file names are the least that lets
two files move past a third one's number, by removal, restart and a new file; the
paths of two clients are in different directories, so one client shows every
collision, and one content suffices because `Partial` and absence are told apart
from it.  *outage*: failures come in one stretch of time, in which any number of
statements fail; two identifiers let one name get two rows; two files let an orphan lie
beside a file that is listed.  *server*: two connections are enough for every pair of a
holder of the lock and another thread, and one identifier makes them meet in everything
(rows of two identifiers meet only in `regUser`, which `overlap` and `two_users` check);
TIMES = 2 lets a file be sent, rejected, resent and refused.  *framing*: two requests are
a request and the one that comes after what went wrong; with blocks of two bytes the
payloads of none, three and four bytes are empty, one and a half blocks and two, and the
lengths only matter by which is larger and which is a multiple of a block.  *crc*: every
state compares the table with long division for all 256 bytes, and the starts are those
where the length gets one byte more.  *two_users*: two runs of the same user (who share
`me.info`, the AES key and the file) and one of another, each of which may be the one that
is killed and leaves a thread behind; *overlap*: two are the least
that compete.  The limits on resends are those of the code because the properties are
about their agreement.  *One restart*: what a restart forgets (AES keys, the stale
entries, the order of the rows) it forgets the first time; a second one adds no new kind
of state.

`CHECK_DEADLOCK FALSE` appears where the environment may stop: in `server` every
connection is used once and a peer may disconnect for good, in `framing` the client has
made its requests, in `outage` identifiers and files are used up, in `crc` the content is
at its bound, in `size_lost` the file stops growing.  `SecuredFileTransfer` has the action
`Quiet` for the state where every run and every thread is over, and deadlock is checked.

### Fairness

`ServerFairness` is weak fairness of each thread's handler: the operating system
schedules every Python thread, and CPython's lock is handed over.  Weak fairness
is enough although a thread waiting for the lock is enabled only while it is
free: the lock is held from one state to the next only inside `saveFile` and
`removeFile`, which a connection enters at most TIMES + 1 times, so that from some
point on it is free for good.  No fair lock is assumed, and a server with an
endless stream of uploads would need one. Peers have no fairness: they may stop anywhere, which is
why `ThreadsServe` says that a thread ends only of connections a client has closed.  `SystemFairness` adds
weak fairness of each started program.  A start, a crash and a restart are never
forced.

`Framing` has weak fairness of the thread and of the client's wait: bytes that were written
arrive, and a call that can return does.  The client is never forced to write or to close.
`Outage` has weak fairness of the lock's holder and of `Recover`: an outage ends, though
at no particular time, and `insertClient`'s loop may fail as often as it likes before
(`RegistrationFails` is not fair).  Without the end of the outage `LockReleased` is false.

### Faulty definitions

Definitions under a comment that begins with "Faulty:" are plausible mistakes in
the code they stand next to: a dropped guard, a missing reset, an off-by-one.
They are used by no specification.  Putting one in the place of the definition it
varies makes the property named with it in `PROJECT.json` fail; this is how we
know that the property can fail.

### Findings

* `stale_entry`: `removeFile` leaves the entry in `self.files`
  (`MemoryManager.py:159-169`).  The client can send the file again: it is written
  but no row is inserted, and `approveFile` succeeds without updating a row.  At the next restart the file is unknown.
* `path_reuse`: the same entry keeps its path.  After a restart the list is shorter
  than the numbers in use, the path is given to another file, and a save of the
  removed file overwrites it, although `saveFile` is meant to refuse every save
  over a verified file.
* `late_thread`: the server's thread of a killed client holds a decrypted file; it
  can enter `saveFile` between the save and the approval of the user's next run.
  The content that is verified is not the one whose CRC was confirmed.
* `zero_byte_id`: `Client.cpp:42` cuts an identifier at a zero byte.
* `size_lost`: `RequestProcessor.cpp:69` loses the bytes after a zero byte.  A file
  whose encrypted size is a multiple of 256 (one size in sixteen) cannot be sent; a
  payload size such as 0x10003 misframes the connection and the client waits for ever.
* `README.md` says the RSA pair is generated by the server; it is generated by
  the client (`Helper.cpp:25`).

## 4. What is proved

The proofs are for every set of connections, hosts, identifiers, names, file names and
contents, finite or not, every `TIMES`, every length of headers, blocks and replies, and
any number of kills and restarts.  They assume what the modules assume of their
constants: the stand-ins for "nothing" are not data (`NoClientAssumption`,
`NoKeyAssumption`, `PartialAssumption`, `NoneAssumption`, `NoMessageAssumption`,
`NoInfoAssumption`), `TIMES` is positive, bounds and lengths are numbers, a reply fits in
the client's buffer, no content is so long that 32 bits cannot announce it (`SizeAssumption`
of `Crc`), decryption under a wrong key yields some content, and each run has a
host, a name, a file and a content.

**`MemoryManager_proofs`**, theorems of `Spec` and, the last two, of `RemovalsSpec`:

| Theorem | Says | Inductive invariant |
|---|---|---|
| `TypeCorrect` | `TypeOK` | `TypeInv`: `TypeOK` and the files table is finite, without which `Restart` could not list its rows |
| `ClientsConsistent` | `ClientsAgree`, `UniqueNames` | the two together: a name is unique because memory is searched and memory agrees with the table; memory goes on agreeing because the row found by name is the one inserted |
| `FilesConsistent` | `OneEntryPerFile`, `RowsListed`, `InsertIsNew` | the three together (`FilesInv`) |
| `PathsStayDistinct` | `PathsDistinct` | `FirstRun`: until the first restart an entry's file number is its position in the list (`Numbered`), the lock's holder writes under the next number or to its own entry (`LockNumbered`), and nothing else is on the disk (`DiskNumbered`) |
| `VerifiedStaysStable` | `VerifiedContentStable` | `FirstRun` and `RowsListed`: an open file is not that of a verified row |
| `RowsStayOnDisk` | `RowsOnDisk` | `FirstRun`, `FilesInv` and the property itself |
| `RowsStayKept`, `VerifiedStaysKept` | `RowsKept`, `VerifiedKept` | `RemovalsInv`: `TypeInv`, `FilesInv` and, until a removal, that list and table are the same (`ListIsTable`), that listed files are on the disk under paths of their own (`PathsHeld`), and that the lock's holder writes to a path no entry has or to that of an unverified entry (`OwnPath`) |

`PathsDistinct` alone is not inductive: nothing in it says why the number at which
the search for a free path stops is not the number of an entry whose file was
removed.  That the list never shrinks within one run of the server is what
`Numbered` records; after a restart it is false, and so is the property without
its reservation (`path_reuse`).  `RemovalsInv` has another reason for the same: without
removals every number of a row is still taken on the disk, so that the search does not
stop at it, wherever it starts.

**`Outage_proofs`**, theorems of `OutageSpec`: `OutageTypeCorrect`, `ClientsStayDurable`,
`VerifiedStaysProtected`.  `Types` adds that both copies of the files table are finite.
`ClientsDurable` is inductive with `SavedSeen` (a name that is saved is seen): a restart
makes the saved table the seen one, and a key that is set keeps the name
(`KeysKeepNames`).  `VerifiedProtected` is inductive as it stands; each step loses no
verified entry of the list (`KeepsListed`) and verifies no row that is not listed as
verified (`ProtectedIfKept`), because `approveFile` sets the flag in the list first.
Outside `insertClient`'s loop a step is one of the storage's, so that the lemmas of
`MemoryManager_proofs` give its types (`StorageTyped`).

**`Server_proofs`**, theorems of `ServerSpec`.  `ThreadsInv` says of every connection,
from the program counter of its thread, which request it has in hand, what it
expects and how many files it has received (`Phase`, `Counted`), and that it agrees
with the reply it has sent (`Agrees`).  There is a lemma for each group of handlers,
one for what peers do and one for a restart; `OneThread` reduces each to the
connection that moves.

* `ServerUsesStorage`: `ServerSpec` implies `Spec` of `MemoryManager`.  Every step of
  the server is a step of the storage or leaves it alone; this needs `ThreadsInv`,
  since the storage's actions range over identifiers, file names and contents of
  the right type and the handlers take theirs from requests and session locals.
  All theorems about the storage hold in the server by it (`ServerKeepsFiles`).
* `ServerTypeCorrect`, `RepliesAgree`, `SendsStayCounted`: from `ThreadsInv`.
* `LockStaysOwned`: `LockOwned` is inductive given `TypeOK` and `ThreadsInv`; each
  handler stays outside the lock, enters it, or leaves it (`OutsideLock`, `EntersLock`,
  `LeavesLock`), and a restart frees it and closes all threads.
* `KeyStaysLoaded`: `KeyLoaded` is inductive given `ClientsConsistent`, because
  `regUser` assigns a client without a key: it must not be one that had a key
  (`KeyStays`).  Only the second half of the key exchange makes a thread expect a file
  (`KeyedByKey`).

**The refinement of `FileVault`**: `StorageImplementsVault` in `MemoryManager_proofs`, `Spec`
implies `ImplementsVault`, and by `ServerUsesStorage` so does `ServerSpec`
(`ServerImplementsVault` in `Server_proofs`).  `Owner`, `Received`
and `Approved` are the refinement mapping.  The mapping reads the tables, and the methods
decide from memory, so each kind of step needs what makes the two agree: `regUser`
registers a fresh name by `ClientsAgree` and `UniqueNames`; `insertFile` receives a new
file by `InsertIsNew`, for a registered user by `SaverInTable`, an invariant of its own
(the saver was in the table when `saveFile` looked, and rows of clients are never
deleted); every other step leaves the three alone or is one of `Approve` and `Remove`.

**`Framing_proofs`**, theorems of `Framing!Spec`:

| Theorem | Says | Inductive invariant |
|---|---|---|
| `FramingTypeCorrect` | `TypeOK` | `StreamInv`: with `TypeOK`, the requests lie one after the other in what was written (`Layout`); `Position`, in `TypeOK`, is what keeps the thread's count of the payload right |
| `CutsAtBlocks` | `CutAtBlock` | `CutInv`: until a read is cut, a thread in a payload that is longer than announced has read whole blocks |
| `StaysInStep`, `RepliesAreOwn` | `InStep`, `OwnReply` | `StepInv`: as long as there is no fault all requests are handled and answered (`AllDone`), or the last one is somewhere between its first byte and its reply (`OneToDo`) |

They are what the composed model's whole messages rest on: nothing but a short read, a
misread size or a silent handler can break the correspondence of requests and replies.

**`SecuredFileTransfer_proofs`**, theorems of `SystemSpec`:

* `RunsInv` extends `ThreadsInv` by the client: a run that sends something other than a
  registration has an identifier, `me.info` is there when it is loaded, the AES key of a
  reply is that of the connection.  With it every step of the system is a step of the
  storage (`SystemUsesStorage`), so that all theorems about the storage hold, the vault is
  implemented (`SystemImplementsVault`) and the types are right (`SystemTypeCorrect`).
* `TalkInv` relates the two programs: for a run that waits, the request under way is one
  its thread will answer in its state (`Asked`), or the reply is one it expects (`Told`),
  or the thread has ended (`Ended`); `times` and `repeats` agree while it lasts; and
  `InfoIsRegistered`.  `HandlerDoes` first reduces every step of every handler to four
  effects (it works on, answers, ignores the request, or closes), and `NotIgnored` shows
  that a request that is `Asked` is never ignored.  From it: `InfoStaysRegistered` and
  `RunsNeverStuck`.
* These two assume `Compatible`, and each part is needed.  `FILE_SENDING_TIMES < TIMES`: a
  run that resends more often than the server takes files is refused in silence.  `ZeroByteID =
  {}`: with a cut identifier `me.info` is someone else's or nobody's (run `zero_byte_id`),
  and the public key that follows is met with silence.  No size of a run is `misframed`:
  the rest of such a payload is taken for headers and no reply comes.  The constants of
  the code satisfy the first; nothing in the code ensures the other two.

* `SystemKeepsServer`: `LockOwned`, `KeyLoaded`, `ReplyAgrees` and `SendsCounted` for
  `SystemSpec`.  Its programs are no peers of `ServerSpec`, because they take a reply and
  send the next request in one step; the lemmas about the handlers are the same, and the
  step of a program touches no thread but to give it a request (`ServerHolds`).

**`StoredFile_proofs`**: `ApprovedStaysStored`, `ApprovedUnlessKilled` for `SystemSpec`, for
every number of users, runs, kills and restarts of the server, under `Undisturbed`: the
programs are `Compatible` and the runs of a host follow one another.  Whoever is told that
its file is approved has it stored as long as no run of its own host is killed; any number
of other users' runs may be.  No single invariant says why the content on the disk is the
one whose checksum was confirmed.  The hosts none of whose runs has been killed so far
(`CalmHosts`) become fewer (`CalmShrinks`), so that what is said of them need only be kept
while they are calm; the proof goes in layers, each of which uses those before:

1. `HostInv`: a run that is not over has its host for itself, and no identifier is that
   of two hosts, whether it is in `me.info` or on its way there.  So runs that have the
   same identifier follow one another.  A request names the identifier of its host's
   `me.info` (`SenderInv`), also when its run is long dead, and that `me.info` is never
   written again (`CompleteStays`): so a thread left behind acts for its own user.
2. `ThreadInv`: for a calm host, the request in a thread's hands is the one its run waits
   for, the key the server has for the user is the one it gave this run, what the thread
   decrypts is what the run sent, and the run gets the right checksum: it never resends
   nor gives up, so that no file of it is removed.
3. `Spared`: what is removed belongs to a user without a calm host (`CalmUsers`).
   `StorageInv`: every file is under its owner's directory, every entry of a calm user has
   its row (which removals would break), and the file that the lock's holder writes is not
   an approved one.
4. `WriterIsRun` and `WritesItsOwn`: whoever is inside `saveFile` for a calm user is there
   for a run that waits for it, and whoever is there for another writes in another
   directory, so the path is no file of a calm run that has been told its own is saved.
5. `KeptInv`: from the reply to the file on, a row of the run's file has the run's content
   (`Kept`); from the reply to `CRC_OK` on it is verified too (`Stored`).

Each condition is needed.  With one killed run of the same user the file need not be the
one confirmed (`late_thread`), which is why `Calm` is part of the property; with two runs
of one user at once the thread of the one does what the late thread does there; and
`Compatible` is what the second layer's knowledge of the request in hand rests on.

**`Crc_proofs`**, theorems of `Crc!Spec` for contents of every length a 32-bit size can
announce, however cut into buffers: `CrcTypeCorrect`, `DigestStaysRemainder` (the digest by the table is that of long
division), `BurstsStaySeen` (any damage to at most four successive bytes changes the
digest), `PaddingStaysSeen` (so do up to 16 zero bytes more where the checksum is 0), `DigestsArrive` (the client
reads the digest the server computed; `WordReturns` is the case of four bytes).  The
invariant `CrcInv` says that the checksum is the remainder and differs from every damaged
word.  What carries it:

* A fold is turned into the words it goes through (`TurnFold`, `DivideBitFold`,
  `DivideFold`): the recursion in its definition has a solution (`FoldExists`), by induction
  over a set of numbers (`AllNumbers`, from the well-foundedness of the numbers).
* `TurnIsDivision`: one turn with the table is the division of one byte, because the eight
  bits that leave the word decide, with those of the byte, what is subtracted (`BitStep`),
  and the rest of the word only moves.  `TableAssumption` gives the table's words.
* `ByteInjective`: different words stay different.  `ByteBack`: words that agree in their
  lowest bits after a byte agreed in the lowest eight fewer before it, and saw the same
  subtractions; going back over four bytes from equal words, and forth again from equal
  words, two contents must be equal (`SameBytes`, `BurstDiffers`).  Five bytes are more than 32 bits can
  tell apart.
* For `PaddingSeen` the remainder says nothing, as zero bytes leave 0 as it is
  (`ZeroBytes`), and all rests on the turns `digest` adds for the length.  Two lengths at
  most 16 apart have different bytes: with as many bytes they differ in the lowest, by less
  than 256 (`SameLength`); where the longer has one byte more, the highest byte of the
  shorter has carried (`Longer`, `Carry`).  A leading zero byte makes the shorter as
  long as the longer without moving the word (`ZeroPrefix`), and from equal words at most
  four bytes to equal words are the same bytes (`SameFold`).  So `LengthsDiffer`.  It uses that `LengthBytes`
  takes at most four bytes of a length, as the 32-bit size field of a request ensures
(`SizeAssumption`).
  The property cannot be said of all contents (for every length some word of the checksum
  hides a zero byte more), nor of all numbers of zero bytes: `digest` takes the length's
  bytes lowest first, so that files of `n` and of `256 * n` zero bytes have the same
  checksum, as they have with POSIX `cksum`.

**`WireFormat_proofs`**: `RemainderRead`, the number the server reads for each 32-bit
number; `SmallFilesFate`, the fate of every file below 64 KB - 291.  `size_lost` shows
the least number that is lost, these say which are.  `RepliesRead`: the cast, the shifts
and the `|=` of `deserialize` give back every number of one, two or four bytes, because
the ranges of bits they fill do not meet and the cast leaves nothing above them.

## 5. What is only model-checked

* Liveness: `ThreadsServe`, `Termination`, `Served`, `LockReleased`, `ThreadEnds`.
  Fairness and ENABLED are out of the prover's reach.
* `TableAssumption`, by evaluation.
* That the properties of the violated runs fail is shown by their counterexamples.

## 6. What is not modelled

* *Encryption* (`RSAWrapper`, `AESWrapper`, `Base64Wrapper`, Crypto++, PyCryptodome):
  thin wrappers.  What decryption yields under the right key, a wrong key and no key
  is in `Decrypted` and `Decrypt`.
* *Names and file names* as bytes (padding with zeros, lengths, decoding) and the hex
  form of identifiers in `me.info` (`StringHelper`): names are values.
* *Collisions of the CRC*: in the composed model a CRC stands for the content it was
  computed from.  `Crc` says which damages cannot collide.
* *Failures together*: `Outage` has no threads and no client, `Framing` no contents; a
  failing database under the composed system, and a full disk in the middle of a write,
  are not combined with the rest (a write cut by the death of the process is).
* *A second server process* on the same database, and edits of its files by hand.
* `lastSeen`, logging and printing; project files and sample data.

## 7. What could come next

1. `Framing` under the composed system: one connection's streams in the place of `inbox`
   and `outbox`, with the faults of the framing as faults of the system.
2. `ApprovedStaysStored` when the runs of other hosts overlap: that the runs of a host
   follow one another is assumed of all hosts, and only the user's own should matter.
