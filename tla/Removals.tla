------------------------------ MODULE Removals ------------------------------
(***************************************************************************)
(* The storage with a memory of the one operation its bookkeeping does not *)
(* survive.  removeFile deletes a file before its row and never deletes    *)
(* its entry, and a restart makes the list shorter than the numbers in     *)
(* use; MCStaleEntry and MCPathReuse show what comes of that.  removed     *)
(* says whether a file was ever removed, so that the properties below can  *)
(* say that this alone is to blame: as long as nothing was removed, the    *)
(* process may die between any two effects of saveFile and approveFile,    *)
(* and be started again, without a row being parted from its file.         *)
(***************************************************************************)
EXTENDS MemoryManager

VARIABLE
    removed     \* a file was removed, in this run of the server or an earlier one

removalsVars == <<clients, files, lock, dbClients, dbFiles, disk, boots, removed>>

RemovalsInit == Init /\ removed = FALSE

\* removeFile holds the lock as "unlinked" from its os.remove on.
RemovalsNext == Next /\ removed' = (removed \/ lock'.step = "unlinked")

RemovalsSpec == RemovalsInit /\ [][RemovalsNext]_removalsVars

----------------------------------------------------------------------------
(* Properties *)

\* Until a file is removed, the list is the table, each row's file is on the disk
\* and no two rows are stored under one path, wherever a crash separated the
\* truncation, the write and the INSERT of saveFile, and whatever it left behind.
RowsKept == ~removed =>
    /\ Range(files) = dbFiles
    /\ \A g \in dbFiles : g.pathName \in DOMAIN disk
    /\ \A g, h \in dbFiles : g.pathName = h.pathName => g = h

\* Until a file is removed, what a client has approved is not overwritten, by
\* whatever any client sends in this run of the server or after a crash and a
\* restart.
VerifiedKept == [][~removed => KeepsVerified]_removalsVars
=============================================================================
