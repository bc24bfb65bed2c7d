---------------------------- MODULE Attachments ----------------------------
(***************************************************************************)
(* Attachments: rows in the database and files in a private directory      *)
(* (bus/attachments.go, bus/attachments_archive.go, BackupBundle of        *)
(* bus/backup.go, the hourly collection of bus/maintenance.go).            *)
(*                                                                         *)
(* Four locks are involved: files.maintenance, which many share or one has *)
(* alone, the transaction of the scope (with SQLite the only connection),  *)
(* files.mu, and the backup lock, a lock file that a process outside the   *)
(* service may hold.  Waiting for a lock is a step of its own; the backup  *)
(* lock is only ever tried.  Ages count in what they decide: a file is     *)
(* "old" after an hour, a tombstone after 30 days.                         *)
(***************************************************************************)
EXTENDS Naturals, FiniteSets

CONSTANTS
  AttachmentIds,   \* random IDs: a used one never comes back
  UploadKeys,      \* idempotency keys of uploads
  Requests,        \* requests under way at once
  Backends,        \* "sqlite" or "postgres"
  Nobody,          \* no holder, no ID, no key
  MaxAttachments,  \* the record limit of the workspace
  MaxFaults        \* bound: crashes of the service and backups from outside

ASSUME AttachmentsAssumption ==
  /\ Backends \subseteq {"sqlite", "postgres"}
  /\ {MaxAttachments, MaxFaults} \subseteq Nat
  /\ "collector" \notin Requests /\ "outside" \notin Requests
  /\ Nobody \notin Requests \cup AttachmentIds \cup UploadKeys \cup {"collector", "outside"}

VARIABLES
  backend,      \* where the rows are
  rows,         \* the attachments table
  files,        \* the directory: "none", "fresh" or "old" per ID
  doubt,        \* commits whose answer was lost: the database still decides
  lost,         \* history: IDs whose file went before such a commit, of an
                \* import that had taken it over, was decided
  sharing,      \* who has files.maintenance for reading
  alone,        \* who has it for writing
  tx,           \* who has the transaction of the scope
  mu,           \* who has files.mu
  backupLock,   \* who has the backup lock
  calls,        \* the steps of the requests, the collector and the backup
  copy,         \* the last finished backup: its live rows and its files
  faults        \* bound: crashes and backups from outside so far

attachmentVars ==
  <<backend, rows, files, doubt, lost, sharing, alone, tx, mu, backupLock, calls, copy, faults>>

Callers == Requests \cup {"collector", "outside"}

NoRowFor(state) == [state |-> state, key |-> Nobody, old |-> FALSE]
NoRequest == [pc |-> "idle", op |-> Nobody, id |-> Nobody, key |-> Nobody, found |-> {}]

Live == {i \in AttachmentIds : rows[i].state = "live"}
Records == {i \in AttachmentIds : rows[i].state \in {"live", "deleted"}}
Files == {i \in AttachmentIds : files[i] # "none"}

AttachmentsInit ==
  /\ backend \in Backends
  /\ rows = [i \in AttachmentIds |-> NoRowFor("absent")]
  /\ files = [i \in AttachmentIds |-> "none"]
  /\ doubt = {} /\ lost = {} /\ sharing = {} /\ faults = 0
  /\ alone = Nobody /\ tx = Nobody /\ mu = Nobody /\ backupLock = Nobody
  /\ calls = [c \in Callers |-> NoRequest]
  /\ copy = [rows |-> {}, files |-> {}]

At(c, pc) == calls[c].pc = pc
Go(c, pc) == calls' = [calls EXCEPT ![c].pc = pc]

(* The deferred unlocks and the rollback of whatever is open.              *)
Release(c) ==
  /\ sharing' = sharing \ {c}
  /\ alone' = IF alone = c THEN Nobody ELSE alone
  /\ tx' = IF tx = c THEN Nobody ELSE tx
  /\ mu' = IF mu = c THEN Nobody ELSE mu
  /\ backupLock' = IF backupLock = c THEN Nobody ELSE backupLock
  /\ calls' = [calls EXCEPT ![c] = NoRequest]
  /\ UNCHANGED <<backend, faults>>

Locks == <<sharing, alone, tx, mu, backupLock>>
Tables == <<backend, rows, files, doubt, lost, copy, faults>>

-----------------------------------------------------------------------------
(* Requests.                                                               *)

(* An upload has a new random ID.  An import has the IDs of its archive,    *)
(* which may have files from an import that was rolled back.               *)
Start(c, op, id, key) ==
  /\ At(c, "idle")
  /\ op = "upload" => /\ rows[id].state = "absent" /\ files[id] = "none"
                      /\ \A d \in doubt : d.id # id
                      /\ \A b \in Requests : calls[b].id # id
  /\ calls' = [calls EXCEPT ![c] =
       [NoRequest EXCEPT !.pc = "maintenance", !.op = op, !.id = id, !.key = key]]
  /\ UNCHANGED <<Locks, Tables>>

(* A deletion and the collection take the lock alone, the others share it; *)
(* one that waits to have it alone keeps new ones out (sync.RWMutex).      *)
Exclusive(c) == calls[c].op \in {"delete", "collect"}

LockMaintenance(c) ==
  /\ At(c, "maintenance")
  /\ alone = Nobody
  /\ \/ Exclusive(c) /\ sharing = {} /\ alone' = c /\ UNCHANGED sharing
     \/ /\ ~Exclusive(c) /\ \A d \in Callers : Exclusive(d) => ~At(d, "maintenance")
        /\ sharing' = sharing \cup {c} /\ UNCHANGED alone
  /\ Go(c, IF calls[c].op = "collect" THEN "mu" ELSE "tx")
  /\ UNCHANGED <<tx, mu, backupLock, Tables>>

(* A transaction whose commit is in doubt holds the scope until then.      *)
Begin(c) ==
  /\ At(c, "tx")
  /\ tx = Nobody /\ doubt = {}
  /\ tx' = c
  /\ Go(c, "rows")
  /\ UNCHANGED <<sharing, alone, mu, backupLock, Tables>>

(* An upload looks for its key and for room, a deletion marks the row and  *)
(* commits, a bundle takes its snapshot of the database, a read and an     *)
(* export look up their rows.                                              *)
SameKey(key) == {i \in Records : key # Nobody /\ rows[i].key = key}

Rows(c) ==
  LET call == calls[c] IN
  /\ At(c, "rows")
  /\ \/ /\ call.op \in {"upload", "import"}
        /\ IF SameKey(call.key) # {} \/ Cardinality(Records) >= MaxAttachments
              \/ call.id \in Records
           THEN Release(c)
           ELSE Go(c, "mu") /\ UNCHANGED <<Locks, backend, faults>>
        /\ UNCHANGED rows
     \/ /\ call.op = "read"
        /\ IF call.id \in Live
           THEN Go(c, "mu") /\ UNCHANGED <<Locks, backend, faults>>
           ELSE Release(c)
        /\ UNCHANGED rows
     \/ /\ call.op = "delete"
        /\ IF call.id \in Live
           THEN /\ rows' = [rows EXCEPT ![call.id].state = "deleted"]
                /\ tx' = Nobody
                /\ Go(c, "mu")
                /\ UNCHANGED <<sharing, alone, mu, backupLock, backend, faults>>
           ELSE Release(c) /\ UNCHANGED rows
     \/ /\ call.op = "bundle"
        /\ calls' = [calls EXCEPT ![c].pc = "mu", ![c].found = Live]
        /\ tx' = Nobody
        /\ UNCHANGED <<sharing, alone, mu, backupLock, backend, faults, rows>>
  /\ UNCHANGED <<files, doubt, lost, copy>>

LockFiles(c) ==
  /\ At(c, "mu")
  /\ mu = Nobody
  /\ mu' = c
  /\ Go(c, "files")
  /\ UNCHANGED <<sharing, alone, tx, backupLock, Tables>>

(* Fault: the file of a deleted attachment goes even during a backup.      *)
Unlink_Anyway(id) == files' = [files EXCEPT ![id] = "none"]

(* The file goes unless a backup is being taken.                           *)
Unlink(id) == files' = IF backupLock = Nobody THEN [files EXCEPT ![id] = "none"] ELSE files

(* An import checks the file of an earlier one and takes it over ("found").*)
TakeOver(c) ==
  /\ calls[c].id \in Files /\ calls[c].op = "import"
  /\ calls' = [calls EXCEPT ![c].pc = "commit", ![c].found = {calls[c].id}]
  /\ UNCHANGED <<Locks, backend, faults, files>>

(* The file is durable before its row commits.  Without the backup lock or *)
(* enough disk, or when the check or the write fails, the request fails.   *)
WriteFile(c) ==
  /\ At(c, "files") /\ calls[c].op \in {"upload", "import"}
  /\ \/ TakeOver(c)
     \/ /\ calls[c].id \notin Files /\ backupLock = Nobody
        /\ files' = [files EXCEPT ![calls[c].id] = "fresh"]
        /\ Go(c, "commit")
        /\ UNCHANGED <<Locks, backend, faults>>
     \/ Release(c) /\ UNCHANGED files
  /\ UNCHANGED <<rows, doubt, lost, copy>>

Committing(id, key) == rows' = [rows EXCEPT ![id] = [NoRowFor("live") EXCEPT !.key = key]]

(* The commit of an upload or an import succeeds, fails or, with Postgres, *)
(* loses its answer: the locks of the service go, the transaction stays.   *)
CommitUpload(c) ==
  LET call == calls[c] IN
  /\ At(c, "commit")
  /\ \/ Committing(call.id, call.key) /\ UNCHANGED doubt
     \/ UNCHANGED <<rows, doubt>>
     \/ /\ backend = "postgres"
        /\ doubt' = doubt \cup {[id |-> call.id, key |-> call.key, reused |-> call.found # {}]}
        /\ UNCHANGED rows
  /\ Release(c)
  /\ UNCHANGED <<files, lost, copy>>

(* The collection has removed the file, or is about to.                    *)
Unlinked(id) == id \notin Files \/ id \in calls["collector"].found

(* The database ends the transaction one way or the other.                 *)
Decide(d) ==
  /\ d \in doubt
  /\ doubt' = doubt \ {d}
  /\ \/ /\ Committing(d.id, d.key)
        /\ lost' = IF d.reused /\ Unlinked(d.id) THEN lost \cup {d.id} ELSE lost
     \/ UNCHANGED <<rows, lost>>
  /\ UNCHANGED <<backend, files, Locks, calls, copy, faults>>

(* The rest of the other requests.                                         *)
Finish(c) ==
  /\ At(c, "files")
  /\ \/ calls[c].op = "read" /\ UNCHANGED <<files, copy>>
     \/ calls[c].op = "delete" /\ Unlink(calls[c].id) /\ UNCHANGED copy
     \/ /\ calls[c].op = "bundle"
        /\ copy' = [rows |-> calls[c].found, files |-> calls[c].found \cap Files]
        /\ UNCHANGED files
  /\ Release(c)
  /\ UNCHANGED <<rows, doubt, lost>>

(* The service stops: its locks go with it, the commits in doubt do not.   *)
Crash ==
  /\ faults < MaxFaults /\ faults' = faults + 1
  /\ \E c \in Requests : ~At(c, "idle")
  /\ sharing' = {} /\ alone' = Nobody /\ tx' = Nobody /\ mu' = Nobody
  /\ backupLock' = IF backupLock = "outside" THEN "outside" ELSE Nobody
  /\ calls' = [c \in Callers |-> IF c = "outside" THEN calls[c] ELSE NoRequest]
  /\ UNCHANGED <<backend, rows, files, doubt, lost, copy>>

-----------------------------------------------------------------------------
(* The collection, once an hour.                                           *)

(* Fault: it runs beside the requests.                                     *)
StartCollection_Shared ==
  /\ At("collector", "idle")
  /\ calls' = [calls EXCEPT !["collector"] = [NoRequest EXCEPT !.pc = "mu", !.op = "collect"]]
  /\ UNCHANGED <<Locks, Tables>>

StartCollection ==
  /\ At("collector", "idle")
  /\ calls' = [calls EXCEPT !["collector"] = [NoRequest EXCEPT !.pc = "maintenance", !.op = "collect"]]
  /\ UNCHANGED <<Locks, Tables>>

(* Fault: a file without a row goes whatever its age.                      *)
Garbage_AnyAge == {i \in Files : rows[i].state # "live"}

(* Fault: only the files of deleted rows go.                               *)
Garbage_DeletedOnly == {i \in Files : rows[i].state = "deleted"}

Garbage == {i \in Files : rows[i].state = "deleted" \/ (i \notin Records /\ files[i] = "old")}

(* With SQLite the query needs the connection.                             *)
Query ==
  /\ At("collector", "files")
  /\ \/ /\ backupLock # Nobody
        /\ Release("collector")
     \/ /\ backupLock = Nobody
        /\ backend = "sqlite" => tx = Nobody
        /\ backupLock' = "collector"
        /\ calls' = [calls EXCEPT !["collector"].pc = "unlink", !["collector"].found = Garbage]
        /\ UNCHANGED <<sharing, alone, tx, mu, backend, faults>>
  /\ UNCHANGED <<rows, files, doubt, lost, copy>>

(* The files go, then the tombstones that are old enough.                  *)
Collect ==
  /\ At("collector", "unlink")
  /\ files' = [i \in AttachmentIds |-> IF i \in calls["collector"].found THEN "none" ELSE files[i]]
  /\ rows' = [i \in AttachmentIds |->
       IF rows[i].state = "deleted" /\ rows[i].old THEN NoRowFor("purged") ELSE rows[i]]
  /\ Release("collector")
  /\ UNCHANGED <<doubt, lost, copy>>

-----------------------------------------------------------------------------
(* deploy/hosted/backup.py: it holds the backup lock while it dumps the     *)
(* Postgres database and then copies the directory.                        *)
LockBackup ==
  /\ backend = "postgres" /\ faults < MaxFaults
  /\ At("outside", "idle") /\ backupLock = Nobody
  /\ backupLock' = "outside"
  /\ faults' = faults + 1
  /\ Go("outside", "dump")
  /\ UNCHANGED <<sharing, alone, tx, mu, backend, rows, files, doubt, lost, copy>>

Dump ==
  /\ At("outside", "dump")
  /\ calls' = [calls EXCEPT !["outside"].pc = "copy", !["outside"].found = Live]
  /\ UNCHANGED <<Locks, Tables>>

CopyFiles ==
  /\ At("outside", "copy")
  /\ copy' = [rows |-> calls["outside"].found, files |-> Files]
  /\ Release("outside")
  /\ UNCHANGED <<rows, files, doubt, lost>>

(* Time passes: an hour for a file, and the request that wrote it has      *)
(* ended by then and its commit been decided, and 30 days for a tombstone. *)
(* A request that took the file over may still be under way.               *)
Age(i) ==
  /\ \/ /\ files[i] = "fresh"
        /\ \A d \in doubt : d.id = i => d.reused
        /\ \A c \in Requests : At(c, "commit") /\ calls[c].id = i => calls[c].found # {}
        /\ files' = [files EXCEPT ![i] = "old"] /\ UNCHANGED rows
     \/ /\ rows[i].state = "deleted" /\ ~rows[i].old
        /\ rows' = [rows EXCEPT ![i].old = TRUE] /\ UNCHANGED files
  /\ UNCHANGED <<backend, doubt, lost, Locks, calls, copy, faults>>

StepOf(c) ==
  \/ LockMaintenance(c) \/ Begin(c) \/ Rows(c) \/ LockFiles(c)
  \/ WriteFile(c) \/ CommitUpload(c) \/ Finish(c)

Collection == StartCollection \/ LockMaintenance("collector") \/ LockFiles("collector") \/ Query \/ Collect

AttachmentsNext ==
  \/ \E c \in Requests, id \in AttachmentIds :
       \/ \E key \in UploadKeys \cup {Nobody}, op \in {"upload", "import"} :
            Start(c, op, id, key)
       \/ \E op \in {"read", "delete"} : Start(c, op, id, Nobody)
  \/ \E c \in Requests : StepOf(c) \/ (backend = "sqlite" /\ Start(c, "bundle", Nobody, Nobody))
  \/ \E d \in doubt : Decide(d)
  \/ Crash \/ Collection
  \/ LockBackup \/ Dump \/ CopyFiles
  \/ \E i \in AttachmentIds : Age(i)

AttachmentsSpec == AttachmentsInit /\ [][AttachmentsNext]_attachmentVars

(* Goroutines and the process outside go on, the collection gets its locks *)
(* in turn, and not every one of its runs meets a backup. That it starts   *)
(* over and over is said where the attachments are used.                   *)
AttachmentsFairness ==
  /\ \A c \in Requests : WF_attachmentVars(StepOf(c))
  /\ SF_attachmentVars(LockMaintenance("collector"))
  /\ SF_attachmentVars(LockFiles("collector"))
  /\ SF_attachmentVars(Query) /\ WF_attachmentVars(Collect)
  /\ WF_attachmentVars(Dump) /\ WF_attachmentVars(CopyFiles)
  /\ \A i \in AttachmentIds : WF_attachmentVars(Age(i))
  /\ WF_attachmentVars(\E d \in doubt : Decide(d))

-----------------------------------------------------------------------------
Places == {"idle", "maintenance", "tx", "rows", "mu", "files", "commit", "unlink", "dump", "copy"}
Operations == {"upload", "import", "read", "delete", "bundle", "collect"}

AttachmentsTypeOK ==
  /\ backend \in {"sqlite", "postgres"}
  /\ rows \in [AttachmentIds -> [state : {"absent", "live", "deleted", "purged"},
                                 key : UploadKeys \cup {Nobody}, old : BOOLEAN]]
  /\ files \in [AttachmentIds -> {"none", "fresh", "old"}]
  /\ doubt \subseteq [id : AttachmentIds, key : UploadKeys \cup {Nobody}, reused : BOOLEAN]
  /\ lost \subseteq AttachmentIds
  /\ sharing \subseteq Callers
  /\ {alone, tx, mu, backupLock} \subseteq Callers \cup {Nobody}
  /\ calls \in [Callers -> [pc : Places, op : Operations \cup {Nobody},
                            id : AttachmentIds \cup {Nobody}, key : UploadKeys \cup {Nobody},
                            found : SUBSET AttachmentIds]]
  /\ copy \in [rows : SUBSET AttachmentIds, files : SUBSET AttachmentIds]
  /\ faults \in Nat

(* "An interrupted/ambiguous commit may leave an orphan, never a committed *)
(* record pointing to a partial file" (attachments.go:353): a row that can *)
(* be read has its file, whatever becomes of commits, service and          *)
(* collection.                                                             *)
RecordsHaveFiles == Live \subseteq Files

(* But for a file that an import took over and the collection removed      *)
(* while the commit of the import was in doubt.                            *)
LiveHasFile == Live \ lost \subseteq Files

(* A backup holds the file of every row that it holds as live, whatever is *)
(* deleted or collected while it is taken (BackupBundle, backupLock).      *)
BackupWhole == copy.rows \ lost \subseteq copy.files

(* Nobody waits for files.mu with the connection while another waits for   *)
(* the connection with files.mu, although the collection takes the two the *)
(* other way round.                                                        *)
LocksAcyclic ==
  ~ \E c, d \in Callers :
      /\ tx = c /\ At(c, "mu")
      /\ mu = d /\ d = "collector" /\ At(d, "files") /\ backend = "sqlite"

(* Files that belong to no readable row go in the end: those of deleted    *)
(* rows, of uploads that failed and of a service that stopped.             *)
GarbageGoes ==
  \A i \in AttachmentIds : (i \in Files \ Live) ~> (i \notin Files \/ i \in Live)

(* A row that a reader can see has its file, in the directory and in a     *)
(* restored backup, also when its commit was in doubt while the collection *)
(* ran, and after a crash anywhere (UploadAttachment,                      *)
(* CollectAttachmentGarbage and deploy/hosted/backup.py); but for a file   *)
(* that an import took over and the collection removed while the commit of *)
(* the import was in doubt, of which RecordsHaveFiles tells.               *)
RowsHaveFiles == LiveHasFile /\ BackupWhole
=============================================================================
