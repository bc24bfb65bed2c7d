-------------------------- MODULE ScopeDataProofs --------------------------
(***************************************************************************)
(* Proofs about the data that a scope keeps besides its messages: Channels *)
(* for any number of posts, subscribers and notifications, and Attachments *)
(* for any number of attachments, requests, crashes and backups, with      *)
(* SQLite and with Postgres.                                               *)
(*                                                                         *)
(* Attachments.  The argument is about who may hold which locks where in   *)
(* its code, and about what the locks then keep still: a file goes only by *)
(* a caller that has files.maintenance alone and while no backup from      *)
(* outside is taken; a row is committed only by the owner of the           *)
(* transaction, which shares files.maintenance, or by the database for a   *)
(* commit in doubt, which keeps every transaction of the scope out.        *)
(*                                                                         *)
(* Channels.  Every post has the notifications of its audience, which are  *)
(* as many as the subscribers and not two for one, and every notification  *)
(* that is not finished names a post made at most a week and a transaction *)
(* before it expires.  The rest of the scope goes on around the channels:  *)
(* it creates and finishes messages and takes none away (ChannelsSpec).    *)
(***************************************************************************)
EXTENDS Channels, Attachments, DeliveryProofs

-----------------------------------------------------------------------------
(* Where each caller can be.                                               *)
Placed ==
  /\ \A c \in Requests :
       \/ At(c, "idle")
       \/ /\ calls[c].pc \in {"maintenance", "tx", "rows", "mu", "files", "commit"}
          /\ calls[c].op \in {"upload", "import", "read", "delete", "bundle"}
          /\ calls[c].op # "bundle" => calls[c].id \in AttachmentIds
          /\ At(c, "commit") => calls[c].op \in {"upload", "import"}
  /\ \/ At("collector", "idle")
     \/ /\ calls["collector"].pc \in {"maintenance", "mu", "files", "unlink"}
        /\ calls["collector"].op = "collect"
  /\ calls["outside"].pc \in {"idle", "dump", "copy"}

(* It then has files.maintenance, an operation that goes on in the         *)
(* transaction still has that, and nothing begins while a commit is in     *)
(* doubt.                                                                  *)
Inside(c) == calls[c].pc \notin {"idle", "maintenance"}
InTx(c) == \/ At(c, "rows")
           \/ /\ calls[c].pc \in {"mu", "files", "commit"}
              /\ calls[c].op \in {"upload", "import", "read"}

Locked ==
  /\ \A c \in Requests \cup {"collector"} :
       Inside(c) => IF Exclusive(c) THEN alone = c ELSE c \in sharing
  /\ alone # Nobody => sharing = {}
  /\ \A c \in Requests : InTx(c) => tx = c
  /\ doubt # {} => tx = Nobody
  /\ At("collector", "unlink") => backupLock = "collector"
  /\ calls["outside"].pc \in {"dump", "copy"} => backupLock = "outside"

(* What each request relies on once it has looked at its row.              *)
WorkSound(c) ==
  LET call == calls[c] IN
  /\ call.op \in {"upload", "import"} /\ call.pc \in {"mu", "files", "commit"}
       => call.id \notin Records
  /\ call.pc = "commit" => /\ call.id \in Files
                           /\ call.found = {} => files[call.id] = "fresh"
  /\ call.op = "delete" /\ call.pc \in {"mu", "files"} => rows[call.id].state = "deleted"
  /\ call.op = "bundle" /\ call.pc \in {"mu", "files"} => call.found \ lost \subseteq Files

(* A commit in doubt is the only one, and a file that its request wrote is *)
(* not collected.                                                          *)
DoubtSound ==
  /\ \A d \in doubt : d.id \notin Records /\ (~d.reused => files[d.id] = "fresh")
  /\ \A d, e \in doubt : d = e

(* What the collection is about to remove is nobody's, or an import's that *)
(* took it over, and what a backup has dumped is there to be copied, unless*)
(* it was lost like that.                                                  *)
CollectionSound ==
  At("collector", "unlink") =>
    \A i \in calls["collector"].found :
      i \notin Live \ lost /\ \A d \in doubt : d.id = i => d.reused

DumpSound == At("outside", "copy") => calls["outside"].found \ lost \subseteq Files

AttachmentsInv ==
  /\ AttachmentsTypeOK /\ Placed /\ Locked
  /\ \A c \in Requests : WorkSound(c)
  /\ DoubtSound /\ CollectionSound /\ DumpSound
  /\ LiveHasFile /\ BackupWhole
Data == /\ \A c \in Requests : WorkSound(c)
        /\ DoubtSound /\ CollectionSound /\ DumpSound
        /\ LiveHasFile /\ BackupWhole

CallRows == [pc : Places, op : Operations \cup {Nobody}, id : AttachmentIds \cup {Nobody},
             key : UploadKeys \cup {Nobody}, found : SUBSET AttachmentIds]

-----------------------------------------------------------------------------
(* What the two ways to go on do to the calls and the locks.               *)

(* A caller that goes on keeps all but its place, and the others stay.     *)
LEMMA GoOn ==
  ASSUME AttachmentsTypeOK, NEW c \in Callers, NEW pc \in Places, Go(c, pc)
  PROVE  /\ calls' \in [Callers -> CallRows]
         /\ calls'[c].pc = pc /\ calls'[c].op = calls[c].op /\ calls'[c].id = calls[c].id
         /\ calls'[c].found = calls[c].found
         /\ \A b \in Callers : b # c => calls'[b] = calls[b]
  BY DEF AttachmentsTypeOK, Go, CallRows

(* One that also remembers what it found keeps the rest.                   *)
Finds(c, pc, S) == calls' = [calls EXCEPT ![c].pc = pc, ![c].found = S]

(* That is a step of this caller alone, too.                               *)
LEMMA GoOnFinding ==
  ASSUME AttachmentsTypeOK, NEW c \in Callers, NEW pc \in Places, NEW S \in SUBSET AttachmentIds,
         Finds(c, pc, S)
  PROVE  /\ calls' \in [Callers -> CallRows]
         /\ calls'[c].pc = pc /\ calls'[c].op = calls[c].op /\ calls'[c].id = calls[c].id
         /\ calls'[c].found = S
         /\ \A b \in Callers : b # c => calls'[b] = calls[b]
  BY DEF AttachmentsTypeOK, Finds, CallRows

(* One that is finished is idle and frees its own locks.                   *)
LEMMA Releases ==
  ASSUME AttachmentsTypeOK, NEW c \in Callers, Release(c)
  PROVE  /\ calls' \in [Callers -> CallRows]
         /\ calls'[c].pc = "idle"
         /\ \A b \in Callers : b # c => calls'[b] = calls[b]
         /\ sharing' \subseteq Callers /\ {alone', tx', mu', backupLock'} \subseteq Callers \cup {Nobody}
         /\ sharing' = sharing \ {c}
         /\ alone # c => alone' = alone
         /\ alone = c => alone' = Nobody
         /\ tx # c => tx' = tx
         /\ tx = c => tx' = Nobody
         /\ backupLock # c => backupLock' = backupLock
         /\ UNCHANGED <<backend, faults>>
  <1>1. NoRequest \in CallRows /\ NoRequest.pc = "idle"
    BY DEF NoRequest, CallRows, Places
  <1> QED BY <1>1 DEF AttachmentsTypeOK, Release, CallRows

(* The callers are apart from each other and from nobody.                  *)
LEMMA Apart ==
  /\ Nobody \notin Callers
  /\ "collector" \notin Requests /\ "outside" \notin Requests
  /\ Requests \subseteq Callers /\ "collector" \in Callers /\ "outside" \in Callers
  BY AttachmentsAssumption DEF Callers

(* What one caller may change beside the tables: nothing of the others.    *)
LEMMA Frame ==
  ASSUME Data, NEW c \in Callers, UNCHANGED <<rows, files, doubt, lost, copy>>,
         \A b \in Callers : b # c => calls'[b] = calls[b],
         c \in Requests => WorkSound(c)',
         c = "collector" => CollectionSound',
         c = "outside" => DumpSound'
  PROVE  Data'
  <1>1. ASSUME NEW b \in Requests PROVE WorkSound(b)'
    <2>1. CASE b # c
      BY <2>1, Apart DEF Data, WorkSound, Records, Files
    <2> QED BY <2>1
  <1>2. DoubtSound' /\ LiveHasFile' /\ BackupWhole'
    BY DEF Data, DoubtSound, LiveHasFile, BackupWhole, Records, Files, Live
  <1>3. CollectionSound'
    BY Apart DEF Data, CollectionSound, At, Live
  <1>4. DumpSound'
    BY Apart DEF Data, DumpSound, At, Files
  <1> QED BY <1>1, <1>2, <1>3, <1>4 DEF Data

(* A caller that ends leaves the data as they are.                         *)
LEMMA EndSpares ==
  ASSUME AttachmentsTypeOK, Data, NEW c \in Callers, Release(c),
         UNCHANGED <<rows, files, doubt, lost, copy>>
  PROVE  Data'
  <1>1. /\ calls'[c].pc = "idle"
        /\ \A b \in Callers : b # c => calls'[b] = calls[b]
    BY Releases
  <1>2. c \in Requests => WorkSound(c)'
    BY <1>1 DEF WorkSound
  <1>3. /\ c = "collector" => CollectionSound'
        /\ c = "outside" => DumpSound'
    BY <1>1 DEF CollectionSound, DumpSound, At
  <1> QED BY <1>1, <1>2, <1>3, Frame

(* A caller that ends leaves the others their places and their locks.      *)
LEMMA EndKeepsLocks ==
  ASSUME AttachmentsTypeOK, Placed, Locked, NEW c \in Callers, Release(c),
         doubt' # {} => doubt # {} \/ tx = c
  PROVE  Placed' /\ Locked'
  <1>1. /\ calls'[c].pc = "idle"
        /\ \A b \in Callers : b # c => calls'[b] = calls[b]
        /\ sharing' = sharing \ {c}
        /\ alone # c => alone' = alone
        /\ alone = c => alone' = Nobody
        /\ tx # c => tx' = tx
        /\ tx = c => tx' = Nobody
        /\ backupLock # c => backupLock' = backupLock
    BY Releases
  <1>2. Placed'
    BY <1>1, Apart DEF Placed, At
  <1>3. ASSUME NEW b \in Requests \cup {"collector"}, Inside(b)'
        PROVE  IF Exclusive(b)' THEN alone' = b ELSE b \in sharing'
    BY <1>1, <1>3, Apart DEF Locked, Inside, Exclusive
  <1>4. alone' # Nobody => sharing' = {}
    BY <1>1 DEF Locked
  <1>5. ASSUME NEW b \in Requests, InTx(b)' PROVE tx' = b
    BY <1>1, <1>5, Apart DEF Locked, InTx, At
  <1>6. doubt' # {} => tx' = Nobody
    BY <1>1, Apart DEF Locked
  <1>7. /\ At("collector", "unlink")' => backupLock' = "collector"
        /\ calls'["outside"].pc \in {"dump", "copy"} => backupLock' = "outside"
    BY <1>1, Apart DEF Locked, At
  <1> QED BY <1>2, <1>3, <1>4, <1>5, <1>6, <1>7 DEF Locked

(* A caller that goes on keeps the discipline when its new place does.     *)
LEMMA GoKeepsLocks ==
  ASSUME AttachmentsTypeOK, Placed, Locked, NEW c \in Callers, NEW pc \in Places, Go(c, pc),
         UNCHANGED <<sharing, alone, backupLock, doubt>>,
         tx' = tx \/ (tx' = c /\ tx = Nobody /\ doubt = {})
                  \/ (tx' = Nobody /\ tx = c),
         c # "outside" => Inside(c) /\ (c \in Requests /\ InTx(c)' => tx' = c)
                          /\ pc # "unlink",
         c = "outside" => ~At(c, "idle"),
         Placed'
  PROVE  Locked'
  <1>1. /\ calls'[c].pc = pc /\ calls'[c].op = calls[c].op
        /\ \A b \in Callers : b # c => calls'[b] = calls[b]
    BY GoOn
  <1>2. ASSUME NEW b \in Requests \cup {"collector"}, Inside(b)'
        PROVE  IF Exclusive(b)' THEN alone' = b ELSE b \in sharing'
    BY <1>1, <1>2, Apart DEF Locked, Inside, Exclusive
  <1>3. ASSUME NEW b \in Requests, InTx(b)' PROVE tx' = b
    <2>1. CASE b = c
      BY <1>3, <2>1, Apart
    <2>2. CASE b # c
      <3>1. InTx(b) /\ tx = b
        BY <1>1, <1>3, <2>2, Apart DEF Locked, InTx, At
      <3> QED BY <2>2, <3>1, Apart
    <2> QED BY <2>1, <2>2
  <1>4. doubt' # {} => tx' = Nobody
    BY Apart DEF Locked
  <1>5. At("collector", "unlink")' => backupLock' = "collector"
    BY <1>1, Apart DEF Locked, At
  <1>6. calls'["outside"].pc \in {"dump", "copy"} => backupLock' = "outside"
    BY <1>1, Apart DEF Locked, Placed, At
  <1> QED BY <1>2, <1>3, <1>4, <1>5, <1>6 DEF Locked
-----------------------------------------------------------------------------
(* The steps of a request.                                                 *)

LocksTyped == sharing \subseteq Callers /\ {alone, tx, mu, backupLock} \subseteq Callers \cup {Nobody}

TablesTyped ==
  /\ rows \in [AttachmentIds -> [state : {"absent", "live", "deleted", "purged"},
                                 key : UploadKeys \cup {Nobody}, old : BOOLEAN]]
  /\ files \in [AttachmentIds -> {"none", "fresh", "old"}]
  /\ doubt \subseteq [id : AttachmentIds, key : UploadKeys \cup {Nobody}, reused : BOOLEAN]
  /\ lost \subseteq AttachmentIds
  /\ copy \in [rows : SUBSET AttachmentIds, files : SUBSET AttachmentIds]

(* The type invariant, table by table.                                     *)
LEMMA TypeParts ==
  AttachmentsTypeOK <=> /\ backend \in {"sqlite", "postgres"} /\ faults \in Nat
                        /\ TablesTyped /\ LocksTyped /\ calls \in [Callers -> CallRows]
  BY DEF AttachmentsTypeOK, TablesTyped, LocksTyped, CallRows

(* A request that starts has not looked at anything yet.                   *)
LEMMA StartKeeps ==
  ASSUME AttachmentsInv, NEW c \in Requests, NEW id \in AttachmentIds \cup {Nobody},
         NEW key \in UploadKeys \cup {Nobody},
         NEW op \in {"upload", "import", "read", "delete", "bundle"},
         op # "bundle" => id \in AttachmentIds,
         Start(c, op, id, key)
  PROVE  AttachmentsInv'
  <1> DEFINE r == [NoRequest EXCEPT !.pc = "maintenance", !.op = op, !.id = id, !.key = key]
  <1>1. /\ r \in CallRows /\ r.pc = "maintenance" /\ r.op = op /\ r.id = id
    BY DEF NoRequest, CallRows, Places, Operations
  <1>2. calls' = [calls EXCEPT ![c] = r] /\ UNCHANGED <<Locks, Tables>>
    BY DEF Start
  <1> HIDE DEF r
  <1>3. /\ AttachmentsTypeOK /\ Placed /\ Locked /\ Data /\ c \in Callers
    BY Apart DEF AttachmentsInv, Data
  <1>4. /\ calls' \in [Callers -> CallRows]
        /\ calls'[c] = r /\ \A b \in Callers : b # c => calls'[b] = calls[b]
    BY <1>1, <1>2, <1>3 DEF AttachmentsTypeOK, CallRows
  <1>5. AttachmentsTypeOK'
    BY <1>2, <1>3, <1>4 DEF AttachmentsTypeOK, CallRows, Locks, Tables
  <1>6. Placed'
    BY <1>1, <1>3, <1>4, Apart DEF Placed, At
  <1>7. Locked'
    BY <1>1, <1>2, <1>3, <1>4, Apart DEF Locked, Inside, InTx, At, Exclusive, Locks, Tables
  <1>8. WorkSound(c)'
    BY <1>1, <1>4 DEF WorkSound
  <1>9. Data'
    BY <1>2, <1>3, <1>4, <1>8, Apart, Frame DEF Tables
  <1> QED BY <1>5, <1>6, <1>7, <1>9 DEF AttachmentsInv, Data

(* files.maintenance is shared, or had by one alone.                       *)
LEMMA LockMaintenanceKeeps ==
  ASSUME AttachmentsInv, NEW c \in Requests \cup {"collector"}, LockMaintenance(c)
  PROVE  AttachmentsInv'
  <1> DEFINE pc == IF calls[c].op = "collect" THEN "mu" ELSE "tx"
  <1>1. /\ At(c, "maintenance") /\ alone = Nobody /\ Go(c, pc) /\ UNCHANGED <<tx, mu, backupLock, Tables>>
        /\ \/ Exclusive(c) /\ sharing = {} /\ alone' = c /\ UNCHANGED sharing
           \/ ~Exclusive(c) /\ sharing' = sharing \cup {c} /\ UNCHANGED alone
    BY DEF LockMaintenance
  <1>2. /\ AttachmentsTypeOK /\ Placed /\ Locked /\ Data /\ c \in Callers /\ c # "outside"
    BY Apart DEF AttachmentsInv, Data
  <1>3. pc \in Places /\ pc \in {"mu", "tx"}
    BY DEF Places
  <1>4. c \in Requests => pc = "tx"
    BY <1>1, <1>2 DEF Placed, At
  <1>4a. c = "collector" => pc = "mu"
    BY <1>1, <1>2 DEF Placed, At
  <1> HIDE DEF pc
  <1>5. /\ calls' \in [Callers -> CallRows]
        /\ calls'[c].pc = pc /\ calls'[c].op = calls[c].op /\ calls'[c].id = calls[c].id
        /\ \A b \in Callers : b # c => calls'[b] = calls[b]
    BY <1>1, <1>2, <1>3, GoOn
  <1>6. AttachmentsTypeOK'
    BY <1>1, <1>2, <1>5 DEF AttachmentsTypeOK, CallRows, Tables
  <1>7. Placed'
    BY <1>1, <1>2, <1>3, <1>4, <1>4a, <1>5, Apart DEF Placed, At
  <1>8. Locked'
    <2>1. ASSUME NEW b \in Requests \cup {"collector"}, Inside(b)'
          PROVE  IF Exclusive(b)' THEN alone' = b ELSE b \in sharing'
      BY <1>1, <1>2, <1>5, <2>1, Apart DEF Locked, Inside, Exclusive
    <2>2. alone' # Nobody => sharing' = {}
      BY <1>1, <1>2 DEF Locked
    <2>3. ASSUME NEW b \in Requests, InTx(b)' PROVE tx' = b
      <3>1. b # c
        BY <1>3, <1>4, <1>5, <2>3 DEF InTx, At
      <3> QED BY <1>1, <1>2, <1>5, <2>3, <3>1, Apart DEF Locked, InTx, At
    <2>4. /\ doubt' # {} => tx' = Nobody
          /\ At("collector", "unlink")' => backupLock' = "collector"
          /\ calls'["outside"].pc \in {"dump", "copy"} => backupLock' = "outside"
      BY <1>1, <1>2, <1>3, <1>5, Apart DEF Locked, At, Tables
    <2> QED BY <2>1, <2>2, <2>3, <2>4 DEF Locked
  <1>9. c \in Requests => WorkSound(c)'
    BY <1>4, <1>5 DEF WorkSound
  <1>10. c = "collector" => CollectionSound'
    BY <1>3, <1>5 DEF CollectionSound, At
  <1>11. Data'
    BY <1>1, <1>2, <1>5, <1>9, <1>10, Frame DEF Tables
  <1> QED BY <1>6, <1>7, <1>8, <1>11 DEF AttachmentsInv, Data

(* The transaction of the scope begins.                                    *)
LEMMA BeginKeeps ==
  ASSUME AttachmentsInv, NEW c \in Requests, Begin(c)
  PROVE  AttachmentsInv'
  <1>1. /\ At(c, "tx") /\ tx = Nobody /\ doubt = {} /\ tx' = c /\ Go(c, "rows")
        /\ UNCHANGED <<sharing, alone, mu, backupLock, Tables>>
    BY DEF Begin
  <1>2. /\ AttachmentsTypeOK /\ Placed /\ Locked /\ Data /\ c \in Callers /\ c # "outside"
        /\ c # "collector" /\ "rows" \in Places
    BY Apart DEF AttachmentsInv, Data, Places
  <1>3. /\ calls' \in [Callers -> CallRows]
        /\ calls'[c].pc = "rows" /\ calls'[c].op = calls[c].op /\ calls'[c].id = calls[c].id
        /\ \A b \in Callers : b # c => calls'[b] = calls[b]
    BY <1>1, <1>2, GoOn
  <1>4. AttachmentsTypeOK'
    BY <1>1, <1>2, <1>3 DEF AttachmentsTypeOK, CallRows, Tables
  <1>5. Placed'
    BY <1>1, <1>2, <1>3, Apart DEF Placed, At
  <1>6. Inside(c)
    BY <1>1 DEF Inside, At
  <1>7. Locked'
    BY <1>1, <1>2, <1>5, <1>6, GoKeepsLocks DEF Tables
  <1>8. WorkSound(c)'
    BY <1>3 DEF WorkSound
  <1>9. Data'
    BY <1>1, <1>2, <1>3, <1>8, Frame DEF Tables
  <1> QED BY <1>4, <1>5, <1>7, <1>9 DEF AttachmentsInv, Data
(* A caller that ends without an effect.                                   *)
LEMMA EndKeeps ==
  ASSUME AttachmentsInv, NEW c \in Callers, Release(c), UNCHANGED <<rows, files, doubt, lost, copy>>
  PROVE  AttachmentsInv'
  <1>1. AttachmentsTypeOK /\ Placed /\ Locked /\ Data
    BY DEF AttachmentsInv, Data
  <1>2. /\ calls' \in [Callers -> CallRows] /\ LocksTyped' /\ UNCHANGED <<backend, faults>>
    BY <1>1, Releases DEF LocksTyped
  <1>3. AttachmentsTypeOK'
    BY <1>1, <1>2 DEF AttachmentsTypeOK, CallRows, LocksTyped
  <1> QED BY <1>1, <1>3, EndSpares, EndKeepsLocks DEF AttachmentsInv, Data

(* files.mu is taken; the caller has what it had.                          *)
LEMMA LockFilesKeeps ==
  ASSUME AttachmentsInv, NEW c \in Requests \cup {"collector"}, LockFiles(c)
  PROVE  AttachmentsInv'
  <1>1. /\ At(c, "mu") /\ mu' = c /\ Go(c, "files")
        /\ UNCHANGED <<sharing, alone, tx, backupLock, Tables>>
    BY DEF LockFiles
  <1>2. /\ AttachmentsTypeOK /\ Placed /\ Locked /\ Data /\ c \in Callers /\ c # "outside"
        /\ "files" \in Places
    BY Apart DEF AttachmentsInv, Data, Places
  <1>3. /\ calls' \in [Callers -> CallRows]
        /\ calls'[c].pc = "files" /\ calls'[c].op = calls[c].op /\ calls'[c].id = calls[c].id
        /\ calls'[c].found = calls[c].found
        /\ \A b \in Callers : b # c => calls'[b] = calls[b]
    BY <1>1, <1>2, GoOn
  <1>4. AttachmentsTypeOK'
    BY <1>1, <1>2, <1>3 DEF AttachmentsTypeOK, CallRows, Tables
  <1>5. Placed'
    BY <1>1, <1>2, <1>3, Apart DEF Placed, At
  <1>6. Inside(c) /\ (c \in Requests /\ InTx(c)' => tx' = c)
    BY <1>1, <1>2, <1>3 DEF Inside, InTx, At, Locked
  <1>7. Locked'
    BY <1>1, <1>2, <1>5, <1>6, GoKeepsLocks DEF Tables
  <1>8. c \in Requests => WorkSound(c)'
    BY <1>1, <1>2, <1>3 DEF WorkSound, At, Data, Tables, Records, Files
  <1>9. c = "collector" => CollectionSound'
    BY <1>3 DEF CollectionSound, At
  <1>10. Data'
    BY <1>1, <1>2, <1>3, <1>8, <1>9, Frame DEF Tables
  <1> QED BY <1>4, <1>5, <1>7, <1>10 DEF AttachmentsInv, Data

(* The lookup of an upload and of a read: they go on in the transaction.   *)
LEMMA LookupKeeps ==
  ASSUME AttachmentsInv, NEW c \in Requests, At(c, "rows"),
         calls[c].op \in {"upload", "import", "read"},
         calls[c].op # "read" => calls[c].id \notin Records,
         Go(c, "mu"), UNCHANGED <<Locks, Tables>>
  PROVE  AttachmentsInv'
  <1>2. /\ AttachmentsTypeOK /\ Placed /\ Locked /\ Data /\ c \in Callers /\ c # "outside"
        /\ c # "collector" /\ "mu" \in Places
    BY Apart DEF AttachmentsInv, Data, Places
  <1>3. /\ calls' \in [Callers -> CallRows]
        /\ calls'[c].pc = "mu" /\ calls'[c].op = calls[c].op /\ calls'[c].id = calls[c].id
        /\ \A b \in Callers : b # c => calls'[b] = calls[b]
    BY <1>2, GoOn
  <1>4. AttachmentsTypeOK'
    BY <1>2, <1>3 DEF AttachmentsTypeOK, CallRows, Tables, Locks
  <1>5. Placed'
    BY <1>2, <1>3, Apart DEF Placed, At
  <1>6. Inside(c) /\ tx' = c
    BY <1>2 DEF Inside, InTx, At, Locked, Locks
  <1>7. Locked'
    BY <1>2, <1>5, <1>6, GoKeepsLocks DEF Tables, Locks
  <1>8. WorkSound(c)'
    BY <1>3 DEF WorkSound, Tables, Records
  <1>9. Data'
    BY <1>2, <1>3, <1>8, Frame DEF Tables
  <1> QED BY <1>4, <1>5, <1>7, <1>9 DEF AttachmentsInv, Data

(* A bundle has its snapshot and gives the transaction back.               *)
LEMMA SnapshotKeeps ==
  ASSUME AttachmentsInv, NEW c \in Requests, At(c, "rows"), calls[c].op = "bundle",
         calls' = [calls EXCEPT ![c].pc = "mu", ![c].found = Live], tx' = Nobody,
         UNCHANGED <<sharing, alone, mu, backupLock, Tables>>
  PROVE  AttachmentsInv'
  <1>2. /\ AttachmentsTypeOK /\ Placed /\ Locked /\ Data /\ c \in Callers /\ c # "outside"
        /\ c # "collector" /\ Live \subseteq AttachmentIds
    BY Apart DEF AttachmentsInv, Data, Live
  <1>3. /\ calls' \in [Callers -> CallRows]
        /\ calls'[c].pc = "mu" /\ calls'[c].op = calls[c].op /\ calls'[c].id = calls[c].id
        /\ calls'[c].found = Live
        /\ \A b \in Callers : b # c => calls'[b] = calls[b]
    <2>1. Finds(c, "mu", Live) /\ "mu" \in Places
      BY DEF Finds, Places
    <2> QED BY <1>2, <2>1, GoOnFinding
  <1>4. AttachmentsTypeOK'
    BY <1>2, <1>3 DEF AttachmentsTypeOK, CallRows, Tables
  <1>5. Placed'
    BY <1>2, <1>3, Apart DEF Placed, At
  <1>6. tx = c
    BY <1>2 DEF InTx, Locked
  <1>7. Locked'
    <2>1. ASSUME NEW b \in Requests \cup {"collector"}, Inside(b)'
          PROVE  IF Exclusive(b)' THEN alone' = b ELSE b \in sharing'
      BY <1>2, <1>3, <2>1, Apart DEF Locked, Inside, Exclusive, At
    <2>2. ASSUME NEW b \in Requests, InTx(b)' PROVE tx' = b
      <3>1. b # c
        BY <1>3, <2>2 DEF InTx, At
      <3>2. InTx(b)
        BY <1>3, <2>2, <3>1, Apart DEF InTx, At
      <3> QED BY <1>2, <1>6, <3>1, <3>2 DEF Locked
    <2>3. /\ alone' # Nobody => sharing' = {}
          /\ doubt' # {} => tx' = Nobody
          /\ At("collector", "unlink")' => backupLock' = "collector"
          /\ calls'["outside"].pc \in {"dump", "copy"} => backupLock' = "outside"
      BY <1>2, <1>3, Apart DEF Locked, At, Tables
    <2> QED BY <2>1, <2>2, <2>3 DEF Locked
  <1>8. WorkSound(c)'
    BY <1>2, <1>3 DEF WorkSound, Tables, Data, LiveHasFile, Files
  <1>9. Data'
    BY <1>2, <1>3, <1>8, Frame DEF Tables
  <1> QED BY <1>4, <1>5, <1>7, <1>9 DEF AttachmentsInv, Data

(* A deletion that has files.maintenance alone is the only one inside.     *)
LEMMA AloneInside ==
  ASSUME AttachmentsInv, NEW c \in Callers, alone = c,
         NEW b \in Requests \cup {"collector"}, b # c
  PROVE  ~Inside(b)
  BY Apart DEF AttachmentsInv, Locked

(* The row of a deletion is marked and committed; its own transaction      *)
(* kept every commit in doubt away, so it is of no such upload.            *)
LEMMA MarkDeletedKeeps ==
  ASSUME AttachmentsInv, NEW c \in Requests, At(c, "rows"), calls[c].op = "delete",
         calls[c].id \in Live,
         rows' = [rows EXCEPT ![calls[c].id].state = "deleted"], tx' = Nobody, Go(c, "mu"),
         UNCHANGED <<sharing, alone, mu, backupLock, backend, faults, files, doubt, lost, copy>>
  PROVE  AttachmentsInv'
  <1>2. /\ AttachmentsTypeOK /\ Placed /\ Locked /\ Data /\ c \in Callers /\ c # "outside"
        /\ c # "collector" /\ "mu" \in Places
    BY Apart DEF AttachmentsInv, Data, Places
  <1> DEFINE i == calls[c].id
  <1>3. /\ calls' \in [Callers -> CallRows]
        /\ calls'[c].pc = "mu" /\ calls'[c].op = calls[c].op /\ calls'[c].id = i
        /\ \A b \in Callers : b # c => calls'[b] = calls[b]
    BY <1>2, GoOn
  <1>4. /\ TablesTyped' /\ i \in AttachmentIds
        /\ rows'[i].state = "deleted" /\ \A j \in AttachmentIds : j # i => rows'[j] = rows[j]
    BY <1>2 DEF AttachmentsTypeOK, TablesTyped, Live
  <1>5. AttachmentsTypeOK'
    BY <1>2, <1>3, <1>4, Apart DEF AttachmentsTypeOK, TablesTyped, CallRows
  <1>6. tx = c /\ alone = c /\ doubt = {}
    BY <1>2, Apart DEF Locked, InTx, Inside, Exclusive, At
  <1>7. Placed'
    BY <1>2, <1>3, Apart DEF Placed, At
  <1>8. \A b \in Requests \cup {"collector"} : b # c => ~Inside(b) /\ ~Inside(b)' /\ calls'[b] = calls[b]
    BY <1>2, <1>3, <1>6, AloneInside, Apart DEF Inside
  <1>9. Locked'
    <2>1. ASSUME NEW b \in Requests \cup {"collector"}, Inside(b)'
          PROVE  IF Exclusive(b)' THEN alone' = b ELSE b \in sharing'
      BY <1>3, <1>6, <1>8, <2>1 DEF Exclusive
    <2>2. ASSUME NEW b \in Requests, InTx(b)' PROVE tx' = b
      BY <1>3, <1>8, <2>2 DEF InTx, Inside, At
    <2>3. /\ alone' # Nobody => sharing' = {}
          /\ doubt' # {} => tx' = Nobody
          /\ At("collector", "unlink")' => backupLock' = "collector"
          /\ calls'["outside"].pc \in {"dump", "copy"} => backupLock' = "outside"
      BY <1>2, <1>3, Apart DEF Locked, At
    <2> QED BY <2>1, <2>2, <2>3 DEF Locked
  <1>10. ASSUME NEW b \in Requests PROVE WorkSound(b)'
    <2>1. CASE b = c
      BY <1>3, <1>4, <2>1 DEF WorkSound
    <2>2. CASE b # c
      <3>1. calls'[b].pc \in {"idle", "maintenance"}
        BY <1>8, <2>2 DEF Inside
      <3> QED BY <3>1 DEF WorkSound
    <2> QED BY <2>1, <2>2
  <1>11. Live' \subseteq Live
    BY <1>4 DEF Live
  <1>12. DoubtSound' /\ LiveHasFile' /\ BackupWhole'
    BY <1>2, <1>6, <1>11 DEF Data, DoubtSound, LiveHasFile, BackupWhole, Files
  <1>13. CollectionSound'
    <2>1. ~Inside("collector")'
      BY <1>2, <1>8
    <2> QED BY <2>1 DEF CollectionSound, Inside, At
  <1>14. DumpSound'
    BY <1>2, <1>3, Apart DEF Data, DumpSound, At, Files
  <1> QED BY <1>5, <1>7, <1>9, <1>10, <1>12, <1>13, <1>14 DEF AttachmentsInv

(* The step on the rows is one of these.                                   *)
LEMMA RowsKeeps ==
  ASSUME AttachmentsInv, NEW c \in Requests, Rows(c)
  PROVE  AttachmentsInv'
  <1>1. At(c, "rows") /\ UNCHANGED <<files, doubt, lost, copy>> /\ c \in Callers
    BY Apart DEF Rows
  <1>2. ASSUME Release(c), UNCHANGED rows PROVE AttachmentsInv'
    BY <1>1, <1>2, EndKeeps
  <1>3. CASE calls[c].op \in {"upload", "import"}
    <2>1. UNCHANGED rows /\ (Release(c) \/ (/\ calls[c].id \notin Records /\ Go(c, "mu")
                                            /\ UNCHANGED <<Locks, backend, faults>>))
      BY <1>3 DEF Rows
    <2> QED BY <1>1, <1>2, <1>3, <2>1, LookupKeeps DEF Tables
  <1>4. CASE calls[c].op = "read"
    <2>1. UNCHANGED rows /\ (Release(c) \/ (Go(c, "mu") /\ UNCHANGED <<Locks, backend, faults>>))
      BY <1>4 DEF Rows
    <2> QED BY <1>1, <1>2, <1>4, <2>1, LookupKeeps DEF Tables
  <1>5. CASE calls[c].op = "delete"
    <2>1. CASE calls[c].id \in Live
      <3>1. /\ rows' = [rows EXCEPT ![calls[c].id].state = "deleted"] /\ tx' = Nobody
            /\ Go(c, "mu") /\ UNCHANGED <<sharing, alone, mu, backupLock, backend, faults>>
        BY <1>5, <2>1 DEF Rows
      <3> QED BY <1>1, <1>5, <2>1, <3>1, MarkDeletedKeeps
    <2>2. CASE calls[c].id \notin Live
      BY <1>2, <1>5, <2>2 DEF Rows
    <2> QED BY <2>1, <2>2
  <1>6. CASE calls[c].op = "bundle"
    <2>1. /\ calls' = [calls EXCEPT ![c].pc = "mu", ![c].found = Live] /\ tx' = Nobody
          /\ UNCHANGED <<sharing, alone, mu, backupLock, backend, faults, rows>>
      BY <1>6 DEF Rows
    <2> QED BY <1>1, <1>6, <2>1, SnapshotKeeps DEF Tables
  <1> QED BY <1>3, <1>4, <1>5, <1>6 DEF Rows
(* A file is written, or found there by an import, before the row commits. *)
LEMMA WriteFileKeeps ==
  ASSUME AttachmentsInv, NEW c \in Requests, WriteFile(c)
  PROVE  AttachmentsInv'
  <1>1. /\ At(c, "files") /\ calls[c].op \in {"upload", "import"}
        /\ UNCHANGED <<rows, doubt, lost, copy>>
    BY DEF WriteFile, TakeOver
  <1>2. /\ AttachmentsTypeOK /\ Placed /\ Locked /\ Data /\ c \in Callers /\ c # "outside"
        /\ c # "collector" /\ "commit" \in Places
    BY Apart DEF AttachmentsInv, Data, Places
  <1>3. ASSUME Release(c), UNCHANGED files PROVE AttachmentsInv'
    BY <1>1, <1>2, <1>3, EndKeeps
  <1>4. ASSUME UNCHANGED <<Locks, backend, faults>>,
               \/ /\ Finds(c, "commit", {calls[c].id})
                  /\ calls[c].id \in Files /\ UNCHANGED files
               \/ /\ Go(c, "commit")
                  /\ calls[c].id \notin Files /\ files' = [files EXCEPT ![calls[c].id] = "fresh"]
        PROVE  AttachmentsInv'
    <2> DEFINE i == calls[c].id
    <2>2. i \in AttachmentIds /\ i \notin Records
      BY <1>1, <1>2 DEF Placed, At, Data, WorkSound
    <2>1. /\ calls' \in [Callers -> CallRows]
          /\ calls'[c].pc = "commit" /\ calls'[c].op = calls[c].op /\ calls'[c].id = i
          /\ i \in Files => UNCHANGED files /\ calls'[c].found # {}
          /\ i \notin Files => files' = [files EXCEPT ![i] = "fresh"]
          /\ \A b \in Callers : b # c => calls'[b] = calls[b]
      <3>1. CASE Finds(c, "commit", {i}) /\ i \in Files /\ UNCHANGED files
        <4>1. {i} \in SUBSET AttachmentIds
          BY <2>2
        <4> QED BY <1>2, <3>1, <4>1, GoOnFinding
      <3>2. CASE Go(c, "commit") /\ i \notin Files /\ files' = [files EXCEPT ![i] = "fresh"]
        BY <1>2, <3>2, GoOn
      <3> QED BY <1>4, <3>1, <3>2
    <2>3. /\ files' \in [AttachmentIds -> {"none", "fresh", "old"}]
          /\ files'[i] # "none"
          /\ calls'[c].found = {} => files'[i] = "fresh"
          /\ \A j \in AttachmentIds : j # i => files'[j] = files[j]
          /\ files[i] = "fresh" => files'[i] = "fresh"
          /\ Files \subseteq Files'
      BY <1>2, <2>1, <2>2 DEF AttachmentsTypeOK, Files
    <2>4. AttachmentsTypeOK'
      BY <1>1, <1>2, <1>4, <2>1, <2>3 DEF AttachmentsTypeOK, CallRows, Locks
    <2>5. Placed'
      BY <1>1, <1>2, <2>1, Apart DEF Placed, At
    <2>6. Inside(c) /\ tx' = c
      BY <1>1, <1>2, <1>4 DEF Inside, InTx, At, Locked, Locks
    <2>7. Locked'
      <3>1. ASSUME NEW b \in Requests \cup {"collector"}, Inside(b)'
            PROVE  IF Exclusive(b)' THEN alone' = b ELSE b \in sharing'
        BY <1>2, <1>4, <2>1, <2>6, <3>1, Apart DEF Locked, Inside, Exclusive, Locks
      <3>2. ASSUME NEW b \in Requests, InTx(b)' PROVE tx' = b
        BY <1>2, <1>4, <2>1, <2>6, <3>2, Apart DEF Locked, InTx, At, Locks
      <3>3. /\ alone' # Nobody => sharing' = {}
            /\ doubt' # {} => tx' = Nobody
            /\ At("collector", "unlink")' => backupLock' = "collector"
            /\ calls'["outside"].pc \in {"dump", "copy"} => backupLock' = "outside"
        BY <1>1, <1>2, <1>4, <2>1, Apart DEF Locked, At, Locks
      <3> QED BY <3>1, <3>2, <3>3 DEF Locked
    <2>8. ASSUME NEW b \in Requests PROVE WorkSound(b)'
      <3>1. CASE b = c
        BY <1>1, <2>1, <2>2, <2>3, <3>1 DEF WorkSound, Records, Files
      <3>2. CASE b # c
        <4>1. WorkSound(b) /\ calls'[b] = calls[b] /\ Records' = Records
          BY <1>1, <1>2, <2>1, <3>2, Apart DEF Data, Records
        <4>2. \A j \in AttachmentIds : files[j] = "fresh" => files'[j] = "fresh"
          BY <2>3
        <4>3. \A j \in Files : j \in AttachmentIds /\ j \in Files'
          BY <2>3 DEF Files
        <4> HIDE DEF i
        <4> QED BY <1>1, <2>3, <4>1, <4>2, <4>3 DEF WorkSound
      <3> QED BY <3>1, <3>2
    <2>9. DoubtSound'
      <3>1. doubt = {}
        BY <1>2, <2>6, <1>4, Apart DEF Locked, Locks
      <3> QED BY <1>1, <3>1 DEF DoubtSound
    <2>10. CollectionSound' /\ DumpSound' /\ LiveHasFile' /\ BackupWhole'
      BY <1>1, <1>2, <2>1, <2>3, Apart
         DEF Data, CollectionSound, DumpSound, LiveHasFile, BackupWhole, At, Live
    <2> QED BY <2>4, <2>5, <2>7, <2>8, <2>9, <2>10 DEF AttachmentsInv
  <1> QED BY <1>1, <1>3, <1>4 DEF WriteFile, TakeOver, Finds

(* The row that an upload or the database commits.                         *)
LEMMA CommitRow ==
  ASSUME AttachmentsTypeOK, NEW i \in AttachmentIds, NEW key \in UploadKeys \cup {Nobody},
         Committing(i, key)
  PROVE  /\ rows' \in [AttachmentIds -> [state : {"absent", "live", "deleted", "purged"},
                                        key : UploadKeys \cup {Nobody}, old : BOOLEAN]]
         /\ rows'[i].state = "live"
         /\ \A j \in AttachmentIds : j # i => rows'[j] = rows[j]
  <1> DEFINE r == [NoRowFor("live") EXCEPT !.key = key]
  <1>1. /\ r.state = "live"
        /\ r \in [state : {"absent", "live", "deleted", "purged"},
                  key : UploadKeys \cup {Nobody}, old : BOOLEAN]
    BY DEF NoRowFor
  <1>2. rows' = [rows EXCEPT ![i] = r]
    BY DEF Committing
  <1> HIDE DEF r
  <1> QED BY <1>1, <1>2 DEF AttachmentsTypeOK

(* A commit of a row makes it live with its file there, outside the        *)
(* collection and away from every deletion.                                *)
LEMMA CommitUploadKeeps ==
  ASSUME AttachmentsInv, NEW c \in Requests, CommitUpload(c)
  PROVE  AttachmentsInv'
  <1> DEFINE i == calls[c].id
             d == [id |-> calls[c].id, key |-> calls[c].key, reused |-> calls[c].found # {}]
  <1>1. /\ At(c, "commit") /\ Release(c) /\ UNCHANGED <<files, lost, copy>>
        /\ \/ Committing(i, calls[c].key) /\ UNCHANGED doubt
           \/ UNCHANGED <<rows, doubt>>
           \/ doubt' = doubt \cup {d} /\ UNCHANGED rows
    BY DEF CommitUpload
  <1>2. /\ AttachmentsTypeOK /\ Placed /\ Locked /\ Data /\ c \in Callers /\ c # "outside"
        /\ c # "collector"
    BY Apart DEF AttachmentsInv, Data
  <1>3. /\ calls[c].op \in {"upload", "import"} /\ i \in AttachmentIds
        /\ calls[c].key \in UploadKeys \cup {Nobody}
    BY <1>1, <1>2 DEF Placed, At, AttachmentsTypeOK
  <1>4. /\ tx = c /\ doubt = {} /\ c \in sharing /\ alone = Nobody
        /\ i \notin Records /\ i \in Files
        /\ calls[c].found = {} => files[i] = "fresh"
    BY <1>1, <1>2, <1>3, Apart DEF Locked, InTx, Inside, Exclusive, At, Data, WorkSound
  <1>5. CASE UNCHANGED <<rows, doubt>>
    BY <1>1, <1>2, <1>5, EndKeeps
  <1>6. /\ calls' \in [Callers -> CallRows] /\ LocksTyped' /\ UNCHANGED <<backend, faults>>
        /\ calls'[c].pc = "idle"
        /\ \A b \in Callers : b # c => calls'[b] = calls[b]
    BY <1>1, <1>2, Releases DEF LocksTyped
  <1>7. Placed' /\ Locked'
    BY <1>1, <1>2, <1>4, EndKeepsLocks
  <1>8. ~At("collector", "unlink")
    BY <1>4, <1>2, Apart DEF Locked, Placed, Inside, Exclusive, At
  <1>9. CollectionSound' /\ DumpSound' /\ BackupWhole'
    BY <1>1, <1>2, <1>6, <1>8, Apart DEF Data, CollectionSound, DumpSound, BackupWhole, At, Files
  <1>10. CASE Committing(i, calls[c].key) /\ UNCHANGED doubt
    <2>1. /\ rows' \in [AttachmentIds -> [state : {"absent", "live", "deleted", "purged"},
                                         key : UploadKeys \cup {Nobody}, old : BOOLEAN]]
          /\ rows'[i].state = "live"
          /\ \A j \in AttachmentIds : j # i => rows'[j] = rows[j]
      BY <1>2, <1>3, <1>10, CommitRow
    <2>2. AttachmentsTypeOK'
      BY <1>1, <1>2, <1>6, <1>10, <2>1 DEF AttachmentsTypeOK, CallRows, LocksTyped
    <2>3. ASSUME NEW b \in Requests PROVE WorkSound(b)'
      <3>1. CASE b = c
        BY <1>6, <3>1 DEF WorkSound
      <3>2. CASE b # c
        <4>1. WorkSound(b) /\ calls'[b] = calls[b] /\ ~InTx(b)
          BY <1>2, <1>4, <1>6, <3>2, Apart DEF Data, Locked
        <4>2. ~(calls[b].op \in {"upload", "import"} /\ calls[b].pc \in {"mu", "files", "commit"})
          BY <4>1 DEF InTx
        <4>3. calls[b].pc = "commit" => calls[b].op \in {"upload", "import"}
          BY <1>2 DEF Placed, At
        <4>4. calls[b].op = "delete" /\ calls[b].pc \in {"mu", "files"} => FALSE
          BY <1>2, <1>4, Apart DEF Locked, Inside, Exclusive
        <4> QED BY <1>1, <4>1, <4>2, <4>3, <4>4 DEF WorkSound, Files
      <3> QED BY <3>1, <3>2
    <2>4. DoubtSound'
      BY <1>4, <1>10 DEF DoubtSound
    <2>5. LiveHasFile'
      <3>1. Live' \subseteq Live \cup {i} /\ Files' = Files
        BY <1>1, <2>1 DEF Live, Files
      <3> QED BY <1>1, <1>2, <1>4, <3>1 DEF Data, LiveHasFile
    <2> QED BY <1>7, <1>9, <2>2, <2>3, <2>4, <2>5 DEF AttachmentsInv
  <1>11. CASE doubt' = doubt \cup {d} /\ UNCHANGED rows
    <2>1. /\ d \in [id : AttachmentIds, key : UploadKeys \cup {Nobody}, reused : BOOLEAN]
          /\ d.id = i /\ (~d.reused => calls[c].found = {})
      BY <1>3
    <2>2. doubt' = {d}
      BY <1>4, <1>11
    <2> HIDE DEF d
    <2>3. AttachmentsTypeOK'
      BY <1>1, <1>2, <1>6, <1>11, <2>1, <2>2 DEF AttachmentsTypeOK, CallRows, LocksTyped
    <2>4. ASSUME NEW b \in Requests PROVE WorkSound(b)'
      <3>1. CASE b = c
        BY <1>6, <3>1 DEF WorkSound
      <3>2. CASE b # c
        BY <1>1, <1>2, <1>6, <1>11, <3>2, Apart DEF Data, WorkSound, Records, Files
      <3> QED BY <3>1, <3>2
    <2>5. DoubtSound'
      <3>1. Records' = Records /\ (~d.reused => files'[i] = "fresh")
        BY <2>1, <1>1, <1>4, <1>11 DEF Records
      <3> QED BY <1>4, <2>1, <2>2, <3>1 DEF DoubtSound
    <2>6. LiveHasFile'
      BY <1>1, <1>2, <1>11 DEF Data, LiveHasFile, Live, Files
    <2> QED BY <1>7, <1>9, <2>3, <2>4, <2>5, <2>6 DEF AttachmentsInv
  <1> QED BY <1>1, <1>5, <1>10, <1>11

(* The database decides: nobody is in a transaction of the scope meanwhile.*)
LEMMA DecideKeeps ==
  ASSUME AttachmentsInv, NEW d \in doubt, Decide(d)
  PROVE  AttachmentsInv'
  <1>1. /\ doubt' = doubt \ {d} /\ UNCHANGED <<backend, files, Locks, calls, copy, faults>>
        /\ \/ /\ Committing(d.id, d.key)
              /\ lost' = IF d.reused /\ Unlinked(d.id) THEN lost \cup {d.id} ELSE lost
           \/ UNCHANGED <<rows, lost>>
    BY DEF Decide
  <1>2. /\ AttachmentsTypeOK /\ Placed /\ Locked /\ Data
    BY DEF AttachmentsInv, Data
  <1>3. /\ d.id \in AttachmentIds /\ d.key \in UploadKeys \cup {Nobody} /\ doubt' = {}
        /\ d.id \notin Records /\ (~d.reused => files[d.id] = "fresh") /\ tx = Nobody
    BY <1>1, <1>2 DEF AttachmentsTypeOK, Data, DoubtSound, Locked
  <1>4. /\ rows' \in [AttachmentIds -> [state : {"absent", "live", "deleted", "purged"},
                                       key : UploadKeys \cup {Nobody}, old : BOOLEAN]]
        /\ rows'[d.id].state = "live" \/ rows'[d.id] = rows[d.id]
        /\ \A j \in AttachmentIds : j # d.id => rows'[j] = rows[j]
    <2>1. CASE UNCHANGED rows
      BY <1>2, <2>1 DEF AttachmentsTypeOK
    <2> QED BY <1>1, <1>2, <1>3, <2>1, CommitRow
  <1>4a. /\ lost \subseteq lost' /\ lost' \subseteq AttachmentIds
         /\ rows'[d.id] = rows[d.id] \/ d.id \in lost' \/ ~(d.reused /\ Unlinked(d.id))
    BY <1>1, <1>2, <1>3 DEF AttachmentsTypeOK
  <1>5. AttachmentsTypeOK'
    BY <1>1, <1>2, <1>3, <1>4, <1>4a DEF AttachmentsTypeOK, Locks
  <1>6. Placed' /\ Locked'
    BY <1>1, <1>2, <1>3 DEF Placed, Locked, At, Inside, InTx, Exclusive, Locks
  <1>7. ASSUME NEW b \in Requests PROVE WorkSound(b)'
    <2>1. WorkSound(b) /\ ~InTx(b)
      BY <1>2, <1>3, Apart DEF Data, Locked
    <2>2. ~(calls[b].op \in {"upload", "import"} /\ calls[b].pc \in {"mu", "files", "commit"})
      BY <2>1 DEF InTx
    <2>3. calls[b].pc = "commit" => calls[b].op \in {"upload", "import"}
      BY <1>2 DEF Placed, At
    <2>4. calls[b].op = "delete" /\ calls[b].pc \in {"mu", "files"} =>
            /\ calls[b].id \in AttachmentIds /\ calls[b].id # d.id
            /\ rows[calls[b].id].state = "deleted"
      <3>1. calls[b].op = "delete" /\ calls[b].pc \in {"mu", "files"} => calls[b].id \in AttachmentIds
        BY <1>2 DEF Placed, At
      <3> QED BY <1>3, <2>1, <3>1 DEF WorkSound, Records
    <2> QED BY <1>1, <1>4, <1>4a, <2>1, <2>2, <2>3, <2>4 DEF WorkSound, Files
  <1>8. BackupWhole' /\ DoubtSound' /\ DumpSound'
    BY <1>1, <1>2, <1>3, <1>4a DEF Data, BackupWhole, DoubtSound, DumpSound, Files, At
  <1>9. LiveHasFile'
    <2>1. Files' = Files /\ Live' \subseteq Live \cup {d.id}
      BY <1>1, <1>4 DEF Live, Files
    <2>2. rows'[d.id] # rows[d.id] => d.id \in lost' \cup Files
      BY <1>3, <1>4a DEF Unlinked, Files
    <2>3. rows'[d.id] = rows[d.id] => Live' = Live
      BY <1>4 DEF Live
    <2> QED BY <1>2, <1>4a, <2>1, <2>2, <2>3 DEF Data, LiveHasFile
  <1>10. CollectionSound'
    <2>1. ASSUME NEW i \in calls["collector"].found, At("collector", "unlink")
          PROVE  i \notin Live' \ lost'
      <3>1. i \in AttachmentIds /\ i \notin Live \ lost /\ (i = d.id => d.reused)
        BY <1>2, <2>1, Apart DEF Data, CollectionSound, AttachmentsTypeOK
      <3>2. CASE i = d.id
        BY <1>3, <1>4, <1>4a, <2>1, <3>1, <3>2 DEF Unlinked, Live, Records
      <3>3. CASE i # d.id
        BY <1>4, <1>4a, <3>1, <3>3 DEF Live
      <3> QED BY <3>2, <3>3
    <2> QED BY <1>1, <1>3, <2>1 DEF CollectionSound, At
  <1> QED BY <1>5, <1>6, <1>7, <1>8, <1>9, <1>10 DEF AttachmentsInv
-----------------------------------------------------------------------------
(* Removing files.                                                         *)

(* Files go: by one that is alone, that no backup from outside runs beside,*)
(* and none of a live row that still has its file or of a commit in doubt  *)
(* whose request wrote it.                                                 *)
FilesGo(G) ==
  /\ files' \in [AttachmentIds -> {"none", "fresh", "old"}]
  /\ \A i \in AttachmentIds \ G : files'[i] = files[i]
  /\ G \cap (Live \ lost) = {}
  /\ \A d \in doubt : d.id \in G => d.reused

(* They may, when the one that is alone ends with this step.               *)
LEMMA FilesGoKeeps ==
  ASSUME AttachmentsInv, NEW c \in Requests \cup {"collector"}, alone = c, Release(c),
         NEW G, FilesGo(G), backupLock # "outside", UNCHANGED <<doubt, lost, copy>>,
         rows' \in [AttachmentIds -> [state : {"absent", "live", "deleted", "purged"},
                                      key : UploadKeys \cup {Nobody}, old : BOOLEAN]],
         \A i \in AttachmentIds : \/ rows'[i] = rows[i]
                                  \/ rows[i].state = "deleted" /\ rows'[i].state = "purged"
  PROVE  AttachmentsInv'
  <1>1. /\ AttachmentsTypeOK /\ Placed /\ Locked /\ Data /\ c \in Callers /\ c # "outside"
    BY Apart DEF AttachmentsInv, Data
  <1>2. /\ calls' \in [Callers -> CallRows] /\ LocksTyped' /\ UNCHANGED <<backend, faults>>
        /\ calls'[c].pc = "idle"
        /\ \A b \in Callers : b # c => calls'[b] = calls[b]
    BY <1>1, Releases DEF LocksTyped
  <1>3. AttachmentsTypeOK'
    BY <1>1, <1>2 DEF AttachmentsTypeOK, CallRows, LocksTyped, FilesGo
  <1>4. Placed' /\ Locked'
    BY <1>1, EndKeepsLocks
  <1>5. \A b \in Requests \cup {"collector"} : calls'[b].pc \in {"idle", "maintenance"}
    BY <1>1, <1>2, AloneInside, Apart DEF Inside
  <1>6. \A b \in Requests : WorkSound(b)'
    BY <1>5 DEF WorkSound
  <1>7. CollectionSound'
    BY <1>5 DEF CollectionSound, At
  <1>8. DumpSound'
    BY <1>1, <1>2, Apart DEF Locked, DumpSound, At
  <1>9. \A d \in doubt : d.id \in AttachmentIds
    BY <1>1 DEF AttachmentsTypeOK
  <1>10. DoubtSound'
    BY <1>1, <1>9 DEF Data, DoubtSound, FilesGo, Records
  <1>11. LiveHasFile' /\ BackupWhole'
    BY <1>1 DEF Data, LiveHasFile, BackupWhole, FilesGo, Live, Files
  <1> QED BY <1>3, <1>4, <1>6, <1>7, <1>8, <1>10, <1>11 DEF AttachmentsInv

(* The rest of a read, of a deletion and of a bundle.                      *)
LEMMA FinishKeeps ==
  ASSUME AttachmentsInv, NEW c \in Requests, Finish(c)
  PROVE  AttachmentsInv'
  <1>1. /\ At(c, "files") /\ Release(c) /\ UNCHANGED <<rows, doubt, lost>>
        /\ \/ UNCHANGED <<files, copy>>
           \/ calls[c].op = "delete" /\ Unlink(calls[c].id) /\ UNCHANGED copy
           \/ /\ calls[c].op = "bundle"
              /\ copy' = [rows |-> calls[c].found, files |-> calls[c].found \cap Files]
              /\ UNCHANGED files
    BY DEF Finish
  <1>2. /\ AttachmentsTypeOK /\ Placed /\ Locked /\ Data /\ c \in Callers /\ c # "outside"
    BY Apart DEF AttachmentsInv, Data
  <1>3. CASE UNCHANGED <<files, copy>>
    BY <1>1, <1>2, <1>3, EndKeeps
  <1>4. CASE calls[c].op = "delete" /\ Unlink(calls[c].id) /\ UNCHANGED copy
    <2>1. CASE backupLock # Nobody
      BY <1>1, <1>2, <1>4, <2>1, EndKeeps DEF Unlink
    <2>2. CASE backupLock = Nobody
      <3>1. alone = c /\ calls[c].id \in AttachmentIds /\ rows[calls[c].id].state = "deleted"
        BY <1>1, <1>2, <1>4 DEF Locked, Placed, Data, WorkSound, Inside, Exclusive, At
      <3>2. files' = [files EXCEPT ![calls[c].id] = "none"]
        BY <1>4, <2>2 DEF Unlink
      <3>3. \A d \in doubt : d.id # calls[c].id
        BY <1>2, <3>1 DEF Data, DoubtSound, Records
      <3>4. FilesGo({calls[c].id})
        BY <1>2, <3>1, <3>2, <3>3 DEF FilesGo, AttachmentsTypeOK, Live
      <3>5. backupLock # "outside"
        BY <2>2, Apart
      <3>6. rows \in [AttachmentIds -> [state : {"absent", "live", "deleted", "purged"},
                                        key : UploadKeys \cup {Nobody}, old : BOOLEAN]]
        BY <1>2 DEF AttachmentsTypeOK
      <3> QED BY <1>1, <1>4, <3>1, <3>4, <3>5, <3>6, FilesGoKeeps
    <2> QED BY <2>1, <2>2
  <1>5. CASE /\ calls[c].op = "bundle"
             /\ copy' = [rows |-> calls[c].found, files |-> calls[c].found \cap Files]
             /\ UNCHANGED files
    <2>1. /\ calls' \in [Callers -> CallRows] /\ LocksTyped' /\ UNCHANGED <<backend, faults>>
          /\ calls'[c].pc = "idle"
          /\ \A b \in Callers : b # c => calls'[b] = calls[b]
      BY <1>1, <1>2, Releases DEF LocksTyped
    <2>2. calls[c].found \ lost \subseteq Files /\ calls[c].found \subseteq AttachmentIds
      BY <1>1, <1>2, <1>5 DEF Data, WorkSound, At, AttachmentsTypeOK
    <2>3. AttachmentsTypeOK'
      <3>1. copy' \in [rows : SUBSET AttachmentIds, files : SUBSET AttachmentIds]
        BY <1>5, <2>2
      <3> QED BY <1>1, <1>2, <1>5, <2>1, <3>1 DEF AttachmentsTypeOK, CallRows, LocksTyped
    <2>4. Placed' /\ Locked'
      BY <1>1, <1>2, EndKeepsLocks
    <2>5. BackupWhole'
      BY <1>1, <1>5, <2>2 DEF BackupWhole
    <2>6. ASSUME NEW b \in Requests PROVE WorkSound(b)'
      <3>1. CASE b = c
        BY <2>1, <3>1 DEF WorkSound
      <3>2. CASE b # c
        BY <1>1, <1>2, <1>5, <2>1, <3>2, Apart DEF Data, WorkSound, Records, Files
      <3> QED BY <3>1, <3>2
    <2>7. DoubtSound' /\ CollectionSound' /\ DumpSound' /\ LiveHasFile'
      BY <1>1, <1>2, <1>5, <2>1, Apart
         DEF Data, DoubtSound, CollectionSound, DumpSound, LiveHasFile, At, Live, Records, Files
    <2> QED BY <2>3, <2>4, <2>5, <2>6, <2>7 DEF AttachmentsInv
  <1> QED BY <1>1, <1>3, <1>4, <1>5

(* A service that stops leaves its files and its commits in doubt, and a   *)
(* backup from outside its lock.                                           *)
LEMMA CrashKeeps ==
  ASSUME AttachmentsInv, Crash
  PROVE  AttachmentsInv'
  <1>1. /\ faults' = faults + 1
        /\ sharing' = {} /\ alone' = Nobody /\ tx' = Nobody /\ mu' = Nobody
        /\ backupLock' = IF backupLock = "outside" THEN "outside" ELSE Nobody
        /\ calls' = [c \in Callers |-> IF c = "outside" THEN calls[c] ELSE NoRequest]
        /\ UNCHANGED <<backend, rows, files, doubt, lost, copy>>
    BY DEF Crash
  <1>2. /\ AttachmentsTypeOK /\ Placed /\ Locked /\ Data
    BY DEF AttachmentsInv, Data
  <1>3. NoRequest \in CallRows /\ NoRequest.pc = "idle"
    BY DEF NoRequest, CallRows, Places
  <1>4. /\ calls' \in [Callers -> CallRows] /\ calls'["outside"] = calls["outside"]
        /\ \A c \in Requests \cup {"collector"} : calls'[c].pc = "idle"
    BY <1>1, <1>2, <1>3, Apart DEF AttachmentsTypeOK, CallRows
  <1>5. AttachmentsTypeOK'
    BY <1>1, <1>2, <1>4, Apart DEF AttachmentsTypeOK, CallRows
  <1>6. Placed'
    BY <1>2, <1>4 DEF Placed, At
  <1>7. Locked'
    BY <1>1, <1>2, <1>4 DEF Locked, Inside, InTx, At
  <1>8. \A c \in Requests : WorkSound(c)'
    BY <1>4 DEF WorkSound
  <1>9. CollectionSound'
    BY <1>4 DEF CollectionSound, At
  <1>10. DoubtSound' /\ DumpSound' /\ LiveHasFile' /\ BackupWhole'
    BY <1>1, <1>2, <1>4
       DEF Data, DoubtSound, DumpSound, LiveHasFile, BackupWhole, At, Live, Records, Files
  <1> QED BY <1>5, <1>6, <1>7, <1>8, <1>9, <1>10 DEF AttachmentsInv

-----------------------------------------------------------------------------
(* The collection, the backup from outside, and time.                      *)

(* The collection begins without a lock.                                   *)
LEMMA StartCollectionKeeps ==
  ASSUME AttachmentsInv, StartCollection
  PROVE  AttachmentsInv'
  <1> DEFINE r == [NoRequest EXCEPT !.pc = "maintenance", !.op = "collect"]
  <1>1. r \in CallRows /\ r.pc = "maintenance" /\ r.op = "collect"
    BY DEF NoRequest, CallRows, Places, Operations
  <1>2. calls' = [calls EXCEPT !["collector"] = r] /\ UNCHANGED <<Locks, Tables>>
    BY DEF StartCollection
  <1> HIDE DEF r
  <1>3. /\ AttachmentsTypeOK /\ Placed /\ Locked /\ Data
    BY DEF AttachmentsInv, Data
  <1>4. /\ calls' \in [Callers -> CallRows]
        /\ calls'["collector"] = r /\ \A b \in Callers : b # "collector" => calls'[b] = calls[b]
    BY <1>1, <1>2, <1>3, Apart DEF AttachmentsTypeOK, CallRows
  <1>5. AttachmentsTypeOK'
    BY <1>2, <1>3, <1>4 DEF AttachmentsTypeOK, CallRows, Locks, Tables
  <1>6. Placed'
    BY <1>1, <1>3, <1>4, Apart DEF Placed, At
  <1>7. Locked'
    BY <1>1, <1>2, <1>3, <1>4, Apart DEF Locked, Inside, InTx, At, Exclusive, Locks, Tables
  <1>8. CollectionSound'
    BY <1>1, <1>4 DEF CollectionSound, At
  <1>9. Data'
    BY <1>2, <1>3, <1>4, <1>8, Apart, Frame DEF Tables
  <1> QED BY <1>5, <1>6, <1>7, <1>9 DEF AttachmentsInv, Data

(* What it finds is of deleted rows or of none, and an old file is of no   *)
(* commit in doubt whose request wrote it.                                 *)
LEMMA QueryKeeps ==
  ASSUME AttachmentsInv, Query
  PROVE  AttachmentsInv'
  <1>1. /\ At("collector", "files") /\ UNCHANGED <<rows, files, doubt, lost, copy>>
        /\ \/ Release("collector")
           \/ /\ backupLock = Nobody /\ backupLock' = "collector"
              /\ calls' = [calls EXCEPT !["collector"].pc = "unlink", !["collector"].found = Garbage]
              /\ UNCHANGED <<sharing, alone, tx, mu, backend, faults>>
    BY DEF Query
  <1>2. /\ AttachmentsTypeOK /\ Placed /\ Locked /\ Data
    BY DEF AttachmentsInv, Data
  <1>3. CASE Release("collector")
    BY <1>1, <1>3, EndKeeps, Apart
  <1>4. CASE /\ backupLock = Nobody /\ backupLock' = "collector"
             /\ calls' = [calls EXCEPT !["collector"].pc = "unlink", !["collector"].found = Garbage]
             /\ UNCHANGED <<sharing, alone, tx, mu, backend, faults>>
    <2>1. Garbage \subseteq AttachmentIds
      BY DEF Garbage, Files
    <2>2. /\ calls' \in [Callers -> CallRows]
          /\ calls'["collector"].pc = "unlink" /\ calls'["collector"].op = calls["collector"].op
          /\ calls'["collector"].found = Garbage
          /\ \A b \in Callers : b # "collector" => calls'[b] = calls[b]
      <3>1. Finds("collector", "unlink", Garbage) /\ "unlink" \in Places
        BY <1>4 DEF Finds, Places
      <3> QED BY <1>2, <2>1, <3>1, GoOnFinding, Apart
    <2>3. AttachmentsTypeOK'
      BY <1>1, <1>2, <1>4, <2>2, Apart DEF AttachmentsTypeOK, CallRows
    <2>4. Placed'
      BY <1>1, <1>2, <2>2, Apart DEF Placed, At
    <2>5. Locked'
      <3>1. ASSUME NEW b \in Requests \cup {"collector"}, Inside(b)'
            PROVE  IF Exclusive(b)' THEN alone' = b ELSE b \in sharing'
        BY <1>1, <1>2, <1>4, <2>2, <3>1, Apart DEF Locked, Inside, Exclusive, At
      <3>2. ASSUME NEW b \in Requests, InTx(b)' PROVE tx' = b
        BY <1>1, <1>2, <1>4, <2>2, <3>2, Apart DEF Locked, InTx, At
      <3>3. /\ alone' # Nobody => sharing' = {}
            /\ doubt' # {} => tx' = Nobody
            /\ backupLock' = "collector"
            /\ ~(calls'["outside"].pc \in {"dump", "copy"})
        BY <1>1, <1>2, <1>4, <2>2, Apart DEF Locked
      <3> QED BY <3>1, <3>2, <3>3 DEF Locked
    <2>6. CollectionSound'
      <3>1. \A i \in Garbage : i \notin Live /\ \A d \in doubt : d.id = i => d.reused
        BY <1>2 DEF Garbage, Live, Records, Files, Data, DoubtSound
      <3> QED BY <1>1, <2>2, <3>1 DEF CollectionSound, Live
    <2>7. Data'
      BY <1>1, <1>2, <2>2, <2>6, Apart, Frame
    <2> QED BY <2>3, <2>4, <2>5, <2>7 DEF AttachmentsInv, Data
  <1> QED BY <1>1, <1>3, <1>4

(* It removes what it found and the tombstones that are old enough.        *)
LEMMA CollectKeeps ==
  ASSUME AttachmentsInv, Collect
  PROVE  AttachmentsInv'
  <1> DEFINE G == calls["collector"].found
  <1>1. /\ At("collector", "unlink") /\ Release("collector") /\ UNCHANGED <<doubt, lost, copy>>
        /\ files' = [i \in AttachmentIds |-> IF i \in G THEN "none" ELSE files[i]]
        /\ rows' = [i \in AttachmentIds |->
             IF rows[i].state = "deleted" /\ rows[i].old THEN NoRowFor("purged") ELSE rows[i]]
    BY DEF Collect
  <1>2. /\ AttachmentsTypeOK /\ Placed /\ Locked /\ Data
    BY DEF AttachmentsInv, Data
  <1>3. alone = "collector" /\ backupLock = "collector"
    BY <1>1, <1>2 DEF Locked, Placed, Inside, Exclusive, At
  <1>4. FilesGo(G)
    BY <1>1, <1>2 DEF FilesGo, AttachmentsTypeOK, Data, CollectionSound
  <1>5. NoRowFor("purged") \in [state : {"absent", "live", "deleted", "purged"},
                                key : UploadKeys \cup {Nobody}, old : BOOLEAN]
    BY DEF NoRowFor
  <1>6. /\ rows' \in [AttachmentIds -> [state : {"absent", "live", "deleted", "purged"},
                                        key : UploadKeys \cup {Nobody}, old : BOOLEAN]]
        /\ \A i \in AttachmentIds : \/ rows'[i] = rows[i]
                                    \/ rows[i].state = "deleted" /\ rows'[i].state = "purged"
    BY <1>1, <1>2, <1>5 DEF AttachmentsTypeOK, NoRowFor
  <1> HIDE DEF G
  <1> QED BY <1>1, <1>3, <1>4, <1>6, FilesGoKeeps

(* The backup from outside takes its lock before it dumps the rows, and    *)
(* then no file goes until it has copied them.                             *)
LEMMA LockBackupKeeps ==
  ASSUME AttachmentsInv, LockBackup
  PROVE  AttachmentsInv'
  <1>1. /\ At("outside", "idle") /\ backupLock = Nobody /\ backupLock' = "outside"
        /\ faults' = faults + 1 /\ Go("outside", "dump")
        /\ UNCHANGED <<sharing, alone, tx, mu, backend, rows, files, doubt, lost, copy>>
    BY DEF LockBackup
  <1>2. /\ AttachmentsTypeOK /\ Placed /\ Locked /\ Data /\ "dump" \in Places
    BY DEF AttachmentsInv, Data, Places
  <1>3. /\ calls' \in [Callers -> CallRows] /\ calls'["outside"].pc = "dump"
        /\ \A b \in Callers : b # "outside" => calls'[b] = calls[b]
    BY <1>1, <1>2, GoOn, Apart
  <1>4. AttachmentsTypeOK'
    BY <1>1, <1>2, <1>3, Apart DEF AttachmentsTypeOK, CallRows
  <1>5. Placed'
    BY <1>2, <1>3, Apart DEF Placed, At
  <1>6. Locked'
    BY <1>1, <1>2, <1>3, Apart DEF Locked, Inside, InTx, At, Exclusive
  <1>7. DumpSound'
    BY <1>3 DEF DumpSound, At
  <1>8. Data'
    BY <1>1, <1>2, <1>3, <1>7, Apart, Frame
  <1> QED BY <1>4, <1>5, <1>6, <1>8 DEF AttachmentsInv, Data

(* The rows it dumps as live have their files then.                        *)
LEMMA DumpKeeps ==
  ASSUME AttachmentsInv, Dump
  PROVE  AttachmentsInv'
  <1>1. /\ At("outside", "dump") /\ UNCHANGED <<Locks, Tables>>
        /\ calls' = [calls EXCEPT !["outside"].pc = "copy", !["outside"].found = Live]
    BY DEF Dump
  <1>2. /\ AttachmentsTypeOK /\ Placed /\ Locked /\ Data /\ Live \subseteq AttachmentIds
    BY DEF AttachmentsInv, Data, Live
  <1>3. /\ calls' \in [Callers -> CallRows] /\ calls'["outside"].pc = "copy"
        /\ calls'["outside"].found = Live
        /\ \A b \in Callers : b # "outside" => calls'[b] = calls[b]
    <2>1. Finds("outside", "copy", Live) /\ "copy" \in Places
      BY <1>1 DEF Finds, Places
    <2> QED BY <1>2, <2>1, GoOnFinding, Apart
  <1>4. AttachmentsTypeOK'
    BY <1>1, <1>2, <1>3 DEF AttachmentsTypeOK, CallRows, Locks, Tables
  <1>5. Placed'
    BY <1>2, <1>3, Apart DEF Placed, At
  <1>6. Locked'
    BY <1>1, <1>2, <1>3, Apart DEF Locked, Inside, InTx, At, Exclusive, Locks, Tables
  <1>7. DumpSound'
    BY <1>1, <1>2, <1>3 DEF DumpSound, Data, LiveHasFile, Files, Tables
  <1>8. Data'
    BY <1>1, <1>2, <1>3, <1>7, Apart, Frame DEF Tables
  <1> QED BY <1>4, <1>5, <1>6, <1>8 DEF AttachmentsInv, Data

(* And still have them when the directory is copied.                       *)
LEMMA CopyFilesKeeps ==
  ASSUME AttachmentsInv, CopyFiles
  PROVE  AttachmentsInv'
  <1>1. /\ At("outside", "copy") /\ Release("outside") /\ UNCHANGED <<rows, files, doubt, lost>>
        /\ copy' = [rows |-> calls["outside"].found, files |-> Files]
    BY DEF CopyFiles
  <1>2. /\ AttachmentsTypeOK /\ Placed /\ Locked /\ Data
    BY DEF AttachmentsInv, Data
  <1>3. /\ calls' \in [Callers -> CallRows] /\ LocksTyped' /\ UNCHANGED <<backend, faults>>
        /\ calls'["outside"].pc = "idle"
        /\ \A b \in Callers : b # "outside" => calls'[b] = calls[b]
    BY <1>1, <1>2, Releases, Apart DEF LocksTyped
  <1>4. /\ calls["outside"].found \ lost \subseteq Files /\ Files \subseteq AttachmentIds
        /\ calls["outside"].found \subseteq AttachmentIds
    BY <1>1, <1>2, Apart DEF Data, DumpSound, Files, AttachmentsTypeOK
  <1>5. copy' \in [rows : SUBSET AttachmentIds, files : SUBSET AttachmentIds] /\ BackupWhole'
    BY <1>1, <1>4 DEF BackupWhole
  <1>6. AttachmentsTypeOK'
    BY <1>1, <1>2, <1>3, <1>5 DEF AttachmentsTypeOK, CallRows, LocksTyped
  <1>7. Placed' /\ Locked'
    BY <1>1, <1>2, EndKeepsLocks, Apart
  <1>8. ASSUME NEW b \in Requests PROVE WorkSound(b)'
    BY <1>1, <1>2, <1>3, Apart DEF Data, WorkSound, Records, Files
  <1>9. DoubtSound' /\ CollectionSound' /\ DumpSound' /\ LiveHasFile'
    BY <1>1, <1>2, <1>3, Apart
       DEF Data, DoubtSound, CollectionSound, DumpSound, LiveHasFile, At, Live, Records, Files
  <1> QED BY <1>5, <1>6, <1>7, <1>8, <1>9 DEF AttachmentsInv

(* A tombstone that has grown old is a row in the same state.              *)
LEMMA OldRow ==
  ASSUME NEW r \in [state : {"absent", "live", "deleted", "purged"},
                    key : UploadKeys \cup {Nobody}, old : BOOLEAN]
  PROVE  LET q == [r EXCEPT !.old = TRUE] IN
         /\ q.state = r.state
         /\ q \in [state : {"absent", "live", "deleted", "purged"},
                   key : UploadKeys \cup {Nobody}, old : BOOLEAN]
  OBVIOUS

(* Growing old removes nothing, and the file that a request under way or in*)
(* doubt wrote does not grow old.                                          *)
LEMMA AgeKeeps ==
  ASSUME AttachmentsInv, NEW i \in AttachmentIds, Age(i)
  PROVE  AttachmentsInv'
  <1>1. UNCHANGED <<backend, doubt, lost, Locks, calls, copy, faults>>
    BY DEF Age
  <1>2. /\ AttachmentsTypeOK /\ Placed /\ Locked /\ Data
    BY DEF AttachmentsInv, Data
  <1> DEFINE Same == /\ TablesTyped'
                     /\ \A j \in AttachmentIds : rows'[j].state = rows[j].state
                     /\ \A j \in AttachmentIds : files'[j] = "none" <=> files[j] = "none"
                     /\ \A d \in doubt : ~d.reused => files'[d.id] = files[d.id]
                     /\ \A c \in Requests :
                          /\ At(c, "commit") /\ calls[c].found = {}
                          /\ calls[c].id \in AttachmentIds
                          => files'[calls[c].id] = files[calls[c].id]
  <1>3. Same
    <2>1. ASSUME files[i] = "fresh", files' = [files EXCEPT ![i] = "old"], UNCHANGED rows,
                 \A d \in doubt : d.id = i => d.reused,
                 \A c \in Requests : At(c, "commit") /\ calls[c].id = i => calls[c].found # {}
          PROVE  Same
      <3>1. /\ files' \in [AttachmentIds -> {"none", "fresh", "old"}] /\ files'[i] = "old"
            /\ \A j \in AttachmentIds : j # i => files'[j] = files[j]
        BY <1>2, <2>1 DEF AttachmentsTypeOK
      <3>2. \A d \in doubt : d.id \in AttachmentIds
        BY <1>2 DEF AttachmentsTypeOK
      <3>3. TablesTyped'
        BY <1>1, <1>2, <2>1, <3>1 DEF AttachmentsTypeOK, TablesTyped
      <3>4. \A c \in Requests : /\ At(c, "commit") /\ calls[c].found = {}
                                /\ calls[c].id \in AttachmentIds
                                => files'[calls[c].id] = files[calls[c].id]
        BY <2>1, <3>1
      <3> QED BY <2>1, <3>1, <3>2, <3>3, <3>4
    <2>2. ASSUME rows' = [rows EXCEPT ![i].old = TRUE], UNCHANGED files PROVE Same
      <3>1. /\ rows' \in [AttachmentIds -> [state : {"absent", "live", "deleted", "purged"},
                                           key : UploadKeys \cup {Nobody}, old : BOOLEAN]]
            /\ \A j \in AttachmentIds : rows'[j].state = rows[j].state
        <4> DEFINE r == [rows[i] EXCEPT !.old = TRUE]
        <4>1. /\ r.state = rows[i].state
              /\ r \in [state : {"absent", "live", "deleted", "purged"},
                        key : UploadKeys \cup {Nobody}, old : BOOLEAN]
          <5>1. rows[i] \in [state : {"absent", "live", "deleted", "purged"},
                             key : UploadKeys \cup {Nobody}, old : BOOLEAN]
            BY <1>2 DEF AttachmentsTypeOK
          <5> QED BY <5>1, OldRow
        <4>2. rows' = [rows EXCEPT ![i] = r]
          BY <1>2, <2>2 DEF AttachmentsTypeOK
        <4> HIDE DEF r
        <4> QED BY <1>2, <4>1, <4>2 DEF AttachmentsTypeOK
      <3> QED BY <1>1, <1>2, <2>2, <3>1 DEF AttachmentsTypeOK, TablesTyped
    <2> HIDE DEF Same
    <2> QED BY <2>1, <2>2 DEF Age
  <1>4. AttachmentsTypeOK'
    BY <1>1, <1>2, <1>3 DEF AttachmentsTypeOK, TablesTyped, Locks
  <1>5. Placed' /\ Locked'
    BY <1>1, <1>2 DEF Placed, Locked, At, Inside, InTx, Exclusive, Locks
  <1>6. Live' = Live /\ Records' = Records /\ Files' = Files
    BY <1>3 DEF Live, Records, Files
  <1>7. ASSUME NEW c \in Requests PROVE WorkSound(c)'
    <2>1. /\ calls'[c] = calls[c] /\ WorkSound(c)
          /\ calls[c].pc \in {"mu", "files", "commit"} /\ calls[c].op # "bundle" => calls[c].id \in AttachmentIds
          /\ calls[c].pc = "commit" => calls[c].op # "bundle"
      BY <1>1, <1>2 DEF Placed, At, Data
    <2> QED BY <1>1, <1>3, <1>6, <2>1 DEF WorkSound, At
  <1>8. DoubtSound' /\ CollectionSound' /\ DumpSound' /\ LiveHasFile' /\ BackupWhole'
    BY <1>1, <1>2, <1>3, <1>6
       DEF Data, DoubtSound, CollectionSound, DumpSound, LiveHasFile, BackupWhole, At
  <1> QED BY <1>4, <1>5, <1>7, <1>8 DEF AttachmentsInv

-----------------------------------------------------------------------------
(* The invariant holds at first: there are no rows and no files.           *)
LEMMA InitHolds ==
  ASSUME AttachmentsInit
  PROVE  AttachmentsInv
  <1>1. NoRequest \in CallRows /\ NoRequest.pc = "idle"
    BY DEF NoRequest, CallRows, Places
  <1>2. /\ NoRowFor("absent").state = "absent"
        /\ NoRowFor("absent") \in [state : {"absent", "live", "deleted", "purged"},
                                   key : UploadKeys \cup {Nobody}, old : BOOLEAN]
    BY DEF NoRowFor
  <1>3. calls \in [Callers -> CallRows] /\ \A c \in Callers : calls[c].pc = "idle"
    BY <1>1 DEF AttachmentsInit
  <1>4. AttachmentsTypeOK
    BY <1>2, <1>3, AttachmentsAssumption DEF AttachmentsInit, AttachmentsTypeOK, CallRows
  <1>5. Placed /\ Locked
    BY <1>3, Apart DEF AttachmentsInit, Placed, Locked, At, Inside, InTx
  <1>6. Live = {}
    BY <1>2 DEF AttachmentsInit, Live
  <1>7. \A c \in Requests : WorkSound(c)
    BY <1>3, Apart DEF WorkSound
  <1>8. DoubtSound /\ CollectionSound /\ DumpSound /\ LiveHasFile /\ BackupWhole
    BY <1>3, <1>6, Apart
       DEF AttachmentsInit, DoubtSound, CollectionSound, DumpSound, LiveHasFile, BackupWhole, At
  <1> QED BY <1>4, <1>5, <1>7, <1>8 DEF AttachmentsInv

(* Every step keeps it.                                                    *)
LEMMA StepKeeps ==
  ASSUME AttachmentsInv, [AttachmentsNext]_attachmentVars
  PROVE  AttachmentsInv'
  <1>1. CASE UNCHANGED attachmentVars
    BY <1>1 DEF attachmentVars, AttachmentsInv, AttachmentsTypeOK, Placed, Locked, WorkSound,
                DoubtSound, CollectionSound, DumpSound, LiveHasFile, BackupWhole, At, Inside,
                InTx, Exclusive, Live, Records, Files
  <1>2. ASSUME NEW c \in Requests, NEW id \in AttachmentIds, NEW key \in UploadKeys \cup {Nobody},
               NEW op \in {"upload", "import", "read", "delete"}, Start(c, op, id, key)
        PROVE  AttachmentsInv'
    BY <1>2, StartKeeps
  <1>3. ASSUME NEW c \in Requests, Start(c, "bundle", Nobody, Nobody) PROVE AttachmentsInv'
    BY <1>3, StartKeeps
  <1>4. ASSUME NEW c \in Requests, StepOf(c) PROVE AttachmentsInv'
    <2> HIDE DEF AttachmentsInv
    <2> QED BY <1>4, LockMaintenanceKeeps, BeginKeeps, RowsKeeps, LockFilesKeeps, WriteFileKeeps,
               CommitUploadKeeps, FinishKeeps DEF StepOf
  <1>5. ASSUME Collection PROVE AttachmentsInv'
    <2> HIDE DEF AttachmentsInv
    <2> QED BY <1>5, StartCollectionKeeps, LockMaintenanceKeeps, LockFilesKeeps, QueryKeeps,
               CollectKeeps DEF Collection
  <1> HIDE DEF AttachmentsInv
  <1>6. ASSUME AttachmentsNext PROVE AttachmentsInv'
    <2> DEFINE Goal == AttachmentsInv'
    <2>1. ASSUME NEW c \in Requests, NEW id \in AttachmentIds,
                 \/ \E key \in UploadKeys \cup {Nobody}, op \in {"upload", "import"} :
                      Start(c, op, id, key)
                 \/ \E op \in {"read", "delete"} : Start(c, op, id, Nobody)
          PROVE  Goal
      BY <1>2, <2>1
    <2>2. ASSUME NEW c \in Requests,
                 StepOf(c) \/ (backend = "sqlite" /\ Start(c, "bundle", Nobody, Nobody))
          PROVE  Goal
      BY <1>3, <1>4, <2>2
    <2>3. ASSUME NEW d \in doubt, Decide(d) PROVE Goal
      BY <2>3, DecideKeeps
    <2>4. ASSUME Crash \/ Collection \/ LockBackup \/ Dump \/ CopyFiles PROVE Goal
      BY <1>5, <2>4, CrashKeeps, LockBackupKeeps, DumpKeeps, CopyFilesKeeps
    <2>5. ASSUME NEW i \in AttachmentIds, Age(i) PROVE Goal
      BY <2>5, AgeKeeps
    <2> HIDE DEF Goal
    <2>6. Goal
      BY <1>6, <2>1, <2>2, <2>3, <2>4, <2>5, Zenon DEF AttachmentsNext
    <2> QED BY <2>6 DEF Goal
  <1> QED BY <1>1, <1>6

(* The rows, the files, the locks and the calls keep their types and the   *)
(* lock discipline.                                                        *)
THEOREM AttachmentsInvariant == AttachmentsSpec => []AttachmentsInv
  <1> QED BY InitHolds, StepKeeps, PTL DEF AttachmentsSpec

(* A row that can be read has its file, after commits in doubt,            *)
(* collections and crashes in any order, and a backup has the files of its *)
(* live rows (UploadAttachment, DeleteAttachment, CollectAttachmentGarbage,*)
(* BackupBundle, deploy/hosted/backup.py); but for the files that the      *)
(* collection removes while the commit of an import that took them over is *)
(* in doubt.                                                               *)
THEOREM RowsKeepFiles == AttachmentsSpec => []RowsHaveFiles
  <1>1. AttachmentsInv => RowsHaveFiles
    BY DEF AttachmentsInv, RowsHaveFiles
  <1> QED BY <1>1, AttachmentsInvariant, PTL

(* The collection and a request never wait for each other's files.mu and   *)
(* connection, though they take them in opposite orders: files.maintenance *)
(* keeps every request out of the transaction while the collection runs.   *)
THEOREM NoLockCycle == AttachmentsSpec => []LocksAcyclic
  <1>1. AttachmentsInv => LocksAcyclic
    <2> SUFFICES ASSUME AttachmentsInv, NEW c \in Callers, tx = c, At(c, "mu"),
                        At("collector", "files")
                 PROVE  FALSE
      BY DEF LocksAcyclic
    <2>1. alone = "collector" /\ sharing = {}
      BY Apart DEF AttachmentsInv, Locked, Placed, Inside, Exclusive, At
    <2>2. c = "collector" \/ c = "outside" \/ c \in Requests
      BY DEF Callers
    <2> QED BY <2>1, <2>2, Apart DEF AttachmentsInv, Locked, Placed, Inside, At
  <1> QED BY <1>1, AttachmentsInvariant, PTL

-----------------------------------------------------------------------------
(* Channels.                                                               *)

Post ==
  [row : {"absent", "present", "removed"}, channel : ChannelIds \cup {None},
   thread : PostIds \cup {0}, author : Participants \cup {None}, key : Keys \cup {None},
   created_at : Nat, audience : SUBSET Agents]

Reader ==
  [channel : ChannelIds \cup {None}, due : SUBSET PostIds, cursor : PostIds \cup {0}]

ChannelTypes ==
  /\ channels \subseteq ChannelIds /\ IsFiniteSet(channels)
  /\ subs \in [ChannelIds -> SUBSET Agents] /\ \A c \in ChannelIds : IsFiniteSet(subs[c])
  /\ posts \in [PostIds -> Post] /\ IsFiniteSet(Posts)
  /\ notices \in [MessageIds -> PostIds \cup {0}]
  /\ pager \in Reader

(* A notification that can still be delivered names a post that is there,  *)
(* made a week before it expires, or expires as the post goes.             *)
NoticeOK(m) ==
  /\ notices[m] # 0 => messages[m].state # "absent" /\ posts[notices[m]].row # "absent"
  /\ messages[m].state \in Active /\ notices[m] # 0 =>
       \/ messages[m].expires_at <= now + TxTime
       \/ /\ notices[m] \in Posts
          /\ messages[m].expires_at <= posts[notices[m]].created_at + TxTime + Week

(* A reader knows posts that were made, and what is left of them is in its *)
(* channel.                                                                *)
ReaderOK ==
  /\ \A p \in PostIds : p \in pager.due \/ p = pager.cursor => posts[p].row # "absent"
  /\ \A p \in pager.due \cap Posts : p \in Roots(pager.channel)

ChannelsInv ==
  /\ DeliveryInv /\ ChannelTypes /\ validArchivedChannels /\ FanOutComplete
  /\ \A m \in MessageIds : NoticeOK(m)
  /\ ReaderOK /\ PagesComplete

-----------------------------------------------------------------------------
(* What a post does to the messages: ids are the new ones, one for each    *)
(* subscriber.                                                             *)
Notified(author, p, targets, t, ids, to) ==
  /\ ids \subseteq MessageIds /\ to \in [ids -> targets]
  /\ \A a \in targets : \E m \in ids : to[m] = a
  /\ \A m \in ids : /\ messages[m].state = "absent" /\ notices'[m] = p
                    /\ messages'[m] = NewMessage(author, Notification(to[m]), t)
  /\ \A m \in MessageIds \ ids :
       /\ notices'[m] = notices[m]
       /\ messages'[m] \in {messages[m], expireMessages(messages, t)[m]}
  /\ messages' \in [MessageIds -> Message] /\ notices' \in [MessageIds -> PostIds \cup {0}]

(* As many messages as subscribers and none for two: one for each.         *)
LEMMA OneEach ==
  ASSUME NEW ids, NEW targets, IsFiniteSet(targets), Cardinality(ids) = Cardinality(targets),
         NEW to \in [ids -> targets], \A m, n \in ids : to[m] = to[n] => m = n
  PROVE  \A a \in targets : \E m \in ids : to[m] = a
  <1>1. to \in Injection(ids, targets)
    BY DEF Injection, IsInjective
  <1>2. to \in Surjection(ids, targets)
    BY <1>1, FS_Injection
  <1> QED BY <1>2 DEF Surjection

(* A notification is a message of its subscriber that waits for a week.    *)
LEMMA NotificationType ==
  ASSUME NEW author \in Agents \cup Humans, NEW a \in Agents, NEW t \in Nat \ {0}
  PROVE  LET msg == NewMessage(author, Notification(a), t) IN
         /\ msg \in Message /\ msg.state = "queued" /\ msg.to = a
         /\ msg.expires_at = t + Week /\ msg.delivered_at = 0 /\ InTime(msg)
         /\ \A res : HeldRow(msg, res)
  <1>1. a \notin RemotePrincipals /\ Week \in Nat \ {0} /\ TxTime \in Nat
    BY DeliveryAssumption, ChannelsAssumption
  <1>2. author \in Participants /\ a \in Participants /\ t + Week \in Nat \ {0}
    BY <1>1 DEF Participants
  <1>3. NewMessage(author, Notification(a), t) =
          [state |-> "queued", from |-> author, to |-> a, mode |-> "notify", response_to |-> None,
           idempotency_key |-> None, created_at |-> t, expires_at |-> t + Week,
           delivered_at |-> 0, acknowledged_at |-> 0, response_message_id |-> None,
           reservation_id |-> None]
    BY <1>1 DEF NewMessage, Notification
  <1>4. NewMessage(author, Notification(a), t) \in Message
    BY <1>2, <1>3 DEF Message, Modes, Active
  <1> QED BY <1>1, <1>2, <1>3, <1>4 DEF InTime, HeldRow

(* Notify writes the notifications of the targets and nothing else.        *)
LEMMA NotifyRows ==
  ASSUME messages \in [MessageIds -> Message], notices \in [MessageIds -> PostIds \cup {0}],
         NEW author \in Agents \cup Humans, NEW p \in PostIds, NEW targets \in SUBSET Agents,
         IsFiniteSet(targets), NEW t \in Nat \ {0}, Notify(author, p, targets, t)
  PROVE  \E ids, to : Notified(author, p, targets, t, ids, to)
  <1> DEFINE Goal == \E ids, to : Notified(author, p, targets, t, ids, to)
  <1>1. CASE targets = {}
    <2>1. messages' = messages /\ notices' = notices
      BY <1>1 DEF Notify
    <2>2. PICK to : to = [x \in {} |-> x]
      OBVIOUS
    <2>3. Notified(author, p, targets, t, {}, to)
      BY <1>1, <2>1, <2>2 DEF Notified
    <2> QED BY <2>3
  <1>2. CASE targets # {}
    <2> DEFINE msgs == expireMessages(messages, t)
    <2>6. PICK ids \in SUBSET {m \in MessageIds : messages[m].state = "absent"} :
            /\ Cardinality(ids) = Cardinality(targets)
            /\ \E to \in [ids -> targets] :
                 /\ \A m, n \in ids : to[m] = to[n] => m = n
                 /\ messages' = [m \in MessageIds |->
                      IF m \in ids THEN NewMessage(author, Notification(to[m]), t) ELSE msgs[m]]
            /\ notices' = [m \in MessageIds |-> IF m \in ids THEN p ELSE notices[m]]
      BY <1>2 DEF Notify
    <2>1. PICK to \in [ids -> targets] :
            /\ Cardinality(ids) = Cardinality(targets)
            /\ \A m, n \in ids : to[m] = to[n] => m = n
            /\ messages' = [m \in MessageIds |->
                 IF m \in ids THEN NewMessage(author, Notification(to[m]), t) ELSE msgs[m]]
            /\ notices' = [m \in MessageIds |-> IF m \in ids THEN p ELSE notices[m]]
      BY <2>6
    <2>2. \A a \in targets : \E m \in ids : to[m] = a
      BY <2>1, OneEach
    <2>3. msgs \in [MessageIds -> Message]
      BY ExpireType
    <2>4. messages' \in [MessageIds -> Message] /\ notices' \in [MessageIds -> PostIds \cup {0}]
      <3>1. \A m \in ids : NewMessage(author, Notification(to[m]), t) \in Message
        BY NotificationType
      <3> HIDE DEF msgs
      <3> QED BY <2>1, <2>3, <3>1
    <2>5. Notified(author, p, targets, t, ids, to)
      BY <2>1, <2>2, <2>4 DEF Notified
    <2> QED BY <2>5
  <1> QED BY <1>1, <1>2

(* Expiry at a later reading of the clock.                                 *)
LEMMA ExpireLater ==
  ASSUME messages \in [MessageIds -> Message], NEW t, NEW m \in MessageIds
  PROVE  Carried(messages[m], expireMessages(messages, t)[m])
  BY DEF Carried, expireMessages, Overdue, Message, Present, Active, Terminal

(* A post as one transaction on the tables.                                *)
Posted(author, c, thread, key, p, t, ids, to) ==
  /\ c \in channels
  /\ thread # 0 => thread \in Roots(c)
  /\ PriorPosts(author, key) = {} /\ Cardinality(Posts) < MaxPosts
  /\ posts[p].row = "absent"
  /\ posts' = [posts EXCEPT ![p] =
       [row |-> "present", channel |-> c, thread |-> thread, author |-> author,
        key |-> key, created_at |-> now, audience |-> subs[c] \ {author}]]
  /\ Notified(author, p, subs[c] \ {author}, t, ids, to)
  /\ now' = t /\ t \in now..(now + TxTime)
  /\ UNCHANGED <<scopeToken, agents, links, reservations, channels, subs, pager>>

(* PostChannel as that transaction.                                        *)
LEMMA PostRows ==
  ASSUME ChannelsInv, NEW author \in Agents \cup Humans, NEW c \in ChannelIds,
         NEW thread \in {0} \cup PostIds, NEW key \in Keys \cup {None}, NEW p \in PostIds,
         NEW t \in LaterInTx, PostChannel(author, c, thread, key, p, t)
  PROVE  \E ids, to : Posted(author, c, thread, key, p, t, ids, to)
  <1>1. /\ messages \in [MessageIds -> Message] /\ notices \in [MessageIds -> PostIds \cup {0}]
        /\ subs[c] \in SUBSET Agents /\ IsFiniteSet(subs[c]) /\ now \in Nat \ {0}
    BY DEF ChannelsInv, ChannelTypes, DeliveryInv, DeliveryTypeOK, RegistryTypeOK
  <1>2. t \in now..(now + TxTime) /\ t \in Nat \ {0}
    BY <1>1, DeliveryAssumption DEF LaterInTx
  <1>3. PICK targets \in SUBSET Agents : targets = subs[c] \ {author}
    BY <1>1
  <1>4. IsFiniteSet(targets)
    BY <1>1, <1>3, FS_Subset
  <1>5. Notify(author, p, targets, t)
    BY <1>3 DEF PostChannel, FanOut
  <1>6. PICK ids, to : Notified(author, p, targets, t, ids, to)
    BY <1>1, <1>2, <1>4, <1>5, NotifyRows
  <1> QED BY <1>2, <1>3, <1>6 DEF PostChannel, Posted, ClockOnly

(* The notifications keep the inbox as sound as any message does.          *)
LEMMA PostDelivers ==
  ASSUME ChannelsInv, NEW author \in Agents \cup Humans, NEW c \in ChannelIds,
         NEW thread, NEW key, NEW p \in PostIds, NEW t, NEW ids, NEW to,
         Posted(author, c, thread, key, p, t, ids, to)
  PROVE  DeliveryInv'
  <1>1. /\ messages \in [MessageIds -> Message] /\ subs[c] \in SUBSET Agents /\ now \in Nat \ {0}
        /\ reservations \in [ReservationIds -> Reservation] /\ DeliveryInv
    BY DEF ChannelsInv, ChannelTypes, DeliveryInv, DeliveryTypeOK, RegistryTypeOK
  <1>2. /\ t \in Nat \ {0} /\ now <= t /\ now' = t /\ agents' = agents /\ scopeToken' = scopeToken
        /\ links' = links /\ reservations' = reservations
    BY <1>1, DeliveryAssumption DEF Posted
  <1>3. PICK targets \in SUBSET Agents : Notified(author, p, targets, t, ids, to)
    BY <1>1 DEF Posted
  <1>4. ASSUME NEW m \in MessageIds
        PROVE  /\ HeldRow(messages'[m], reservations')
               /\ InTime(messages'[m]) /\ messages'[m].delivered_at <= now'
    <2>1. CASE m \in ids
      <3>1. messages'[m] = NewMessage(author, Notification(to[m]), t) /\ to[m] \in Agents
        BY <1>3, <2>1 DEF Notified
      <3> QED BY <1>2, <3>1, NotificationType
    <2>2. CASE m \notin ids
      <3>1. messages'[m] \in {messages[m], expireMessages(messages, t)[m]}
        BY <1>3, <2>2 DEF Notified
      <3>2. /\ HeldRow(messages[m], reservations) /\ InTime(messages[m])
            /\ messages[m].delivered_at <= now /\ messages[m].delivered_at \in Nat
        BY <1>1 DEF DeliveryInv, ReservedIffHeld, DeliveredInTime, Message
      <3>3. messages[m].delivered_at <= t
        BY <1>1, <1>2, <3>2
      <3>4. /\ HeldRow(expireMessages(messages, t)[m], reservations)
            /\ InTime(expireMessages(messages, t)[m])
            /\ expireMessages(messages, t)[m].delivered_at <= t
        BY <1>1, <1>2, <3>2, <3>3, ExpireHeld, ExpireInTime
      <3> QED BY <1>2, <3>1, <3>2, <3>3, <3>4
    <2> QED BY <2>1, <2>2
  <1>5. messages' \in [MessageIds -> Message]
    BY <1>3 DEF Notified
  <1>6. ReservationFencing'
    BY <1>1, <1>2 DEF DeliveryInv, ReservationFencing, Held
  <1> QED BY <1>1, <1>2, <1>4, <1>5, <1>6, InboxFrame

(* What was read stays read: posts do not change while they are there.     *)
LEMMA ReaderKeeps ==
  ASSUME ChannelTypes, ReaderOK, PagesComplete, pager' = pager,
         \A p \in PostIds : /\ posts[p].row # "absent" => posts'[p].row # "absent"
                            /\ posts'[p].row = "present" =>
                                 posts'[p] = posts[p] \/ posts[p].row = "absent"
  PROVE  ReaderOK' /\ PagesComplete'
  <1>1. \A p \in PostIds : (p \in pager.due \/ p = pager.cursor) /\ posts'[p].row = "present" =>
          posts'[p] = posts[p] /\ posts[p].row = "present"
    BY DEF ReaderOK
  <1>2. \A p \in pager.due : p \in PostIds
    BY DEF ChannelTypes, Reader
  <1>3. ASSUME NEW p \in pager.due, p \in Posts'
        PROVE  p \in Posts /\ posts'[p] = posts[p] /\ p \in Roots(pager.channel)
               /\ p \in Roots(pager.channel)'
    BY <1>1, <1>2, <1>3 DEF ReaderOK, Posts, Roots
  <1>4. ReaderOK'
    BY <1>2, <1>3 DEF ReaderOK
  <1>5. ASSUME pager.cursor \in Posts', NEW p \in pager.due, p \in Posts'
        PROVE  p \in AfterCursor(pager.channel, pager.cursor)'
    <2>1. pager.cursor \in Posts /\ posts'[pager.cursor] = posts[pager.cursor]
      BY <1>1, <1>5 DEF Posts
    <2>2. p \in Posts /\ posts'[p] = posts[p] /\ p \in Roots(pager.channel)'
      BY <1>3, <1>5
    <2>3. pager.cursor # 0 => Older(p, pager.cursor)
      BY <1>5, <2>1, <2>2 DEF PagesComplete, AfterCursor
    <2>4. pager.cursor # 0 => Older(p, pager.cursor)'
      BY <2>1, <2>2, <2>3 DEF Older
    <2> QED BY <2>2, <2>4 DEF AfterCursor
  <1> QED BY <1>4, <1>5 DEF PagesComplete

(* A post keeps the invariant.                                             *)
LEMMA PostKeeps ==
  ASSUME ChannelsInv, NEW author \in Agents \cup Humans, NEW c \in ChannelIds,
         NEW thread \in {0} \cup PostIds, NEW key \in Keys \cup {None}, NEW p \in PostIds,
         author \in Agents => Registered(author),
         NEW t, NEW ids, NEW to, Posted(author, c, thread, key, p, t, ids, to)
  PROVE  ChannelsInv'
  <1>1. /\ messages \in [MessageIds -> Message] /\ subs[c] \in SUBSET Agents /\ now \in Nat \ {0}
        /\ notices \in [MessageIds -> PostIds \cup {0}] /\ posts \in [PostIds -> Post]
        /\ IsFiniteSet(Posts) /\ 0 \notin PostIds
    BY ChannelsAssumption
       DEF ChannelsInv, ChannelTypes, DeliveryInv, DeliveryTypeOK, RegistryTypeOK
  <1>2. PICK targets \in SUBSET Agents : targets = subs[c] \ {author}
    BY <1>1
  <1>3. /\ Notified(author, p, targets, t, ids, to) /\ now' = t /\ posts[p].row = "absent"
        /\ channels' = channels /\ subs' = subs /\ pager' = pager /\ agents' = agents
        /\ now <= t /\ t \in Nat \ {0} /\ t <= now + TxTime /\ TxTime \in Nat
    BY <1>1, <1>2, DeliveryAssumption DEF Posted
  <1>4. PICK post : post = [row |-> "present", channel |-> c, thread |-> thread, author |-> author,
                            key |-> key, created_at |-> now, audience |-> targets]
    OBVIOUS
  <1>5. /\ post \in Post /\ post.row = "present" /\ post.channel = c /\ post.thread = thread
        /\ post.author = author /\ post.key = key /\ post.created_at = now /\ post.audience = targets
    BY <1>1, <1>4 DEF Post, Participants
  <1>6. posts' = [posts EXCEPT ![p] = post]
    BY <1>2, <1>4 DEF Posted
  <1>7. /\ posts' \in [PostIds -> Post] /\ posts'[p] = post
        /\ \A q \in PostIds \ {p} : posts'[q] = posts[q]
    BY <1>1, <1>5, <1>6
  <1>8. p \notin Posts /\ Posts' = Posts \cup {p}
    BY <1>1, <1>3, <1>5, <1>7 DEF Posts
  <1>9. IsFiniteSet(Posts') /\ Cardinality(Posts') = Cardinality(Posts) + 1
    BY <1>1, <1>8, FS_AddElement
  <1>10. ChannelTypes'
    BY <1>3, <1>7, <1>9 DEF ChannelsInv, ChannelTypes, Notified
  <1>11. ReaderOK' /\ PagesComplete'
    <2>1. \A q \in PostIds : /\ posts[q].row # "absent" => posts'[q].row # "absent"
                             /\ posts'[q].row = "present" =>
                                  posts'[q] = posts[q] \/ posts[q].row = "absent"
      BY <1>3, <1>5, <1>7
    <2> QED BY <1>3, <2>1, ReaderKeeps DEF ChannelsInv
  <1>12. ASSUME NEW q \in Posts' PROVE q = p \/ (q \in Posts /\ posts'[q] = posts[q])
    BY <1>7, <1>8 DEF Posts
  <1>13. validArchivedChannels'
    <2>1. Cardinality(channels') <= MaxChannels
      BY <1>3 DEF ChannelsInv, validArchivedChannels
    <2>2. Cardinality(Posts') <= MaxPosts
      <3>1. Cardinality(Posts) \in Nat /\ Cardinality(Posts) < MaxPosts /\ MaxPosts \in Nat
        BY <1>1, FS_CardinalityType, ChannelsAssumption DEF Posted
      <3> QED BY <1>9, <3>1
    <2>3. \A d \in ChannelIds : subs'[d] # {} =>
            /\ d \in channels' /\ Cardinality(subs'[d]) <= MaxSubscribers
            /\ \A a \in subs'[d] : Registered(a)'
      BY <1>3 DEF ChannelsInv, validArchivedChannels, Registered
    <2>4. \A q \in Posts' : /\ posts'[q].channel \in channels'
                            /\ posts'[q].author \in Agents => Registered(posts[q].author)'
      <3>1. \A a \in Agents : Registered(a) => agents'[a].execution_id # 0
        BY <1>3 DEF Registered
      <3>2. ASSUME NEW q \in Posts'
            PROVE  /\ posts'[q].channel \in channels'
                   /\ posts'[q].author \in Agents => agents'[posts'[q].author].execution_id # 0
        <4>1. CASE q = p
          BY <1>3, <1>5, <1>7, <3>1, <4>1 DEF Posted
        <4>2. CASE q # p
          BY <1>3, <1>12, <3>1, <4>2 DEF ChannelsInv, validArchivedChannels
        <4> QED BY <4>1, <4>2
      <3> QED BY <3>2 DEF Registered
    <2>5. \A q, r \in Posts' : /\ posts'[q].key # None /\ posts'[q].key = posts'[r].key
                               /\ posts'[q].author = posts'[r].author
                               => q = r
      <3>1. key # None => \A q \in Posts : ~(posts[q].author = author /\ posts[q].key = key)
        BY DEF Posted, PriorPosts
      <3> QED BY <1>5, <1>7, <1>12, <3>1 DEF ChannelsInv, validArchivedChannels
    <2>6. ThreadsWhole'
      <3>1. \A d : \A q \in Posts : q \in Roots(d) => q \in Roots(d)'
        BY <1>3, <1>7, <1>8 DEF Roots, Posts
      <3>2. thread # 0 => thread \in Roots(c)
        BY DEF Posted
      <3>3. \A d : Roots(d) \subseteq Posts
        BY DEF Roots
      <3> QED BY <1>5, <1>7, <1>12, <3>1, <3>2, <3>3 DEF ChannelsInv, validArchivedChannels, ThreadsWhole
    <2> QED BY <2>1, <2>2, <2>3, <2>4, <2>5, <2>6, Zenon DEF validArchivedChannels
  <1>14. ASSUME NEW m \in MessageIds, m \notin ids
         PROVE  /\ notices'[m] = notices[m] /\ Carried(messages[m], messages'[m])
    <2>1. /\ notices'[m] = notices[m]
          /\ messages'[m] \in {messages[m], expireMessages(messages, t)[m]}
      BY <1>3, <1>14 DEF Notified
    <2>2. Carried(messages[m], expireMessages(messages, t)[m])
      BY <1>1, ExpireLater
    <2>3. Carried(messages[m], messages[m])
      BY <1>1 DEF Carried, Message
    <2> QED BY <2>1, <2>2, <2>3
  <1>15. ASSUME NEW m \in ids
         PROVE  /\ m \in MessageIds /\ messages[m].state = "absent" /\ notices'[m] = p
                /\ to[m] \in targets /\ messages'[m].state = "queued" /\ messages'[m].to = to[m]
                /\ messages'[m].expires_at = t + Week
    <2>1. /\ m \in MessageIds /\ messages[m].state = "absent" /\ notices'[m] = p
          /\ to[m] \in targets /\ messages'[m] = NewMessage(author, Notification(to[m]), t)
      BY <1>3 DEF Notified
    <2> QED BY <1>2, <1>3, <2>1, NotificationType
  <1>16. FanOutComplete'
    <2> SUFFICES ASSUME NEW q \in Posts', NEW a \in posts'[q].audience
                 PROVE  \E m \in MessageIds :
                          notices'[m] = q /\ (messages'[m].state = "removed" \/ messages'[m].to = a)
      BY DEF FanOutComplete
    <2>1. CASE q = p
      <3>1. PICK m \in ids : to[m] = a
        BY <1>3, <1>5, <1>7, <2>1 DEF Notified
      <3> QED BY <1>15, <2>1, <3>1
    <2>2. CASE q # p
      <3>1. q \in Posts /\ a \in posts[q].audience
        BY <1>12, <2>2
      <3>2. PICK m \in MessageIds :
              notices[m] = q /\ (messages[m].state = "removed" \/ messages[m].to = a)
        BY <3>1 DEF ChannelsInv, FanOutComplete
      <3>3. messages[m].state # "absent"
        BY <1>1, <3>1, <3>2 DEF ChannelsInv, NoticeOK, Posts
      <3>4. m \notin ids
        BY <1>15, <3>3
      <3> QED BY <1>14, <3>2, <3>4 DEF Carried
    <2> QED BY <2>1, <2>2
  <1>17. ASSUME NEW m \in MessageIds PROVE NoticeOK(m)'
    <2>1. Week \in Nat /\ p # 0
      BY <1>1, ChannelsAssumption
    <2>2. CASE m \in ids
      <3>1. /\ messages'[m].state = "queued" /\ notices'[m] = p
            /\ messages'[m].expires_at = t + Week
        BY <1>15, <2>2
      <3>2. t + Week <= now + TxTime + Week
        BY <1>1, <1>3, <2>1
      <3> QED BY <1>5, <1>7, <1>8, <3>1, <3>2 DEF NoticeOK
    <2>3. CASE m \notin ids
      <3>1. /\ notices'[m] = notices[m] /\ Carried(messages[m], messages'[m]) /\ NoticeOK(m)
            /\ messages[m].expires_at \in Nat
        BY <1>1, <1>14, <2>3 DEF ChannelsInv, Message
      <3>2. notices[m] # 0 => notices[m] \in PostIds \ {p} /\ notices'[m] # p
        BY <1>1, <1>3, <3>1 DEF NoticeOK
      <3>3. notices[m] # 0 => /\ posts'[notices[m]] = posts[notices[m]]
                              /\ notices[m] \in Posts => notices[m] \in Posts'
        BY <1>7, <1>8, <3>2
      <3>4. now + TxTime <= now' + TxTime
        BY <1>1, <1>3
      <3>5. \A e \in Nat : e <= now + TxTime => e <= now' + TxTime
        BY <1>1, <1>3
      <3> QED BY <3>1, <3>3, <3>5 DEF NoticeOK, Carried
    <2> QED BY <2>2, <2>3
  <1>18. DeliveryInv'
    BY PostDelivers
  <1> QED BY <1>10, <1>11, <1>13, <1>16, <1>17, <1>18 DEF ChannelsInv

-----------------------------------------------------------------------------
(* The inbox goes on: what a message keeps as long as it is there.         *)
Follow(x, y) ==
  x.state # "absent" =>
    /\ y.state # "absent"
    /\ y.state = "removed" \/ (x.state # "removed" /\ y.to = x.to)
    /\ y.state \in Active => x.state \in Active /\ y.expires_at = x.expires_at

AllFollow == \A m \in MessageIds : Follow(messages[m], messages'[m])

(* Rows that are carried,                                                  *)
LEMMA CarriedFollow ==
  ASSUME AllCarried(messages')
  PROVE  AllFollow
  BY DEF AllCarried, Carried, AllFollow, Follow

(* a row more,                                                             *)
LEMMA StoredFollow ==
  ASSUME DeliveryInv, Stored
  PROVE  AllFollow
  <1>1. PICK sender \in Participants, in \in SendInputs, id \in MessageIds :
          Stores(sender, in, id)
    BY DEF Stored, StoredBy
  <1> SUFFICES ASSUME NEW m \in MessageIds PROVE Follow(messages[m], messages'[m])
    BY DEF AllFollow
  <1>2. CASE m = id
    BY <1>1, <1>2 DEF Stores, Follow
  <1>3. CASE m # id
    <2>1. PICK e : e = expireMessages(messages, now)[m]
      OBVIOUS
    <2>2. /\ Carried(messages[m], e) /\ messages'[m].to = messages[m].to
          /\ messages'[m].expires_at = messages[m].expires_at /\ messages'[m].state = e.state
      BY <1>1, <1>3, <2>1, StoredOthers
    <2> QED BY <2>2 DEF Carried, Follow
  <1> QED BY <1>2, <1>3

(* and rows that retention takes.                                          *)
LEMMA PrunedFollow ==
  ASSUME DeliveryInv, NEW token, NEW before, PruneMessages(token, before, TRUE, {})
  PROVE  AllFollow
  <1> SUFFICES ASSUME NEW m \in MessageIds PROVE Follow(messages[m], messages'[m])
    BY DEF AllFollow
  <1>1. PICK e : e = expireMessages(messages, now)[m]
    OBVIOUS
  <1>2. /\ Carried(messages[m], e)
        /\ messages'[m] = e \/ messages'[m] = NoRow("removed")
    BY <1>1, PrunedRows
  <1> QED BY <1>2 DEF Carried, Follow, NoRow, Active

(* Posts that go were told of a week ago.                                  *)
LEMMA NoticesFollow ==
  ASSUME ChannelsInv, AllFollow, notices' = notices, now' \in Nat, now <= now',
         \A p \in PostIds : /\ posts[p].row # "absent" => posts'[p].row # "absent"
                            /\ p \in Posts' => p \in Posts /\ posts'[p] = posts[p]
                            /\ p \in Posts => p \in Posts' \/ posts[p].created_at + Week < now
  PROVE  FanOutComplete' /\ \A m \in MessageIds : NoticeOK(m)'
  <1>1. /\ messages \in [MessageIds -> Message] /\ now \in Nat /\ posts \in [PostIds -> Post]
        /\ notices \in [MessageIds -> PostIds \cup {0}] /\ Week \in Nat /\ TxTime \in Nat
    BY ChannelsAssumption, DeliveryAssumption
       DEF ChannelsInv, ChannelTypes, DeliveryInv, DeliveryTypeOK, RegistryTypeOK
  <1>4. \A e \in Nat : e <= now + TxTime => e <= now' + TxTime
    <2>1. PICK n \in Nat, k \in Nat, x \in Nat : n = now /\ k = now' /\ x = TxTime
      BY <1>1
    <2>2. n <= k
      BY <2>1, Zenon
    <2>3. \A e \in Nat : e <= n + x => e <= k + x
      BY <2>2
    <2> QED BY <2>1, <2>3, Zenon
  <1>2. FanOutComplete'
    <2> SUFFICES ASSUME NEW q \in Posts', NEW a \in posts'[q].audience
                 PROVE  \E m \in MessageIds :
                          notices'[m] = q /\ (messages'[m].state = "removed" \/ messages'[m].to = a)
      BY DEF FanOutComplete
    <2>1. q \in Posts /\ a \in posts[q].audience
      BY DEF Posts
    <2>2. PICK m \in MessageIds :
            notices[m] = q /\ (messages[m].state = "removed" \/ messages[m].to = a)
      BY <2>1 DEF ChannelsInv, FanOutComplete
    <2>3. q # 0
      BY ChannelsAssumption DEF Posts
    <2>4. messages[m].state # "absent" /\ Follow(messages[m], messages'[m])
      BY <2>2, <2>3 DEF ChannelsInv, NoticeOK, AllFollow
    <2> QED BY <2>2, <2>4 DEF Follow
  <1>3. ASSUME NEW m \in MessageIds PROVE NoticeOK(m)'
    <2>1. /\ NoticeOK(m) /\ Follow(messages[m], messages'[m]) /\ messages[m].expires_at \in Nat
      BY <1>1 DEF ChannelsInv, AllFollow, Message
    <2>2. CASE notices[m] = 0
      BY <2>2 DEF NoticeOK
    <2>3. CASE notices[m] # 0
      <3>1. PICK p \in PostIds : p = notices[m]
        BY <1>1, <2>3
      <3>2. PICK e \in Nat : e = messages[m].expires_at
        BY <2>1
      <3>3. /\ messages[m].state # "absent" /\ posts[p].row # "absent"
            /\ messages[m].state \in Active =>
                 e <= now + TxTime \/ (p \in Posts /\ e <= posts[p].created_at + TxTime + Week)
        BY <2>1, <2>3, <3>1, <3>2 DEF NoticeOK
      <3>4. posts[p].created_at \in Nat
        BY <1>1 DEF Post
      <3>5. p \in Posts /\ e <= posts[p].created_at + TxTime + Week =>
              \/ e <= now + TxTime
              \/ p \in Posts' /\ e <= posts'[p].created_at + TxTime + Week
        BY <1>1, <3>4
      <3>6. e <= now + TxTime => e <= now' + TxTime
        BY <1>4
      <3>7. /\ messages'[m].state # "absent" /\ posts'[p].row # "absent" /\ notices'[m] = p
            /\ messages'[m].state \in Active =>
                 messages[m].state \in Active /\ messages'[m].expires_at = e
        BY <2>1, <3>1, <3>2, <3>3 DEF Follow
      <3> QED BY <3>3, <3>5, <3>6, <3>7 DEF NoticeOK
    <2> QED BY <2>2, <2>3
  <1> QED BY <1>2, <1>3

(* Posts stay as they are, and the lists of channels and subscribers grow  *)
(* within their bounds.                                                    *)
LEMMA ListsKeep ==
  ASSUME validArchivedChannels, posts' = posts, channels \subseteq channels',
         Cardinality(channels') <= MaxChannels,
         subs' \in [ChannelIds -> SUBSET Agents],
         \A a \in Agents : Registered(a) => Registered(a)',
         \A c \in ChannelIds : subs'[c] # {} =>
           /\ c \in channels' /\ Cardinality(subs'[c]) <= MaxSubscribers
           /\ \A a \in subs'[c] : Registered(a)
  PROVE  validArchivedChannels'
  <1>1. Posts' = Posts
    BY DEF Posts
  <1>2. ThreadsWhole'
    BY <1>1 DEF validArchivedChannels, ThreadsWhole, Posts, Roots
  <1>3. \A c \in ChannelIds : subs'[c] # {} =>
          /\ c \in channels' /\ Cardinality(subs'[c]) <= MaxSubscribers
          /\ \A a \in subs'[c] : Registered(a)'
    OBVIOUS
  <1>4. \A q \in Posts' : /\ posts'[q].channel \in channels'
                          /\ posts'[q].author \in Agents => Registered(posts[q].author)'
    <2>1. \A a \in Agents : Registered(a) => agents'[a].execution_id # 0
      BY DEF Registered
    <2>2. \A q \in Posts' : /\ posts'[q].channel \in channels'
                            /\ posts'[q].author \in Agents => agents'[posts'[q].author].execution_id # 0
      BY <1>1, <2>1 DEF validArchivedChannels
    <2> QED BY <2>2 DEF Registered
  <1>5. /\ Cardinality(channels') <= MaxChannels /\ Cardinality(Posts') <= MaxPosts
        /\ \A q, r \in Posts' : /\ posts'[q].key # None /\ posts'[q].key = posts'[r].key
                                /\ posts'[q].author = posts'[r].author
                                => q = r
    BY <1>1 DEF validArchivedChannels
  <1> QED BY <1>2, <1>3, <1>4, <1>5, Zenon DEF validArchivedChannels

(* The inbox and the agents move, the channels do not.                     *)
LEMMA QuietKeeps ==
  ASSUME ChannelsInv, DeliveryInv', AllFollow, UNCHANGED channelVars, now <= now',
         \A a \in Agents : Registered(a) => Registered(a)'
  PROVE  ChannelsInv'
  <1>1. channels' = channels /\ subs' = subs /\ posts' = posts /\ notices' = notices /\ pager' = pager
    BY DEF channelVars
  <1>2. Posts' = Posts /\ now' \in Nat
    BY <1>1 DEF Posts, DeliveryInv, DeliveryTypeOK, RegistryTypeOK
  <1>3. ChannelTypes'
    BY <1>1, <1>2 DEF ChannelsInv, ChannelTypes
  <1>4. FanOutComplete' /\ \A m \in MessageIds : NoticeOK(m)'
    BY <1>1, <1>2, NoticesFollow
  <1>5. ReaderOK' /\ PagesComplete'
    BY <1>1, ReaderKeeps DEF ChannelsInv
  <1>6. validArchivedChannels'
    BY <1>1, ListsKeep DEF ChannelsInv, ChannelTypes, validArchivedChannels
  <1> QED BY <1>3, <1>4, <1>5, <1>6 DEF ChannelsInv

(* The rows of the scope stand still.                                      *)
LEMMA StillInv ==
  ASSUME DeliveryInv, UNCHANGED vars
  PROVE  /\ DeliveryInv' /\ AllFollow /\ now' = now /\ now <= now'
         /\ \A a \in Agents : Registered(a) => Registered(a)'
  <1>1. messages' = messages /\ now' = now /\ agents' = agents /\ now \in Nat
    BY DEF vars, registryVars, deliveryVars, DeliveryInv, DeliveryTypeOK, RegistryTypeOK
  <1>2. DeliveryInv'
    BY InvPreserved
  <1> QED BY <1>1, <1>2 DEF AllFollow, Follow, Registered, Active

(* A channel more.                                                         *)
LEMMA CreateKeeps ==
  ASSUME ChannelsInv, NEW c \in ChannelIds, CreateChannel(c)
  PROVE  ChannelsInv'
  <1>1. /\ channels' = channels \cup {c} /\ subs' = subs /\ posts' = posts /\ notices' = notices
        /\ pager' = pager /\ c \notin channels /\ Cardinality(channels) < MaxChannels
        /\ IsFiniteSet(channels) /\ DeliveryInv /\ MaxChannels \in Nat
    BY ChannelsAssumption DEF CreateChannel, ChannelsInv, ChannelTypes
  <1>2. /\ DeliveryInv' /\ AllFollow /\ now <= now' /\ now' \in Nat /\ Posts' = Posts
        /\ \A a \in Agents : Registered(a) => Registered(a)'
    BY <1>1, StillInv DEF CreateChannel, Posts, DeliveryInv, DeliveryTypeOK, RegistryTypeOK
  <1>3. IsFiniteSet(channels') /\ Cardinality(channels') = Cardinality(channels) + 1
    BY <1>1, FS_AddElement
  <1>4. Cardinality(channels') <= MaxChannels
    BY <1>1, <1>3, FS_CardinalityType
  <1>5. ChannelTypes'
    BY <1>1, <1>2, <1>3 DEF ChannelsInv, ChannelTypes
  <1>6. FanOutComplete' /\ \A m \in MessageIds : NoticeOK(m)'
    BY <1>1, <1>2, NoticesFollow
  <1>7. ReaderOK' /\ PagesComplete'
    BY <1>1, ReaderKeeps DEF ChannelsInv
  <1>8. validArchivedChannels'
    <2>1. subs' \in [ChannelIds -> SUBSET Agents] /\ channels \subseteq channels'
      BY <1>1 DEF ChannelsInv, ChannelTypes
    <2>2. \A d \in ChannelIds : subs'[d] # {} =>
            /\ d \in channels' /\ Cardinality(subs'[d]) <= MaxSubscribers
            /\ \A a \in subs'[d] : Registered(a)
      BY <1>1, <2>1 DEF ChannelsInv, validArchivedChannels
    <2> QED BY <1>1, <1>2, <1>4, <2>1, <2>2, ListsKeep DEF ChannelsInv
  <1> QED BY <1>2, <1>5, <1>6, <1>7, <1>8 DEF ChannelsInv

(* A subscriber more or less.                                              *)
LEMMA SubscribeKeeps ==
  ASSUME ChannelsInv, NEW p \in KnownPrincipals, NEW c \in ChannelIds, NEW subscribe \in BOOLEAN,
         SubscribeChannel(p, c, subscribe)
  PROVE  ChannelsInv'
  <1>1. /\ channels' = channels /\ posts' = posts /\ notices' = notices /\ pager' = pager
        /\ DeliveryInv /\ p.agent \in Agents /\ c \in channels
        /\ subs \in [ChannelIds -> SUBSET Agents] /\ IsFiniteSet(subs[c])
    BY DEF SubscribeChannel, ChannelsInv, ChannelTypes, KnownPrincipals
  <1>2. /\ DeliveryInv' /\ AllFollow /\ now <= now' /\ now' \in Nat /\ Posts' = Posts
        /\ \A a \in Agents : Registered(a) => Registered(a)'
    BY <1>1, StillInv DEF SubscribeChannel, Posts, DeliveryInv, DeliveryTypeOK, RegistryTypeOK
  <1>3. Registered(p.agent)
    BY DEF SubscribeChannel, requireCurrentExecution, KnownPrincipals, Registered
  <1>4. PICK S : S = IF subscribe THEN subs[c] \cup {p.agent} ELSE subs[c] \ {p.agent}
    OBVIOUS
  <1>5. subs' = [subs EXCEPT ![c] = S]
    BY <1>4 DEF SubscribeChannel
  <1>6. /\ S \in SUBSET Agents /\ IsFiniteSet(S) /\ Cardinality(S) <= MaxSubscribers
        /\ \A a \in S : Registered(a)
    <2>1. /\ MaxSubscribers \in Nat /\ Cardinality(subs[c]) \in Nat
          /\ \A a \in subs[c] : Registered(a)
      BY <1>1, ChannelsAssumption, FS_CardinalityType DEF ChannelsInv, validArchivedChannels
    <2>2. CASE subscribe
      <3>1. S = subs[c] \cup {p.agent} /\ p.agent \notin subs[c] /\ Cardinality(subs[c]) < MaxSubscribers
        BY <1>4, <2>2 DEF SubscribeChannel
      <3>2. IsFiniteSet(S) /\ Cardinality(S) = Cardinality(subs[c]) + 1
        BY <1>1, <3>1, FS_AddElement
      <3> QED BY <1>1, <1>3, <2>1, <3>1, <3>2
    <2>3. CASE ~subscribe
      <3>1. S = subs[c] \ {p.agent} /\ p.agent \in subs[c]
        BY <1>4, <2>3 DEF SubscribeChannel
      <3>2. IsFiniteSet(S) /\ Cardinality(S) = Cardinality(subs[c]) - 1
        BY <1>1, <3>1, FS_RemoveElement
      <3>3. Cardinality(subs[c]) <= MaxSubscribers
        BY <1>1, <3>1 DEF ChannelsInv, validArchivedChannels
      <3> QED BY <1>1, <2>1, <3>1, <3>2, <3>3
    <2> QED BY <2>2, <2>3
  <1>7. /\ subs' \in [ChannelIds -> SUBSET Agents] /\ subs'[c] = S
        /\ \A d \in ChannelIds \ {c} : subs'[d] = subs[d]
    BY <1>1, <1>5, <1>6
  <1>8. ChannelTypes'
    BY <1>1, <1>2, <1>6, <1>7 DEF ChannelsInv, ChannelTypes
  <1>9. FanOutComplete' /\ \A m \in MessageIds : NoticeOK(m)'
    BY <1>1, <1>2, NoticesFollow
  <1>10. ReaderOK' /\ PagesComplete'
    BY <1>1, ReaderKeeps DEF ChannelsInv
  <1>11. \A d \in ChannelIds : subs'[d] # {} =>
           /\ d \in channels' /\ Cardinality(subs'[d]) <= MaxSubscribers
           /\ \A a \in subs'[d] : Registered(a)
    BY <1>1, <1>6, <1>7 DEF ChannelsInv, validArchivedChannels
  <1>12. validArchivedChannels'
    BY <1>1, <1>2, <1>7, <1>11, ListsKeep DEF ChannelsInv, validArchivedChannels
  <1> QED BY <1>2, <1>8, <1>9, <1>10, <1>12 DEF ChannelsInv

-----------------------------------------------------------------------------
(* The order of the history: two posts of one millisecond are told apart   *)
(* by their IDs, so it is total.                                           *)
LEMMA OlderOrder ==
  ASSUME posts \in [PostIds -> Post], NEW p \in PostIds, NEW q \in PostIds, NEW r \in PostIds
  PROVE  /\ p = q \/ Older(p, q) \/ Older(q, p)
         /\ ~ Older(p, p)
         /\ Older(p, q) /\ Older(q, r) => Older(p, r)
  <1>1. /\ posts[p].created_at \in Nat /\ posts[q].created_at \in Nat /\ posts[r].created_at \in Nat
        /\ p \in Nat /\ q \in Nat /\ r \in Nat
    BY ChannelsAssumption DEF Post
  <1> QED BY <1>1 DEF Older

(* How many of S are newer than p.                                         *)
Newer(p, S) == {q \in S : Older(p, q)}

(* The older of two has more that are newer.                               *)
LEMMA RankDrops ==
  ASSUME posts \in [PostIds -> Post], NEW S \in SUBSET PostIds, IsFiniteSet(S),
         NEW p \in S, NEW q \in S, Older(p, q)
  PROVE  /\ Cardinality(Newer(p, S)) \in Nat /\ Cardinality(Newer(q, S)) \in Nat
         /\ Cardinality(Newer(q, S)) < Cardinality(Newer(p, S))
  <1>1. Newer(p, S) \subseteq S /\ Newer(q, S) \subseteq S /\ q \in Newer(p, S)
    BY DEF Newer
  <1>2. IsFiniteSet(Newer(p, S)) /\ IsFiniteSet(Newer(q, S))
    BY <1>1, FS_Subset
  <1>3. Newer(q, S) \subseteq Newer(p, S) \ {q}
    <2>1. \A r \in S : Older(q, r) => Older(p, r) /\ r # q
      BY OlderOrder
    <2> QED BY <2>1 DEF Newer
  <1>4. /\ IsFiniteSet(Newer(p, S) \ {q})
        /\ Cardinality(Newer(p, S) \ {q}) = Cardinality(Newer(p, S)) - 1
    BY <1>1, <1>2, FS_RemoveElement
  <1>5. Cardinality(Newer(q, S)) <= Cardinality(Newer(p, S) \ {q})
    BY <1>3, <1>4, FS_Subset
  <1> QED BY <1>2, <1>4, <1>5, FS_CardinalityType

(* The page of a history request: it is not empty, has an oldest post, and *)
(* what is not on it is older than that.                                   *)
LEMMA PageIsNewest ==
  ASSUME posts \in [PostIds -> Post], NEW S \in SUBSET PostIds, IsFiniteSet(S), S # {},
         NEW limit \in Nat \ {0}, NEW page, page = {p \in S : Cardinality(Newer(p, S)) < limit}
  PROVE  /\ \E p \in page : \A q \in page : p = q \/ Older(p, q)
         /\ \A p \in page, q \in S \ page : Older(q, p)
  <1> DEFINE rank(p) == Cardinality(Newer(p, S))
  <1>1. \A p \in S : rank(p) \in Nat
    <2> SUFFICES ASSUME NEW p \in S PROVE rank(p) \in Nat
      OBVIOUS
    <2>1. IsFiniteSet(Newer(p, S))
      BY FS_Subset DEF Newer
    <2> QED BY <2>1, FS_CardinalityType
  <1>2. \A p, q \in S : Older(p, q) => rank(q) < rank(p)
    BY RankDrops
  <1>3. page \subseteq S /\ \A p \in S : p \in page <=> rank(p) < limit
    OBVIOUS
  <1> HIDE DEF rank
  <1>4. \E p \in page : TRUE
    <2> DEFINE R == {rank(p) : p \in S}
    <2>1. R \subseteq Nat /\ R # {} /\ (\A q \in S : rank(q) \in R)
          /\ \A k \in R : \E p \in S : k = rank(p)
      BY <1>1
    <2> HIDE DEF R
    <2>5. PICK k \in R : \A j \in R : k <= j
      BY <2>1, FirstExists
    <2>2. PICK p \in S : \A q \in S : rank(p) <= rank(q)
      BY <2>1, <2>5
    <2>3. Newer(p, S) = {}
      BY <1>1, <1>2, <2>2 DEF Newer
    <2>4. rank(p) = 0
      BY <2>3, FS_EmptySet DEF rank
    <2> QED BY <1>3, <2>4
  <1>5. \E p \in page : \A q \in page : p = q \/ Older(p, q)
    <2> DEFINE R == {limit - rank(p) : p \in page}
    <2>1. R \subseteq Nat /\ R # {} /\ (\A q \in page : limit - rank(q) \in R)
          /\ \A k \in R : \E p \in page : k = limit - rank(p)
      BY <1>1, <1>3, <1>4
    <2> HIDE DEF R
    <2>4. PICK k \in R : \A j \in R : k <= j
      BY <2>1, FirstExists
    <2>5. PICK p \in page : k = limit - rank(p)
      BY <2>1
    <2>2. \A q \in page : limit - rank(p) <= limit - rank(q)
      BY <2>1, <2>4, <2>5
    <2>3. ASSUME NEW q \in page PROVE p = q \/ Older(p, q)
      <3>1. rank(q) <= rank(p) /\ rank(p) \in Nat /\ rank(q) \in Nat
        BY <1>1, <1>3, <2>2
      <3>2. ~ Older(q, p)
        BY <1>2, <1>3, <3>1
      <3> QED BY <1>3, <3>2, OlderOrder
    <2> QED BY <2>3
  <1>6. ASSUME NEW p \in page, NEW q \in S \ page PROVE Older(q, p)
    <2>1. rank(p) < rank(q)
      BY <1>1, <1>3
    <2>2. ~ Older(p, q) /\ p # q
      BY <1>1, <1>2, <1>3, <2>1
    <2> QED BY <1>3, <2>2, OlderOrder
  <1> QED BY <1>5, <1>6

(* A step of the reader changes nothing else.                              *)
LEMMA ReadingKeeps ==
  ASSUME ChannelsInv, UNCHANGED <<vars, channels, subs, posts, notices>>,
         pager' \in Reader, ReaderOK', PagesComplete'
  PROVE  ChannelsInv'
  <1>1. /\ DeliveryInv' /\ AllFollow /\ now <= now' /\ now' \in Nat /\ Posts' = Posts
        /\ \A a \in Agents : Registered(a) => Registered(a)'
    BY StillInv DEF ChannelsInv, Posts, DeliveryInv, DeliveryTypeOK, RegistryTypeOK
  <1>2. ChannelTypes'
    BY <1>1 DEF ChannelsInv, ChannelTypes
  <1>3. FanOutComplete' /\ \A m \in MessageIds : NoticeOK(m)'
    BY <1>1, NoticesFollow
  <1>4. validArchivedChannels'
    BY <1>1, ListsKeep DEF ChannelsInv, ChannelTypes, validArchivedChannels
  <1> QED BY <1>1, <1>2, <1>3, <1>4 DEF ChannelsInv

(* A reading begins with the roots that are there, and ends with nothing.  *)
LEMMA StartEndKeep ==
  ASSUME ChannelsInv, NEW c, NEW limit,
         (c \in ChannelIds /\ StartReading(c)) \/ EndReading(limit)
  PROVE  ChannelsInv'
  <1>1. /\ UNCHANGED <<vars, channels, subs, posts, notices>>
        /\ 0 \notin PostIds
        /\ \/ pager' = [channel |-> None, due |-> {}, cursor |-> 0]
           \/ c \in ChannelIds /\ pager' = [channel |-> c, due |-> Roots(c), cursor |-> 0]
    BY ChannelsAssumption DEF StartReading, EndReading, NoReader
  <1>2. Posts' = Posts /\ Roots(c)' = Roots(c) /\ Roots(c) \subseteq Posts /\ Posts \subseteq PostIds
    BY <1>1 DEF Posts, Roots
  <1>3. /\ pager' \in Reader /\ pager'.cursor = 0
        /\ pager'.due = {} \/ (pager'.due = Roots(c) /\ pager'.channel = c)
    BY <1>1, <1>2 DEF Reader
  <1>4. \A p \in pager'.due : p \in PostIds /\ posts'[p].row # "absent"
    BY <1>1, <1>2, <1>3 DEF Posts
  <1>5. ReaderOK'
    BY <1>1, <1>2, <1>3, <1>4 DEF ReaderOK
  <1>6. PagesComplete'
    BY <1>1, <1>2, <1>3 DEF PagesComplete
  <1> QED BY <1>1, <1>3, <1>5, <1>6, ReadingKeeps

(* A page: what was not on it is older than the cursor it leaves.          *)
LEMMA HistoryKeeps ==
  ASSUME ChannelsInv, NEW limit \in HistoryLimits, ChannelHistory(limit)
  PROVE  ChannelsInv'
  <1>1. PICK rest : rest = AfterCursor(pager.channel, pager.cursor)
    OBVIOUS
  <1>2. PICK page : page = {p \in rest : Cardinality(Newer(p, rest)) < limit}
    OBVIOUS
  <1>3. PICK c : c = CHOOSE p \in page : \A q \in page : p = q \/ Older(p, q)
    OBVIOUS
  <1>4. /\ pager.cursor # 0 => pager.cursor \in Posts
        /\ page # rest /\ pager' = [pager EXCEPT !.due = @ \ page, !.cursor = c]
        /\ UNCHANGED <<vars, channels, subs, posts, notices>>
    BY <1>1, <1>2, <1>3 DEF ChannelHistory, Newer
  <1>5. /\ posts \in [PostIds -> Post] /\ IsFiniteSet(Posts) /\ Posts \subseteq PostIds
        /\ Roots(pager.channel) \subseteq Posts /\ pager \in Reader /\ limit \in Nat \ {0}
    BY ChannelsAssumption DEF ChannelsInv, ChannelTypes, Posts, Roots
  <1>6. rest \in SUBSET PostIds /\ IsFiniteSet(rest) /\ rest # {} /\ rest \subseteq Posts
    <2>1. rest \subseteq Posts
      BY <1>1, <1>5 DEF AfterCursor
    <2> QED BY <1>2, <1>4, <1>5, <2>1, FS_Subset
  <1>7. /\ \E p \in page : \A q \in page : p = q \/ Older(p, q)
        /\ \A p \in page, q \in rest \ page : Older(q, p)
    BY <1>2, <1>5, <1>6, PageIsNewest
  <1>8. c \in page /\ page \subseteq rest
    BY <1>2, <1>3, <1>7
  <1>9. /\ pager' \in Reader /\ pager'.due = pager.due \ page /\ pager'.cursor = c
        /\ pager'.channel = pager.channel
    BY <1>4, <1>5, <1>6, <1>8 DEF Reader
  <1>10. /\ Posts' = Posts /\ Roots(pager.channel)' = Roots(pager.channel)
    BY <1>4, <1>9 DEF Posts, Roots
  <1>11. ReaderOK'
    <2>1. \A p \in Posts : posts'[p].row # "absent"
      BY <1>4 DEF Posts
    <2> QED BY <1>4, <1>6, <1>8, <1>9, <1>10, <2>1 DEF ChannelsInv, ReaderOK
  <1>12. ASSUME NEW p \in pager'.due, p \in Posts
         PROVE  p \in Roots(pager.channel) /\ Older(p, c)
    <2>1. p \in Roots(pager.channel) /\ p \in pager.due /\ p \notin page
      BY <1>9, <1>12 DEF ChannelsInv, ReaderOK
    <2>2. p \in rest
      <3>1. CASE pager.cursor = 0
        BY <1>1, <2>1, <3>1 DEF AfterCursor
      <3>2. CASE pager.cursor # 0
        BY <1>1, <1>4, <1>12, <2>1, <3>2 DEF ChannelsInv, PagesComplete
      <3> QED BY <3>1, <3>2
    <2> QED BY <1>7, <1>8, <2>1, <2>2
  <1>13. PagesComplete'
    <2>1. \A p \in Posts : Older(p, c)' <=> Older(p, c)
      BY <1>4 DEF Older
    <2> QED BY <1>9, <1>10, <1>12, <2>1 DEF PagesComplete, AfterCursor
  <1> QED BY <1>4, <1>9, <1>11, <1>13, ReadingKeeps

-----------------------------------------------------------------------------
(* Retention: the posts of a thread go together, a week after its last.    *)
LEMMA PruneKeeps ==
  ASSUME ChannelsInv, NEW token, NEW before, PruneChannels(token, before)
  PROVE  ChannelsInv'
  <1>1. PICK C : C = channelRetentionCandidates(before)
    OBVIOUS
  <1>2. /\ posts' = [p \in PostIds |-> IF p \in C THEN NoPost("removed") ELSE posts[p]]
        /\ PruneMessages(token, before, TRUE, {})
        /\ channels' = channels /\ subs' = subs /\ notices' = notices /\ pager' = pager
    BY <1>1 DEF PruneChannels
  <1>3. /\ posts \in [PostIds -> Post] /\ IsFiniteSet(Posts) /\ DeliveryInv /\ 0 \notin PostIds
        /\ now \in Nat /\ Week \in Nat
    BY ChannelsAssumption DEF ChannelsInv, ChannelTypes, DeliveryInv, DeliveryTypeOK, RegistryTypeOK
  <1>4. /\ C \subseteq Posts /\ \A p \in C : posts[p].created_at + Week < now
        /\ \A p \in C, q \in Posts : RootOf(q) = RootOf(p) => q \in C
    <2>1. C \subseteq Posts
      BY <1>1 DEF channelRetentionCandidates
    <2>2. \A p \in C, q \in Posts : RootOf(q) = RootOf(p) =>
             posts[q].created_at < before /\ posts[q].created_at + Week < now
      BY <1>1 DEF channelRetentionCandidates
    <2>3. \A q \in Posts : (\A r \in Posts : RootOf(r) = RootOf(q) =>
             posts[r].created_at < before /\ posts[r].created_at + Week < now) => q \in C
      BY <1>1 DEF channelRetentionCandidates
    <2> QED BY <2>1, <2>2, <2>3
  <1>5. NoPost("removed") \in Post /\ NoPost("removed").row = "removed"
    BY DEF NoPost, Post
  <1>6. \A p \in PostIds : /\ p \in C => posts'[p].row = "removed"
                           /\ p \notin C => posts'[p] = posts[p]
    BY <1>2, <1>5
  <1>7. posts' \in [PostIds -> Post]
    BY <1>2, <1>3, <1>5
  <1>8. Posts' = Posts \ C /\ Posts \subseteq PostIds
    BY <1>4, <1>6 DEF Posts
  <1>9. IsFiniteSet(Posts') /\ Cardinality(Posts') <= Cardinality(Posts)
        /\ Cardinality(Posts') \in Nat /\ Cardinality(Posts) \in Nat
    <2>1. Posts' \subseteq Posts
      BY <1>8
    <2> QED BY <1>3, <2>1, FS_Subset, FS_CardinalityType
  <1>10. DeliveryInv' /\ AllFollow
    BY <1>2, <1>3, PrunePreserves, PrunedFollow
  <1>11. now' = now /\ agents' = agents
    BY <1>2 DEF PruneMessages, registryVars
  <1>12. ChannelTypes'
    BY <1>2, <1>7, <1>9 DEF ChannelsInv, ChannelTypes
  <1>13. ASSUME NEW p \in PostIds
         PROVE  /\ posts[p].row # "absent" => posts'[p].row # "absent"
                /\ p \in Posts' => p \in Posts /\ posts'[p] = posts[p]
                /\ p \in Posts => p \in Posts' \/ posts[p].created_at + Week < now
                /\ posts'[p].row = "present" => posts'[p] = posts[p]
    BY <1>4, <1>6, <1>8
  <1>14. FanOutComplete' /\ \A m \in MessageIds : NoticeOK(m)'
    BY <1>2, <1>3, <1>10, <1>11, <1>13, NoticesFollow
  <1>15. ReaderOK' /\ PagesComplete'
    BY <1>2, <1>13, ReaderKeeps DEF ChannelsInv
  <1>16. validArchivedChannels'
    <2>1. Cardinality(channels') <= MaxChannels /\ Cardinality(Posts') <= MaxPosts
      <3>1. Cardinality(Posts) <= MaxPosts /\ MaxPosts \in Nat
        BY ChannelsAssumption DEF ChannelsInv, validArchivedChannels
      <3> QED BY <1>2, <1>9, <3>1 DEF ChannelsInv, validArchivedChannels
    <2>2. \A d \in ChannelIds : subs'[d] # {} =>
            /\ d \in channels' /\ Cardinality(subs'[d]) <= MaxSubscribers
            /\ \A a \in subs'[d] : Registered(a)'
      BY <1>2, <1>11 DEF ChannelsInv, validArchivedChannels, Registered
    <2>3. \A q \in Posts' : q \in Posts /\ posts'[q] = posts[q]
      BY <1>8, <1>13
    <2>4. \A q \in Posts' : /\ posts'[q].channel \in channels'
                            /\ posts'[q].author \in Agents => Registered(posts[q].author)'
      BY <1>2, <1>11, <2>3 DEF ChannelsInv, validArchivedChannels, Registered
    <2>5. \A q, r \in Posts' : /\ posts'[q].key # None /\ posts'[q].key = posts'[r].key
                               /\ posts'[q].author = posts'[r].author
                               => q = r
      BY <2>3 DEF ChannelsInv, validArchivedChannels
    <2>6. ThreadsWhole'
      <3> SUFFICES ASSUME NEW q \in Posts', posts'[q].thread # 0
                   PROVE  posts'[q].thread \in Roots(posts[q].channel)'
        BY DEF ThreadsWhole
      <3>1. PICK r : r = posts[q].thread
        OBVIOUS
      <3>2. q \in Posts /\ posts'[q] = posts[q] /\ q \notin C /\ r # 0
        BY <1>8, <2>3, <3>1
      <3>3. r \in Posts /\ posts[r].channel = posts[q].channel /\ posts[r].thread = 0
        BY <3>1, <3>2 DEF ChannelsInv, validArchivedChannels, ThreadsWhole, Roots
      <3>4. RootOf(r) = r /\ RootOf(q) = r
        BY <3>1, <3>2, <3>3 DEF RootOf
      <3>5. r \in Posts' /\ posts'[r] = posts[r]
        BY <1>4, <1>8, <2>3, <3>2, <3>3, <3>4
      <3> QED BY <3>1, <3>2, <3>3, <3>5 DEF Roots
    <2> QED BY <2>1, <2>2, <2>4, <2>5, <2>6, Zenon DEF validArchivedChannels
  <1> QED BY <1>10, <1>12, <1>14, <1>15, <1>16 DEF ChannelsInv

-----------------------------------------------------------------------------
(* The rest of the scope.                                                  *)

(* A step of the scope that takes no message away.                         *)
LEMMA InboxGoesOn ==
  ASSUME ChannelsInv, UNCHANGED channelVars, DeliveryNext,
         AllCarried(messages') \/ Stored \/ Prunes,
         \A m \in MessageIds : messages'[m].state = "removed" => messages[m].state = "removed"
  PROVE  ChannelsInv'
  <1>1. DeliveryInv
    BY DEF ChannelsInv
  <1>2. DeliveryInv' /\ now <= now' /\ \A a \in Agents : Registered(a) => Registered(a)'
    BY <1>1, InvPreserved, ClockRuns, ScopeRegistered
  <1>3. AllFollow
    BY <1>1, NothingPruned, CarriedFollow, StoredFollow
  <1> QED BY <1>2, <1>3, QuietKeeps

(* Those of ChannelsSpec,                                                  *)
LEMMA ChannelsScopeKeeps ==
  ASSUME ChannelsInv, ChannelsScopeStep
  PROVE  ChannelsInv'
  <1>1. DeliveryInv
    BY DEF ChannelsInv
  <1>2. AllCarried(messages') \/ Stored \/ Prunes
    BY <1>1, StepRows DEF ChannelsScopeStep
  <1> QED BY <1>2, InboxGoesOn DEF ChannelsScopeStep

(* The author of a post is registered: it has an execution.                *)
LEMMA AuthorsAreRegistered ==
  ASSUME NEW author \in Agents, channelAuthor(author)
  PROVE  Registered(author)
  <1>1. author \notin Humans
    BY DeliveryAssumption
  <1>2. PICK p \in KnownPrincipals : p.agent = author /\ requireCurrentExecution(p)
    BY <1>1 DEF channelAuthor
  <1> QED BY <1>2 DEF requireCurrentExecution, KnownPrincipals, Registered

(* and those that the runs take.                                           *)
LEMMA InboxStepKeeps ==
  ASSUME ChannelsInv, InboxStep
  PROVE  ChannelsInv'
  <1> DEFINE Goal == /\ DeliveryNext
                     /\ \A m \in MessageIds :
                          messages'[m].state = "removed" => messages[m].state = "removed"
  <1>1. DeliveryInv /\ messages \in [MessageIds -> Message] /\ UNCHANGED channelVars
    BY DEF ChannelsInv, DeliveryInv, DeliveryTypeOK, InboxStep
  <1>2. ASSUME Tick, UNCHANGED deliveryVars PROVE Goal
    BY <1>2 DEF DeliveryNext, RegistryNext, deliveryVars
  <1>3. ASSUME NEW p \in KnownPrincipals, NEW S \in SUBSET MessageIds, NEW t \in LaterInTx,
               AcknowledgeMessages(p, S, t)
        PROVE  Goal
    <2>1. DeliveryNext
      BY <1>3, Zenon DEF DeliveryNext, InboxNext
    <2>2. ASSUME NEW m \in MessageIds, messages'[m].state = "removed"
          PROVE  messages[m].state = "removed"
      <3>1. PICK e : e = expireMessages(messages, now)[m]
        OBVIOUS
      <3>2. messages'[m] = e \/ messages'[m] = [e EXCEPT !.state = "acknowledged", !.acknowledged_at = t]
        BY <1>3, <3>1 DEF AcknowledgeMessages
      <3>5. e \in Message
        BY <1>1, <3>1, ExpiredRows
      <3>3. e.state = "expired" \/ e = messages[m]
        BY <1>1, <3>1 DEF expireMessages, Message
      <3>4. messages'[m] = e
        BY <2>2, <3>2, <3>5 DEF Message
      <3> QED BY <2>2, <3>3, <3>4
    <2> QED BY <2>1, <2>2
  <1>4. ASSUME NEW p \in KnownPrincipals, RetireAgent(p) PROVE Goal
    <2>1. DeliveryNext
      BY <1>4, Zenon DEF DeliveryNext, RegistryNext
    <2>2. ASSUME NEW m \in MessageIds, messages'[m].state = "removed"
          PROVE  messages[m].state = "removed"
      BY <1>1, <1>4, <2>2 DEF RetireAgent, releaseReservations, Message
    <2> QED BY <2>1, <2>2
  <1>5. ASSUME Goal PROVE ChannelsInv'
    <2>1. AllCarried(messages') \/ Stored \/ Prunes
      BY <1>1, <1>5, StepRows
    <2> QED BY <1>1, <1>5, <2>1, InboxGoesOn
  <1>6. Goal
    <2>1. \A m \in MessageIds : {m} \in SUBSET MessageIds
      OBVIOUS
    <2> HIDE DEF Goal
    <2> QED BY <1>2, <1>3, <1>4, <2>1, Zenon DEF InboxStep
  <1> QED BY <1>5, <1>6

(* Every step keeps the invariant.                                         *)
LEMMA ChannelsStepKeeps ==
  ASSUME ChannelsInv, [ChannelsNext \/ ChannelsScopeStep]_<<vars, channelVars>>
  PROVE  ChannelsInv'
  <1>1. ASSUME NEW author \in Agents \cup Humans, NEW c \in ChannelIds,
               NEW thread \in {0} \cup PostIds, NEW key \in Keys \cup {None}, NEW p \in PostIds,
               NEW t \in LaterInTx, channelAuthor(author), PostChannel(author, c, thread, key, p, t)
        PROVE  ChannelsInv'
    <2>1. PICK ids, to : Posted(author, c, thread, key, p, t, ids, to)
      BY <1>1, PostRows
    <2>2. author \in Agents => Registered(author)
      BY <1>1, AuthorsAreRegistered
    <2> QED BY <2>1, <2>2, PostKeeps
  <1>2. CASE UNCHANGED <<vars, channelVars>>
    <2>1. DeliveryInv /\ UNCHANGED vars
      BY <1>2 DEF ChannelsInv
    <2> QED BY <1>2, <2>1, StillInv, QuietKeeps
  <1>3. ASSUME NEW p \in KnownPrincipals, NEW c \in ChannelIds, NEW subscribe \in BOOLEAN,
               SubscribeChannel(p, c, subscribe)
        PROVE  ChannelsInv'
    BY <1>3, SubscribeKeeps
  <1>4. ASSUME NEW c \in ChannelIds, CreateChannel(c) \/ StartReading(c)
        PROVE  ChannelsInv'
    BY <1>4, CreateKeeps, StartEndKeep
  <1>5. ASSUME NEW limit \in HistoryLimits, ChannelHistory(limit)
        PROVE  ChannelsInv'
    BY <1>5, HistoryKeeps
  <1>6. ASSUME NEW limit, EndReading(limit)
        PROVE  ChannelsInv'
    BY <1>6, StartEndKeep
  <1>7. ASSUME NEW token, NEW before, PruneChannels(token, before)
        PROVE  ChannelsInv'
    BY <1>7, PruneKeeps
  <1> QED BY <1>1, <1>2, <1>3, <1>4, <1>5, <1>6, <1>7, InboxStepKeeps, ChannelsScopeKeeps, Zenon
          DEF ChannelsNext

(* The empty scope has it.                                                 *)
LEMMA ChannelsStart ==
  ASSUME DeliveryInit, ChannelsInit
  PROVE  ChannelsInv
  <1>1. DeliveryInv
    BY InitInv
  <1>2. /\ channels = {} /\ subs = [c \in ChannelIds |-> {}]
        /\ posts = [p \in PostIds |-> NoPost("absent")] /\ notices = [m \in MessageIds |-> 0]
        /\ pager = [channel |-> None, due |-> {}, cursor |-> 0]
    BY DEF ChannelsInit, NoReader
  <1>3. NoPost("absent") \in Post /\ NoPost("absent").row = "absent"
    BY DEF NoPost, Post
  <1>4. Posts = {} /\ 0 \notin PostIds
    BY <1>2, <1>3, ChannelsAssumption DEF Posts
  <1>5. IsFiniteSet({}) /\ Cardinality({}) = 0
    BY FS_EmptySet
  <1>6. ChannelTypes
    BY <1>2, <1>3, <1>4, <1>5 DEF ChannelTypes, Reader
  <1>7. validArchivedChannels
    BY <1>2, <1>4, <1>5, ChannelsAssumption DEF validArchivedChannels, ThreadsWhole
  <1>8. FanOutComplete /\ ReaderOK /\ PagesComplete
    BY <1>2, <1>4 DEF FanOutComplete, ReaderOK, PagesComplete
  <1>9. \A m \in MessageIds : NoticeOK(m)
    BY <1>2 DEF NoticeOK
  <1> QED BY <1>1, <1>6, <1>7, <1>8, <1>9 DEF ChannelsInv

(* So it always holds.                                                     *)
LEMMA ChannelsInvHolds == ChannelsSpec => []ChannelsInv
  BY ChannelsStart, ChannelsStepKeeps, PTL DEF ChannelsSpec

(* A post is made with the notifications of all its subscribers or not at  *)
(* all (PostChannel).                                                      *)
THEOREM FanOutIsComplete == ChannelsSpec => []FanOutComplete
  BY ChannelsInvHolds, PTL DEF ChannelsInv

(* Retention takes threads whole and leaves every post that a waiting      *)
(* notification names (channelRetentionCandidates); what is left can be    *)
(* exported.                                                               *)
THEOREM ThreadsAreKept == ChannelsSpec => []ThreadsKept
  <1>1. ChannelsInv => ThreadsKept
    BY DEF ChannelsInv, ThreadsKept, NoticeHasPost, NoticeOK
  <1> QED BY <1>1, ChannelsInvHolds, PTL

(* A reader that follows the cursor of ChannelHistory from page to page    *)
(* misses no post.                                                         *)
THEOREM PagesAreComplete == ChannelsSpec => []PagesComplete
  BY ChannelsInvHolds, PTL DEF ChannelsInv
=============================================================================
