------------------------------- MODULE Files -------------------------------
(***************************************************************************)
(* Files of messages: upload, registration and download                    *)
(* (messages/api/file_handler.go, messages/application/file_service.go),   *)
(* their administration (admin/application/file_service.go,                *)
(* admin/api/admin_file.go) and the object storage                         *)
(* (messages/storage/minio.go, oss.go).                                    *)
(*                                                                         *)
(* The record of a file is in MySQL, its content in the object storage;    *)
(* nothing ties the two together but the order of the calls.               *)
(***************************************************************************)
EXTENDS AdminRequests, FiniteSetsExt

CONSTANTS
    FileUsers,
    Keys,          \* object keys, in the order in which ListObjects returns them
    KeyOwner,      \* KeyOwner[k]: the user whose id is part of the key
    FileRooms,     \* rooms; 0 stands for no room
    FileMembers,   \* FileMembers[room]: its members
    ScanLimit,     \* how many records ScanAnomalies reads (5000)
    ListLimit      \* how many objects it lists (1000)

ASSUME FilesAssumption ==
    /\ Keys \subseteq Nat
    /\ \A k \in Keys : KeyOwner[k] \in FileUsers
    /\ FileRooms \subseteq Nat
    /\ ScanLimit \in Nat \ {0} /\ ListLimit \in Nat \ {0}

VARIABLES
    records,    \* file_records, by object key, which is unique
    lastFileId,
    objects,    \* keys of the objects in the storage
    signed,     \* keys for which an upload link was issued
    uploaded,   \* history: keys whose content has been uploaded
    exposed     \* history: keys that a deletion named, or that a cleanup found no record of

fileVars == <<records, lastFileId, objects, signed, uploaded, exposed>>

FilesInit ==
    /\ records = [k \in {} |-> {}] /\ lastFileId = 0
    /\ objects = {} /\ signed = {} /\ uploaded = {} /\ exposed = {}

NoFile == <<>>
recordOf(k) == IF k \in DOMAIN records THEN records[k] ELSE NoFile
WithRecord(k, rec) == [j \in DOMAIN records \cup {k} |-> IF j = k THEN rec ELSE records[j]]
WithoutRecords(Gone(_)) == [j \in {k \in DOMAIN records : ~Gone(k)} |-> records[j]]

-----------------------------------------------------------------------------
(* Upload and download                                                     *)

\* PreSignUpload, and PreSignedUploadURL of the provider: the key holds the user's id.
PreSignUpload(u, k) ==
    /\ KeyOwner[k] = u /\ k \notin signed
    /\ signed' = signed \cup {k}
    /\ UNCHANGED <<records, lastFileId, objects, uploaded, exposed, requestVars>>

\* The browser uploads the content with the link.
PutObject(k) ==
    /\ k \in signed /\ k \notin uploaded
    /\ objects' = objects \cup {k}
    /\ uploaded' = uploaded \cup {k}
    /\ UNCHANGED <<records, lastFileId, signed, exposed, requestVars>>

\* A faulty check that accepts any key with three parts.
objectKeyBelongsToAnyone(k, u) == k \in Keys

objectKeyBelongsToUser(k, u) == KeyOwner[k] = u

CheckIsMember(room, u) == u \in FileMembers[room]

\* The checks, and the read of the record; whether the object exists is not asked.
CompleteUpload(r, u, k, room) ==
    /\ IF /\ objectKeyBelongsToUser(k, u)
          /\ room > 0 => CheckIsMember(room, u)
          /\ recordOf(k) = NoFile \/ recordOf(k).uploader = u
       THEN Begin(r, [pc |-> "file.register", key |-> k, user |-> u, room |-> room,
                      existing |-> recordOf(k)])
       ELSE BeginAndEnd(r)
    /\ UNCHANGED fileVars

\* Create fails if the key has got a record meanwhile.  Save of a record that has been
\* deleted meanwhile inserts it again.
RegisterFile(r) ==
    LET q == req[r]
        created == [id |-> lastFileId + 1, uploader |-> q.user, room |-> q.room, status |-> "uploaded"]
        saved == [(IF recordOf(q.key) = NoFile THEN q.existing ELSE recordOf(q.key))
                  EXCEPT !.room = q.room, !.status = "uploaded"]
    IN  /\ At(r, "file.register")
        /\ \/ /\ q.existing = NoFile /\ recordOf(q.key) = NoFile
              /\ records' = WithRecord(q.key, created)
              /\ lastFileId' = lastFileId + 1
              /\ End(r)
           \/ /\ q.existing = NoFile /\ recordOf(q.key) # NoFile
              /\ End(r) /\ UNCHANGED <<records, lastFileId>>
           \/ /\ q.existing # NoFile
              /\ records' = WithRecord(q.key, saved)
              /\ End(r) /\ UNCHANGED lastFileId
           \/ Fails(r) /\ UNCHANGED <<records, lastFileId>>
        /\ UNCHANGED <<objects, signed, uploaded, exposed>>

\* The link is signed without asking whether the object exists.
authorizedDownloadURL(u, rec) ==
    CASE rec = NoFile \/ rec.status # "uploaded" -> "not_found"
      [] rec.room > 0 -> IF CheckIsMember(rec.room, u) THEN "url" ELSE "forbidden"
      [] OTHER -> IF rec.uploader = u THEN "url" ELSE "forbidden"

DownloadURLByObjectKey(u, k) == authorizedDownloadURL(u, recordOf(k))
DownloadURLByID(u, id) ==
    LET found == {k \in DOMAIN records : records[k].id = id}
    IN  IF found = {} THEN "not_found"
        ELSE authorizedDownloadURL(u, records[CHOOSE k \in found : TRUE])

writeFileError(err) ==
    [status |-> CASE err = "invalid_key" -> 400
                  [] err = "forbidden" -> 403
                  [] err = "not_found" -> 404
                  [] OTHER -> 500]
Answer(answer) == IF answer = "url" THEN [status |-> 200] ELSE writeFileError(answer)

\* The handlers; an id that is no positive number is refused.
DownloadFileByID(u, id) ==
    IF id <= 0 THEN [status |-> 400] ELSE Answer(DownloadURLByID(u, id))
DownloadFileByObjectKey(u, k) == Answer(DownloadURLByObjectKey(u, k))

-----------------------------------------------------------------------------
(* Administration                                                          *)

\* Stat: a failing call counts as an object that is not there.
objectExists(k) == k \in objects

\* DeleteFile reads the record with GetFile.
AdminFileDelete(r, role, k) ==
    /\ IF Admits(role, {"file.delete"}) /\ recordOf(k) # NoFile
       THEN /\ Begin(r, [pc |-> "file.delete", key |-> k, id |-> records[k].id])
            /\ exposed' = exposed \cup {k}
       ELSE BeginAndEnd(r) /\ UNCHANGED exposed
    /\ UNCHANGED <<records, lastFileId, objects, signed, uploaded>>

DeleteRecord(r) ==
    /\ At(r, "file.delete")
    /\ \/ records' = WithoutRecords(LAMBDA k : records[k].id = req[r].id) /\ Goto(r, "file.remove")
       \/ Fails(r) /\ UNCHANGED records
    /\ UNCHANGED <<lastFileId, objects, signed, uploaded, exposed>>

\* Delete of the provider, within ten seconds.  After an error, which a call that has
\* had its effect may return too, the record is to be created again; that insert
\* names columns of FileListItem that the table lacks, and fails.
RemoveObject(r) ==
    LET k == req[r].key
    IN  /\ At(r, "file.remove")
        /\ \/ objects' = objects \ {k} /\ Goto(r, "file.audit")
           \/ objects' \in {objects, objects \ {k}} /\ Fails(r)
        /\ UNCHANGED <<records, lastFileId, signed, uploaded, exposed>>

\* ScanAnomalies: Order("id DESC").Limit(5000).  Records with at least ScanLimit newer
\* ones are out of its sight.
knownKeys ==
    {k \in DOMAIN records :
        Cardinality({j \in DOMAIN records : records[j].id > records[k].id}) < ScanLimit}

\* The records are read before the objects; scan and cleanup share this part.
ScanAnomalies(r, role, clean) ==
    /\ IF Admits(role, {IF clean THEN "file.delete" ELSE "file.read"})
       THEN /\ Begin(r, [pc |-> "file.list", clean |-> clean, known |-> knownKeys])
            /\ exposed' = IF clean THEN exposed \cup (Keys \ knownKeys) ELSE exposed
       ELSE BeginAndEnd(r) /\ UNCHANGED exposed
    /\ UNCHANGED <<records, lastFileId, objects, signed, uploaded>>

AdminFileScan(r, role) == ScanAnomalies(r, role, FALSE)
AdminFileCleanup(r, role) == ScanAnomalies(r, role, TRUE)

\* ListObjects returns the first keys up to the limit.
listedKeys == {k \in objects : Cardinality({j \in objects : j < k}) < ListLimit}

\* A faulty scan that takes every listed object for an orphan.
orphanKeysUnfiltered(known) == listedKeys

\* The objects that no known record names.
orphanKeys(known) == listedKeys \ known

\* CleanupOrphans goes on with the orphans.
ListObjects(r) ==
    LET orphans == orphanKeys(req[r].known)
    IN  /\ At(r, "file.list")
        /\ \/ /\ req[r].clean /\ orphans # {}
              /\ req' = [req EXCEPT ![r] = [pc |-> "file.clean", orphans |-> orphans, cleaned |-> 0]]
              /\ UNCHANGED <<served, faults, audit>>
           \/ ~(req[r].clean /\ orphans # {}) /\ End(r)
           \/ Fails(r)
        /\ UNCHANGED fileVars

\* The loop of CleanupOrphans: one object after the other, failures are skipped.
CleanupOrphan(r) ==
    LET q == req[r]
        k == Min(q.orphans)
        Advance(n) == [req EXCEPT ![r].orphans = @ \ {k}, ![r].cleaned = n]
    IN  /\ At(r, "file.clean") /\ q.orphans # {}
        /\ \/ /\ objects' = objects \ {k}
              /\ req' = Advance(q.cleaned + 1)
              /\ UNCHANGED faults
           \/ /\ faults < MaxFaults /\ faults' = faults + 1
              /\ objects' \in {objects, objects \ {k}}
              /\ req' = Advance(q.cleaned)
        /\ UNCHANGED <<records, lastFileId, signed, uploaded, exposed, served, audit>>

CleanupDone(r) ==
    /\ At(r, "file.clean") /\ req[r].orphans = {}
    /\ IF req[r].cleaned > 0
       THEN Log(r, AuditEntry("file", req[r].cleaned, "cleanup_orphans", "", ""))
       ELSE End(r)
    /\ UNCHANGED fileVars

auditFile(r) ==
    /\ At(r, "file.audit")
    /\ Log(r, AuditEntry("file", req[r].id, "delete", "", ""))
    /\ UNCHANGED fileVars

FilesNext ==
    \/ \E u \in FileUsers, k \in Keys : PreSignUpload(u, k)
    \/ \E k \in Keys : PutObject(k)
    \/ \E r \in Requests :
        \/ \E u \in FileUsers, k \in Keys, room \in FileRooms \cup {0} : CompleteUpload(r, u, k, room)
        \/ RegisterFile(r)
        \/ \E role \in Roles :
            \/ \E k \in Keys : AdminFileDelete(r, role, k)
            \/ AdminFileScan(r, role)
            \/ AdminFileCleanup(r, role)
        \/ DeleteRecord(r) \/ RemoveObject(r) \/ ListObjects(r)
        \/ CleanupOrphan(r) \/ CleanupDone(r) \/ auditFile(r)

-----------------------------------------------------------------------------
(* Properties                                                              *)

\* A registered file whose content was uploaded keeps it, whatever cleanups and
\* deletions of other files run next to its registration and its reads, unless a
\* deletion has named it or a cleanup has read the records without seeing its own: the
\* file was registered after that read, or lies beyond the scan's limit.
RegisteredFilesKept ==
    \A k \in DOMAIN records : k \in uploaded \ exposed => objectExists(k)

\* A file without a room is handed out only to the user whose id is in its key, and a
\* file of a room only to the members of that room, of whom the owner of the key was
\* one; asking by id and asking by key get the same answer.
DownloadsAuthorized ==
    \A k \in DOMAIN records, u \in FileUsers :
        LET rec == records[k]
        IN  /\ DownloadFileByObjectKey(u, k).status = 200 =>
                IF rec.room = 0 THEN u = KeyOwner[k]
                ELSE {u, KeyOwner[k]} \subseteq FileMembers[rec.room]
            /\ DownloadFileByID(u, rec.id) = DownloadFileByObjectKey(u, k)
=============================================================================
