------------------------------- MODULE Storage -------------------------------
(***************************************************************************)
(* The local document storage (lib/storage/index.ts) as createMaterial,     *)
(* processMaterial and deleteMaterial (lib/services/materials.ts) use it.   *)
(* A file is written in place, so that what a failed or stopped write       *)
(* leaves is part of a document under its final name.                       *)
(***************************************************************************)
EXTENDS Integers, Sequences, SequencesExt, FiniteSets

CONSTANTS
    Uploads,      \* uploads, each with the fresh material id it is given
    Segments,     \* segments of the keys that are tried
    MaxSegments,  \* bound on their number
    MaxLosses     \* bound on failing writes, failing transactions and stopped requests

\* Segments that path.posix.normalize takes out; an id is none of them.
Here == {"", "."}
Up == ".."

ASSUME StorageAssumption ==
    /\ {MaxSegments, MaxLosses} \subseteq Nat
    /\ Uploads \cap (Here \cup {Up}) = {}

VARIABLES
    disk,       \* the files: path and content
    rowOf,      \* the Material row of each upload, with its storageKey
    upload,     \* what the request of each upload is doing
    removal,    \* what the deletion of each material is doing
    reader,     \* what the run that reads each material has got
    tried,      \* the key tried last, and what it resolved to
    losses

storageVars == <<disk, rowOf, upload, removal, reader, tried, losses>>

Refused == <<"refused">>
Root == <<"srv", "storage">>   \* STORAGE_LOCAL_DIR, resolved

-----------------------------------------------------------------------------
(* Keys: sequences of segments, an empty one for a slash at the beginning *)

\* path.posix.normalize, segment by segment.
Shortened(path, segment) ==
    IF segment \in Here THEN path
    ELSE IF segment = Up /\ path # <<>> /\ Last(path) # Up THEN Front(path)
    ELSE Append(path, segment)
Normalise(key) ==
    LET path[n \in 0..Len(key)] == IF n = 0 THEN <<>> ELSE Shortened(path[n - 1], key[n])
    IN  path[Len(key)]

\* assertSafeKey.
SafeKey(key) ==
    /\ key # <<>> /\ Head(key) # ""
    /\ Normalise(key) = <<>> \/ Head(Normalise(key)) # Up

\* resolve: normalised, there is nothing left in a safe key that path.resolve would change.
Resolve(key) == IF SafeKey(key) THEN Root \o Normalise(key) ELSE Refused

\* materialStorageKey; the project and the extension are the same for all uploads.
MaterialKey(u) == <<"materials", "project", u>>

TryKey ==
    /\ \E key \in BoundedSeq(Segments, MaxSegments) : tried' = [key |-> key, path |-> Resolve(key)]
    /\ UNCHANGED <<disk, rowOf, upload, removal, reader, losses>>

-----------------------------------------------------------------------------
(* Files *)

NoRow == <<>>
FilesAt(path) == {f \in disk : f.path = path}
Written(path, of, whole) == (disk \ FilesAt(path)) \cup {[path |-> path, of |-> of, whole |-> whole]}
Loses(happens) == IF happens THEN losses < MaxLosses /\ losses' = losses + 1 ELSE UNCHANGED losses

\* put: the directory is made and the file is begun ...
BeginPut(u) ==
    /\ upload[u] = "none"
    /\ disk' = Written(Resolve(MaterialKey(u)), u, FALSE)
    /\ upload' = [upload EXCEPT ![u] = "writing"]
    /\ UNCHANGED <<rowOf, removal, reader, tried, losses>>

\* ... and finished, unless the write fails or the process is stopped.
EndPut(u) ==
    /\ upload[u] = "writing"
    /\ \E well \in BOOLEAN :
          /\ Loses(~well)
          /\ disk' = IF well THEN Written(Resolve(MaterialKey(u)), u, TRUE) ELSE disk
          /\ upload' = [upload EXCEPT ![u] = IF well THEN "written" ELSE "failed"]
    /\ UNCHANGED <<rowOf, removal, reader, tried>>

\* The transaction that creates the row.
CreateRow(u) ==
    /\ upload[u] = "written"
    /\ \E well \in BOOLEAN :
          /\ Loses(~well)
          /\ rowOf' = IF well THEN [rowOf EXCEPT ![u] = MaterialKey(u)] ELSE rowOf
          /\ upload' = [upload EXCEPT ![u] = IF well THEN "done" ELSE "failed"]
    /\ UNCHANGED <<disk, removal, reader, tried>>

\* delete, with force: a file that is not there is no error ...
DeleteFile(u) ==
    /\ rowOf[u] # NoRow /\ removal[u] = "none"
    /\ disk' = disk \ FilesAt(Resolve(rowOf[u]))
    /\ removal' = [removal EXCEPT ![u] = "gone"]
    /\ UNCHANGED <<rowOf, upload, reader, tried, losses>>

\* ... and the row, which the learner can ask for again when it fails.
DeleteRow(u) ==
    /\ removal[u] = "gone"
    /\ \E well \in BOOLEAN :
          /\ Loses(~well)
          /\ rowOf' = IF well THEN [rowOf EXCEPT ![u] = NoRow] ELSE rowOf
          /\ removal' = [removal EXCEPT ![u] = IF well THEN "done" ELSE "none"]
    /\ UNCHANGED <<disk, upload, reader, tried>>

\* deleteProject and deleteSpace: the row goes by cascade, the file stays.
CascadeToRow(u) ==
    /\ rowOf[u] # NoRow /\ removal[u] = "none"
    /\ rowOf' = [rowOf EXCEPT ![u] = NoRow]
    /\ removal' = [removal EXCEPT ![u] = "cascaded"]
    /\ UNCHANGED <<disk, upload, reader, tried, losses>>

\* get: by the key read with the row some time before.
LookUp(u) ==
    /\ rowOf[u] # NoRow
    /\ reader' = [reader EXCEPT ![u] = [key |-> rowOf[u], got |-> {}]]
    /\ UNCHANGED <<disk, rowOf, upload, removal, tried, losses>>

ReadDocument(u) ==
    /\ reader[u].key # NoRow /\ reader[u].got = {}
    /\ FilesAt(Resolve(reader[u].key)) # {}
    /\ reader' = [reader EXCEPT ![u].got = FilesAt(Resolve(reader[u].key))]
    /\ UNCHANGED <<disk, rowOf, upload, removal, tried, losses>>

-----------------------------------------------------------------------------
StorageInit ==
    /\ disk = {} /\ losses = 0
    /\ rowOf = [u \in Uploads |-> NoRow]
    /\ upload = [u \in Uploads |-> "none"]
    /\ removal = [u \in Uploads |-> "none"]
    /\ reader = [u \in Uploads |-> [key |-> NoRow, got |-> {}]]
    /\ tried = [key |-> <<>>, path |-> Refused]

StorageNext ==
    \/ (\A u \in Uploads : upload[u] = "none") /\ TryKey   \* tried apart from the uploads
    \/ \E u \in Uploads : tried.key = <<>> /\
          \/ BeginPut(u) \/ EndPut(u) \/ CreateRow(u)
          \/ DeleteFile(u) \/ DeleteRow(u) \/ CascadeToRow(u)
          \/ LookUp(u) \/ ReadDocument(u)

-----------------------------------------------------------------------------
(* Properties *)

\* Where a key leads when its segments are walked one by one from the root.
Entered(path, segment) ==
    IF segment \in Here \/ (segment = Up /\ path = <<>>) THEN path
    ELSE IF segment = Up THEN Front(path)
    ELSE Append(path, segment)
Walk(key) ==
    LET path[n \in 0..Len(key)] == IF n = 0 THEN Root ELSE Entered(path[n - 1], key[n])
    IN  path[Len(key)]

\* A key that is accepted leads where its segments lead, which is inside the root; one
\* that leads outside is refused.
KeysContained ==
    /\ tried.path # Refused => tried.path = Walk(tried.key) /\ IsPrefix(Root, tried.path)
    /\ ~IsPrefix(Root, Walk(tried.key)) => tried.path = Refused

\* A row has its whole document, from its first moment until its own deletion begins:
\* half a document is never one that a row points at, whatever failed; and who reads a
\* material gets its document, whole, or an error.
DocumentsWhole ==
    \A u \in Uploads :
        /\ rowOf[u] # NoRow /\ FilesAt(Resolve(rowOf[u])) = {} =>
              removal[u] = "gone" \/ losses > 0
        /\ rowOf[u] # NoRow => \A f \in FilesAt(Resolve(rowOf[u])) : f.of = u /\ f.whole
        /\ \A f \in reader[u].got : f.of = u /\ f.whole

\* A document that no row points at is that of an upload under way or failed, or of a
\* project or space that was deleted.
NoOtherOrphans ==
    \A f \in disk : (\A u \in Uploads : rowOf[u] = NoRow \/ Resolve(rowOf[u]) # f.path) =>
        upload[f.of] \in {"writing", "written", "failed"} \/ removal[f.of] = "cascaded"

\* Every document is kept where it belongs, whole, and for as long as its material.
DocumentsKept == KeysContained /\ DocumentsWhole /\ NoOtherOrphans
=============================================================================
