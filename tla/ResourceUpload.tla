---------------------------- MODULE ResourceUpload ----------------------------
(***************************************************************************)
(* A model component brings its VM resources and images into the file      *)
(* stores of minimega (control/model_component.py, file_store.py): a file  *)
(* is copied if the store's copy has another modification time and another *)
(* hash.  The copy is given the file's time after its content, and an      *)
(* image that is an archive is unpacked beside it.  The user edits the     *)
(* files meanwhile, and may stop the program anywhere.                     *)
(***************************************************************************)
EXTENDS Naturals

CONSTANTS
  Uploader,         \* the programs ("firewheel experiment") at work
  File, Image,      \* the files; those of them that are archives of images
  NameOf,           \* file -> its name without its directory
  Versions,         \* file -> the modification times it may have
  ContentOf,        \* modification time -> the content at that time
  MaxEdits,         \* bound: changes of the files
  MaxFaults         \* bound: removals that fail, programs that end early

VARIABLES
  disk,             \* file -> its modification time
  store,            \* name -> content and modification time, or Nothing
  unpacked,         \* name -> the content of the unpacked image, or "none"
  upload_at,        \* uploader -> what it is doing
  file,             \* uploader -> the file it is about
  last_modified,    \* uploader -> the modification time it has read
  upload_disturbed, \* history: uploaders whose file has changed, or which met
                    \* another uploader on its name, since they read its time
  suspect,          \* history: names whose copy has a time, or an unpacked
                    \* image, that may not be the content's
  edits, faults

uploadVars == <<disk, store, unpacked, upload_at, file, last_modified,
                upload_disturbed, suspect, edits, faults>>

Nothing == [content |-> "none", time |-> 0]
Now == 1000         \* later than every time of Versions
Name == {NameOf[f] : f \in File}

\* Files of one name in one store are all archives or none is, no file has
\* the time that stands for none or for the moment of the copy, and none has
\* the content that stands for a part of a file.
ASSUME UploadAssumption ==
  /\ Image \subseteq File
  /\ \A f \in Image, g \in File : NameOf[f] = NameOf[g] => g \in Image
  /\ \A f \in File : Versions[f] \cap {0, Now} = {}
  /\ \A f \in File : \A t \in Versions[f] : ContentOf[t] \notin {"part", "none"}

Resting == {"idle", "uploaded"}

UploadInit ==
  /\ disk \in {d \in [File -> UNION {Versions[f] : f \in File}] :
                 \A f \in File : d[f] \in Versions[f]}
  /\ store = [n \in Name |-> Nothing]
  /\ unpacked = [n \in Name |-> "none"]
  /\ upload_at = [u \in Uploader |-> "idle"]
  /\ file \in [Uploader -> {CHOOSE f \in File : TRUE}]
  /\ last_modified = [u \in Uploader |-> 0]
  /\ upload_disturbed = {} /\ suspect = {}
  /\ edits = 0 /\ faults = 0

NameFor(u) == NameOf[file[u]]
ContentFor(u) == ContentOf[disk[file[u]]]

UploadGoto(u, step) == upload_at' = [upload_at EXCEPT ![u] = step]

UploadStep(u, from, to) == upload_at[u] = from /\ UploadGoto(u, to)

Same == UNCHANGED <<disk, file, last_modified, edits>>
SameHistory == UNCHANGED <<upload_disturbed, suspect, faults>>

-----------------------------------------------------------------------------
(* Is the copy in the store the file? *)

MeetsOn(u, n) == {v \in Uploader \ {u} : upload_at[v] # "idle" /\ NameFor(v) = n}

GetTime(u, f) ==
  /\ upload_at[u] \in Resting
  /\ UploadGoto(u, "date")
  /\ file' = [file EXCEPT ![u] = f]
  /\ last_modified' = [last_modified EXCEPT ![u] = disk[f]]
  /\ LET met == MeetsOn(u, NameOf[f]) IN
       /\ upload_disturbed' = (upload_disturbed \ {u}) \cup met
                                \cup (IF met = {} THEN {} ELSE {u})
       /\ suspect' = IF \A v \in met : upload_at[v] = "uploaded" THEN suspect
                     ELSE suspect \cup {NameOf[f]}
  /\ UNCHANGED <<disk, store, unpacked, edits, faults>>

\* Mutant: only a file that is later than its copy counts as changed.
Later(u) == last_modified[u] > store[NameFor(u)].time

DateDiffers(u) == last_modified[u] # store[NameFor(u)].time

\* An image is looked for under the name it is unpacked to.
NotUploaded(u) ==
  \/ store[NameFor(u)] = Nothing
  \/ file[u] \in Image /\ unpacked[NameFor(u)] = "none"

CompareDate(u) ==
  /\ UploadStep(u, "date", IF NotUploaded(u) THEN "remove"
                     ELSE IF DateDiffers(u) THEN "hash" ELSE "uploaded")
  /\ last_modified' = [last_modified EXCEPT ![u] = 0]
  /\ UNCHANGED <<disk, store, unpacked, file, edits>> /\ SameHistory

CompareHash(u) ==
  /\ UploadStep(u, "hash",
          IF ContentFor(u) # store[NameFor(u)].content THEN "remove" ELSE "uploaded")
  /\ UNCHANGED <<store, unpacked>> /\ Same /\ SameHistory

-----------------------------------------------------------------------------
(* add_file, add_image_file *)

\* That the old copy cannot be removed is only logged.
RemoveFile(u) ==
  /\ UploadStep(u, "remove", "copy")
  /\ \/ store' = [store EXCEPT ![NameFor(u)] = Nothing] /\ UNCHANGED faults
     \/ faults < MaxFaults /\ faults' = faults + 1 /\ UNCHANGED store
  /\ UNCHANGED <<unpacked, upload_disturbed, suspect>> /\ Same

\* copy2 opens and empties the copy, ...
OpenCopy(u) ==
  /\ UploadStep(u, "copy", "write")
  /\ store' = [store EXCEPT ![NameFor(u)] =
                 [content |-> "part", time |-> Now]]
  /\ UNCHANGED unpacked /\ Same /\ SameHistory

\* ... writes it, through the open file even if its name is gone by then, ...
WriteCopy(u) ==
  /\ UploadStep(u, "write", "stat")
  /\ store' = IF store[NameFor(u)] = Nothing THEN store
              ELSE [store EXCEPT ![NameFor(u)] =
                      [content |-> ContentFor(u), time |-> Now]]
  /\ UNCHANGED unpacked /\ Same /\ SameHistory

\* ... and sets the times, which raises if the copy is gone.
CopyStat(u) ==
  /\ UploadStep(u, "stat", IF store[NameFor(u)] = Nothing THEN "idle" ELSE "send")
  /\ store' = IF store[NameFor(u)] = Nothing THEN store
              ELSE [store EXCEPT ![NameFor(u)].time = disk[file[u]]]
  /\ UNCHANGED unpacked /\ Same /\ SameHistory

SendFile(u) ==
  /\ UploadStep(u, "send", IF file[u] \in Image THEN "clear" ELSE "uploaded")
  /\ UNCHANGED <<store, unpacked>> /\ Same /\ SameHistory

\* The image that the old archive was unpacked to is removed, ...
ClearUnpacked(u) ==
  /\ UploadStep(u, "clear", "unpack")
  /\ unpacked' = [unpacked EXCEPT ![NameFor(u)] = "none"]
  /\ UNCHANGED store /\ Same /\ SameHistory

\* ... and the new one is unpacked where there is none.
Unpack(u) ==
  /\ UploadStep(u, "unpack", "uploaded")
  /\ unpacked' = [unpacked EXCEPT ![NameFor(u)] =
                    IF @ = "none" THEN store[NameFor(u)].content ELSE @]
  /\ UNCHANGED store /\ Same /\ SameHistory

\* An error that is not caught, or the user, ends the program.
Die(u) ==
  /\ upload_at[u] \notin Resting /\ faults < MaxFaults
  /\ UploadGoto(u, "idle")
  /\ faults' = faults + 1
  /\ suspect' = suspect \cup
       (IF upload_at[u] \in {"stat", "send", "clear", "unpack"} /\ file[u] \in Image
        THEN {NameFor(u)} ELSE {})
  /\ UNCHANGED <<store, unpacked, upload_disturbed>> /\ Same

\* The user changes a file, or puts an older version back.
Edit(f) ==
  /\ edits < MaxEdits /\ edits' = edits + 1
  /\ \E t \in Versions[f] \ {disk[f]} : disk' = [disk EXCEPT ![f] = t]
  /\ LET at_it == {u \in Uploader : file[u] = f /\ upload_at[u] # "idle"} IN
       /\ upload_disturbed' = upload_disturbed \cup at_it
       /\ suspect' = IF \E u \in at_it : upload_at[u] = "stat"
                     THEN suspect \cup {NameOf[f]} ELSE suspect
  /\ UNCHANGED <<store, unpacked, upload_at, file, last_modified, faults>>

-----------------------------------------------------------------------------

UploadNext ==
  \/ \E f \in File : Edit(f) \/ \E u \in Uploader : GetTime(u, f)
  \/ \E u \in Uploader :
       \/ CompareDate(u) \/ CompareHash(u) \/ RemoveFile(u)
       \/ OpenCopy(u) \/ WriteCopy(u) \/ CopyStat(u) \/ SendFile(u)
       \/ ClearUnpacked(u) \/ Unpack(u) \/ Die(u)

UploadSpec == UploadInit /\ [][UploadNext]_uploadVars

-----------------------------------------------------------------------------
(* Correctness *)

\* After an upload the store has the file as it is, and unpacked if it is an
\* archive, whichever version was there before and whatever failed before;
\* under the same conditions, and unless a program was stopped between the
\* end of the copy and the unpacking.
StoreIsCurrent ==
  \A u \in Uploader \ upload_disturbed :
    upload_at[u] = "uploaded" /\ NameFor(u) \notin suspect =>
      /\ store[NameFor(u)].content = ContentFor(u)
      /\ file[u] \in Image => unpacked[NameFor(u)] = ContentFor(u)
=============================================================================
