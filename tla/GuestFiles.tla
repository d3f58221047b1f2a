------------------------------ MODULE GuestFiles ------------------------------
(***************************************************************************)
(* Files that go into the VM and out of it through the guest agent         *)
(* (vm_resource_handler.py: load_files_in_target and _transfer_data, on    *)
(* write_from_file, read_file and get_files of the driver).  The schedule  *)
(* has an entry that brings one file and a later one that transfers the    *)
(* files of a directory every interval.                                    *)
(***************************************************************************)
EXTENDS Naturals, FiniteSets

CONSTANTS
    Size,        \* chunks of the file that is brought, the last one included
    MaxAttempts, \* 10 in the code
    File,        \* the files of the directory
    MaxWrites,   \* times the VM writes one of them
    MaxTime,     \* seconds the VM's clock goes on
    MaxCommandsLost \* commands that fail, or whose answer is lost or late

NoFile == "none"

ASSUME FilesAssumption == Size \in Nat \ {0} /\ NoFile \notin File

VARIABLES
    load,      \* where load_files_in_target is
    attempts,
    vm_file,   \* chunks of the file in the VM; Absent
    written,   \* chunks of it written through the open handle
    transfer,  \* where _transfer_data is
    todo,      \* the files get_files returned that are still to be read
    file,      \* the one that is being read
    local_time,
    clock,     \* the VM's clock, in seconds
    version, mtime,   \* of the VM's files; version 0: there is no such file
    copy,      \* the versions on the host
    commands_lost,
    \* Only for the properties:
    lost_at,   \* the commands of the loading that were lost
    unlisted,  \* the files written since the last listing, until the clock is read
    missed     \* the files whose reading failed, or written since the listing, in a
               \* second before that in which the clock was read

loadVars == <<load, attempts, vm_file, written, lost_at>>
vmVars == <<clock, version, mtime>>
transferVars == <<transfer, todo, file, local_time, unlisted, missed>>
filesVars == <<loadVars, transferVars, vmVars, copy, commands_lost>>

Absent == Size + 1
Torn == MaxWrites + 1     \* a copy that is no version of the file
FilesInit ==
    /\ load = "fetch" /\ attempts = 1 /\ vm_file = Absent /\ written = 0
    /\ transfer = "look" /\ todo = {} /\ file = NoFile /\ local_time = 0
    /\ clock = 1 /\ version = [f \in File |-> 0] /\ mtime = [f \in File |-> 0]
    /\ copy = [f \in File |-> 0] /\ commands_lost = 0 /\ lost_at = {}
    /\ unlisted = {} /\ missed = {}

LoseCommand == commands_lost < MaxCommandsLost /\ commands_lost' = commands_lost + 1

-----------------------------------------------------------------------------
(* load_files_in_target                                                    *)

NotLoading == UNCHANGED <<transferVars, vmVars, copy>>

\* vm_resource_store.get_path: tried until the attempts are used up.
FetchFile ==
    /\ load = "fetch"
    /\ \/ load' = "exists" /\ attempts' = 1 /\ commands_lost' = commands_lost
       \/ /\ LoseCommand
          /\ attempts' = attempts + 1
          /\ load' = IF attempts + 1 < MaxAttempts THEN "fetch" ELSE "False"
    /\ UNCHANGED <<vm_file, written, lost_at>> /\ NotLoading

\* A file that exists is left alone.  When the check itself fails (None or False)
\* the file is written.  An answer that comes late is what opening it reads then.
FileExists ==
    /\ load = "exists"
    /\ \/ /\ load' = (IF vm_file = Absent THEN "open" ELSE "done")
          /\ UNCHANGED <<commands_lost, lost_at>>
       \/ /\ LoseCommand /\ lost_at' = lost_at \cup {"exists"}
          /\ load' \in {"open", "open stray"}
    /\ UNCHANGED <<attempts, vm_file, written>> /\ NotLoading

\* Mutant: the file is opened to append to it.
OpenedAppend == IF vm_file = Absent THEN 0 ELSE vm_file

\* write_from_file opens the file with mode "w", which empties it.
Opened == 0

\* An OSError: the driver connects anew, and what was loaded is looked at again.
Retry(command) ==
    /\ LoseCommand /\ lost_at' = lost_at \cup {command}
    /\ attempts' = attempts + 1
    /\ load' = IF attempts + 1 < MaxAttempts THEN "exists" ELSE "False"

OpenFile ==
    /\ load = "open"
    /\ \/ /\ load' = "write" /\ vm_file' = Opened
          /\ UNCHANGED <<attempts, commands_lost, lost_at>>
       \/ Retry("open") /\ vm_file' \in {vm_file, Opened}
    /\ written' = 0
    /\ NotLoading

\* The answer to another command is taken for the handle.  The file has been emptied,
\* and the first chunk reads the true handle, which is no answer to it: a TypeError.
OpenStray ==
    /\ load = "open stray"
    /\ vm_file' = Opened /\ written' = 0
    /\ load' = "raised"
    /\ UNCHANGED <<attempts, commands_lost, lost_at>> /\ NotLoading

\* file_write_from_file: chunk after chunk.  A chunk that times out ends it with False;
\* if its answer is late the close reads that, and opening anew the close's.
WriteChunk ==
    /\ load = "write"
    /\ \/ /\ vm_file' = vm_file + 1 /\ written' = written + 1
          /\ load' = IF written + 1 = Size THEN "close ok" ELSE "write"
          /\ UNCHANGED <<commands_lost, lost_at>>
       \/ /\ LoseCommand /\ lost_at' = lost_at \cup {"write"}
          /\ vm_file' \in {vm_file, vm_file + 1} /\ written' = written
          /\ load' \in {"close failed", "open stray"}
    /\ UNCHANGED attempts /\ NotLoading

\* The agent wrote less than it was given: a RuntimeError, which nobody here catches.
WrittenShort ==
    /\ load = "write" /\ LoseCommand
    /\ load' = "raised"
    /\ UNCHANGED <<attempts, vm_file, written, lost_at>> /\ NotLoading

\* The loop around write_from_file writes again until it returns True; the loop
\* around that one looks whether the file exists.
CloseFile ==
    /\ load \in {"close ok", "close failed"}
    /\ \/ /\ load' = IF load = "close ok" THEN "exists" ELSE "open"
          /\ UNCHANGED <<attempts, commands_lost, lost_at>>
       \/ Retry("close")
    /\ UNCHANGED <<vm_file, written>> /\ NotLoading

\* These commands have no timeout: without an answer the handler waits for ever.
LoadHangs ==
    /\ load \in {"exists", "open", "close ok", "close failed"} /\ LoseCommand
    /\ load' = "blocked"
    /\ UNCHANGED <<attempts, vm_file, written, lost_at>> /\ NotLoading

Load == FetchFile \/ FileExists \/ OpenFile \/ OpenStray \/ WriteChunk \/ CloseFile

-----------------------------------------------------------------------------
(* The VM.                                                                 *)

WriteInVM(f) ==
    /\ version[f] < MaxWrites
    /\ version' = [version EXCEPT ![f] = @ + 1]
    /\ mtime' = [mtime EXCEPT ![f] = clock]
    /\ missed' = missed \ {f}
    /\ unlisted' = IF transfer \in {"next", "read", "close"} THEN unlisted \cup {f}
                   ELSE unlisted
    /\ UNCHANGED <<clock, loadVars, transfer, todo, file, local_time, copy,
                   commands_lost>>

Tick ==
    /\ clock < MaxTime
    /\ clock' = clock + 1
    /\ UNCHANGED <<version, mtime, loadVars, transferVars, copy, commands_lost>>

-----------------------------------------------------------------------------
(* _transfer_data, with an interval                                        *)

Transferring(from, to) == load \in {"done", "False"} /\ transfer = from /\ transfer' = to

\* "find -newermt": the time is written to the second, a file's is not.
Newer == {f \in File : version[f] > 0 /\ (local_time = 0 \/ mtime[f] >= local_time)}

\* file_exists: as long as there is nothing, or no answer, it is asked again.
LookForFiles ==
    /\ Transferring("look", "list")
    /\ \E f \in File : version[f] > 0
    /\ UNCHANGED <<loadVars, todo, file, local_time, unlisted, missed, vmVars, copy,
                   commands_lost>>

\* get_files.  Without an answer it returns None: a RuntimeError ends the thread.
ListFiles ==
    /\ \/ Transferring("list", "next") /\ todo' = Newer /\ commands_lost' = commands_lost
       \/ Transferring("list", "ended") /\ LoseCommand /\ todo' = todo
    /\ unlisted' = {}
    /\ UNCHANGED <<loadVars, file, local_time, missed, vmVars, copy>>

\* read_file: the copy of before is removed.
OpenCopy(f) ==
    /\ f \in todo /\ Transferring("next", "read")
    /\ todo' = todo \ {f} /\ file' = f
    /\ copy' = [copy EXCEPT ![f] = 0]
    /\ UNCHANGED <<loadVars, local_time, unlisted, missed, vmVars, commands_lost>>

\* guest-file-open fails: False, and the file is passed over.
OpenCopyFails(f) ==
    /\ f \in todo /\ Transferring("next", "next") /\ LoseCommand
    /\ todo' = todo \ {f}
    /\ missed' = missed \cup {f}
    /\ UNCHANGED <<loadVars, file, local_time, unlisted, vmVars, copy>>

\* Chunks are appended: the first, and at last the one with the end of the file.
ReadFirst ==
    /\ Transferring("read", "read") /\ copy[file] = 0
    /\ copy' = [copy EXCEPT ![file] = version[file]]
    /\ UNCHANGED <<loadVars, todo, file, local_time, unlisted, missed, vmVars,
                   commands_lost>>

ReadLast ==
    /\ Transferring("read", "close") /\ copy[file] # 0
    /\ copy' = [copy EXCEPT ![file] = IF version[file] = @ THEN @ ELSE Torn]
    /\ UNCHANGED <<loadVars, todo, file, local_time, unlisted, missed, vmVars,
                   commands_lost>>

\* A RuntimeError while reading: half a copy stays.
ReadFails ==
    /\ Transferring("read", "close") /\ LoseCommand
    /\ copy' = [copy EXCEPT ![file] = IF @ = 0 THEN 0 ELSE Torn]
    /\ missed' = missed \cup {file}
    /\ UNCHANGED <<loadVars, todo, file, local_time, unlisted, vmVars>>

CloseCopy ==
    /\ Transferring("close", "next")
    /\ file' = NoFile
    /\ UNCHANGED <<loadVars, todo, local_time, unlisted, missed, vmVars, copy,
                   commands_lost>>

\* get_time, and the thread sleeps for the interval.
ReadTime ==
    /\ Transferring("next", "sleep") /\ todo = {}
    /\ local_time' = clock
    /\ missed' = missed \cup {f \in unlisted : mtime[f] < clock} /\ unlisted' = {}
    /\ UNCHANGED <<loadVars, todo, file, vmVars, copy, commands_lost>>

\* Mutant: the clock is read when the thread wakes.
WakeReadsTime ==
    /\ Transferring("sleep", "look")
    /\ local_time' = clock
    /\ UNCHANGED <<loadVars, todo, file, unlisted, missed, vmVars, copy, commands_lost>>

Wake ==
    /\ Transferring("sleep", "look")
    /\ UNCHANGED <<loadVars, todo, file, local_time, unlisted, missed, vmVars, copy,
                   commands_lost>>

\* These commands have no timeout either.
TransferHangs ==
    /\ \E at \in {"look", "list", "next", "read", "close"} : Transferring(at, "blocked")
    /\ LoseCommand
    /\ UNCHANGED <<loadVars, todo, file, local_time, unlisted, missed, vmVars, copy>>

Transfer ==
    \/ LookForFiles \/ ListFiles \/ ReadFirst \/ ReadLast \/ CloseCopy \/ ReadTime
    \/ Wake \/ \E f \in File : OpenCopy(f)

FilesNext ==
    \/ Load \/ WrittenShort \/ LoadHangs
    \/ \E f \in File : WriteInVM(f) \/ OpenCopyFails(f)
    \/ Tick \/ Transfer \/ ReadFails \/ TransferHangs

FilesSpec ==
    FilesInit /\ [][FilesNext]_filesVars /\ WF_filesVars(Load) /\ WF_filesVars(Transfer)

-----------------------------------------------------------------------------
\* load_files_in_target returns True only when the whole file is in the VM, unless
\* the answer to opening or closing it was lost: a chunk that is lost, or written
\* twice, never shows.
LoadedIsWhole ==
    load = "done" /\ {"open", "close"} \cap lost_at = {} => vm_file = Size

\* Every version of a file that lasts is copied, unless its reading failed, or it was
\* written after the files were listed and in a second before that in which the clock
\* was read after it (_transfer_data reads the clock last), or the threads have ended
\* or wait for ever.
EveryChangeIsCopied ==
    \A f \in File :
        copy[f] # version[f] ~>
            \/ copy[f] = version[f] \/ f \in missed
            \/ transfer \in {"ended", "blocked"} \/ load \in {"raised", "blocked"}

=============================================================================
