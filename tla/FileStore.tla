------------------------------ MODULE FileStore ------------------------------
(***************************************************************************)
(* One file of the FileStore (lib/minimega/file_store.py): a directory of  *)
(* minimega's file system that every host of the mesh caches.  Processes   *)
(* on the hosts get the file; one of them (on the head) adds it anew.      *)
(* A packed file is an image that is decompressed next to what was sent;   *)
(* one that is not packed stands for a VM resource or a schedule.          *)
(***************************************************************************)
EXTENDS Naturals, FiniteSets

CONSTANTS
    Host,        \* the mesh
    Head,        \* where files are added
    Reader,      \* processes that get the file, once after another
    Adder,       \* the process that adds it
    Site,        \* Site[p]: the host that process p runs on
    None, Part,  \* no file; a file that is not (yet) all there
    Size,        \* Size[v]: size of the cached file in version v
    Attempts,    \* times a broadcast is sent (10 in the code)
    MaxFaults    \* processes killed, and decompressions failed, at most

Process == Reader \cup {Adder}

ASSUME StoreAssumption ==
    /\ IsFiniteSet(Host) /\ Head \in Host /\ Adder \notin Reader
    /\ Site \in [Process -> Host] /\ Site[Adder] = Head
    /\ Size \in [{1, 2} -> Nat]
    /\ None # Part /\ {None, Part} \cap {1, 2} = {}
    /\ Attempts \in Nat \ {0} /\ MaxFaults \in Nat

VARIABLES
    packed,   \* whether the file's name has the extension of an archive
    disk,     \* disk[h][n]: version of the file called n on host h
    locked,   \* the hosts with a lock directory for the cached file
    flight,   \* minimega's transfers
    pc, held, \* where a process is in get_path; whether it took the lock
    src,      \* the version a process is decompressing
    writers,  \* writers[h]: processes writing the file now on host h
    served,   \* what a process found behind the path it was given
    result,   \* what the last broadcast returned
    tries,    \* broadcasts sent
    raced,    \* hosts where a body ran without the lock, half a file was set
              \* free, or half an image came over the mesh
    crowded,  \* whether a reader on the head went to get the file anew
    faults

vars == <<packed, disk, locked, flight, pc, held, src, writers, served, result,
          tries, raced, crowded, faults>>
getVars == <<pc, held, src, served>>

Name == {"sent", "unpacked"}
Cached == IF packed THEN "unpacked" ELSE "sent"

InBody == {"fetch", "poll", "inspect", "backing", "open", "write"}
Getting == InBody \cup {"lock", "wait"}

\* Version 1 was there before, the adder brings version 2.
Init ==
    /\ packed \in BOOLEAN
    /\ disk = [h \in Host |-> [n \in Name |->
                 IF h = Head /\ n \in {"sent", Cached} THEN 1 ELSE None]]
    /\ locked = {} /\ flight = {}
    /\ pc = [p \in Process |-> "idle"]
    /\ held = [p \in Process |-> FALSE]
    /\ src = [p \in Process |-> None]
    /\ writers = [h \in Host |-> {}]
    /\ served = [p \in Process |-> None]
    /\ result = "none" /\ tries = 0 /\ raced = {} /\ crowded = FALSE /\ faults = 0

-----------------------------------------------------------------------------
(* minimega, as this code uses it.                                         *)

Has(h, n) == disk[h][n] # None
InFlight(h, n) == \E t \in flight : t.host = h /\ t.name = n
Sources(h, n) == {g \in Host \ {h} : Has(g, n)}

\* "file get n" on the hosts hs: those that lack the file and do not already
\* receive it start to.
Asked(hs, n) ==
    {h \in hs : ~Has(h, n) /\ ~InFlight(h, n) /\ Sources(h, n) # {}}
FileGet(hs, n) ==
    \E from \in [Asked(hs, n) -> Host] :
        /\ \A h \in Asked(hs, n) : from[h] \in Sources(h, n)
        /\ flight' = flight \cup
             {[host |-> h, name |-> n, version |-> disk[from[h]][n]] :
                h \in Asked(hs, n)}

\* A process that is writing a file that is deleted or replaced goes on writing one
\* that has no name any more.
Written(p) == IF pc[p] = "copying" THEN "sent" ELSE "unpacked"
WritersOf(h, n) == {p \in writers[h] : Written(p) = n}
Unnamed(h, n) == writers[h] \ WritersOf(h, n)

\* "file delete n" on the hosts hs.
FileDelete(hs, n) ==
    /\ disk' = [h \in Host |-> IF h \in hs THEN [disk[h] EXCEPT ![n] = None]
                                           ELSE disk[h]]
    /\ writers' = [h \in Host |-> IF h \in hs THEN Unnamed(h, n) ELSE writers[h]]

\* A transfer puts the file in its place, as it was on the host it came from:
\* half an image, when that host was still unpacking it.
Deliver(t) ==
    /\ t \in flight
    /\ flight' = flight \ {t}
    /\ disk' = [disk EXCEPT ![t.host][t.name] = t.version]
    /\ writers' = [writers EXCEPT ![t.host] = Unnamed(t.host, t.name)]
    /\ raced' = IF t.name = Cached /\ t.version = Part THEN raced \cup {t.host} ELSE raced
    /\ UNCHANGED <<packed, locked, getVars, result, tries, crowded, faults>>

\* A transfer whose file was deleted on every other host ends with nothing.
Abandon(t) ==
    /\ t \in flight
    /\ \A h \in Host \ {t.host} : disk[h][t.name] # t.version
    /\ flight' = flight \ {t}
    /\ UNCHANGED <<packed, disk, locked, getVars, writers, result, tries, raced,
                   crowded, faults>>

-----------------------------------------------------------------------------
(* get_path, on the host of the process.                                   *)

\* The end of get_path: the adder goes on to broadcast the file.
After(p) == IF p = Adder THEN "broadcast" ELSE "idle"

\* Mutant: an error leaves the lock behind.
LeaveBodyOnSuccess(p) ==
    /\ locked' = IF held[p] /\ Has(Site[p], Cached) THEN locked \ {Site[p]} ELSE locked
    /\ held' = [held EXCEPT ![p] = FALSE]

\* file_lock's finally: the lock is released by the process that took it.
LeaveBody(p) ==
    /\ locked' = IF held[p] THEN locked \ {Site[p]} ELSE locked
    /\ held' = [held EXCEPT ![p] = FALSE]

\* Mutant: a file that is there is taken at once.
LookNoWait(p, h) == IF Has(h, Cached) /\ p # Adder THEN "idle" ELSE "lock"

\* _minimega_get_data looks for the file before it looks for the lock.
Look(p, h) == IF Has(h, Cached) THEN "wait" ELSE "lock"

BeginGet(r) ==
    /\ pc[r] = "idle"
    /\ LET next == Look(r, Site[r]) IN
         /\ pc' = [pc EXCEPT ![r] = next]
         /\ served' = [served EXCEPT ![r] =
                         IF next = "idle" THEN disk[Site[r]][Cached] ELSE None]
    /\ crowded' = (crowded \/ (Site[r] = Head /\ pc'[r] = "lock"))
    /\ UNCHANGED <<packed, disk, locked, flight, held, src, writers, result, tries,
                   raced, faults>>

\* _wait_for_lock, then the path is returned and opened, whatever is there.
Waited(p) ==
    /\ pc[p] = "wait" /\ Site[p] \notin locked
    /\ pc' = [pc EXCEPT ![p] = After(p)]
    /\ served' = [served EXCEPT ![p] = disk[Site[p]][Cached]]
    /\ UNCHANGED <<packed, disk, locked, flight, held, src, writers, result, tries,
                   raced, crowded, faults>>

\* file_lock: the directory is made, or, when it is there already, the error is
\* logged and the body runs all the same.
Lock(p) ==
    /\ pc[p] = "lock"
    /\ held' = [held EXCEPT ![p] = Site[p] \notin locked]
    /\ raced' = IF Site[p] \in locked THEN raced \cup {Site[p]} ELSE raced
    /\ locked' = locked \cup {Site[p]}
    /\ pc' = [pc EXCEPT ![p] = "fetch"]
    /\ UNCHANGED <<packed, disk, flight, src, writers, served, result, tries, crowded,
                   faults>>

\* _minimega_get_file asks minimega for the file, unless it is there.
Fetch(p) ==
    /\ pc[p] = "fetch"
    /\ Has(Site[p], "sent") \/ InFlight(Site[p], "sent") \/ Sources(Site[p], "sent") # {}
    /\ IF Has(Site[p], "sent") THEN flight' = flight ELSE FileGet({Site[p]}, "sent")
    /\ pc' = [pc EXCEPT ![p] = IF Has(Site[p], "sent") THEN "inspect" ELSE "poll"]
    /\ UNCHANGED <<packed, disk, locked, held, src, writers, served, result, tries,
                   raced, crowded, faults>>

\* The polling of "file status" ends when no transfer of the file is under way.
Polled(p) ==
    /\ pc[p] = "poll" /\ ~InFlight(Site[p], "sent")
    /\ pc' = [pc EXCEPT ![p] = "inspect"]
    /\ UNCHANGED <<packed, disk, locked, flight, held, src, writers, served, result,
                   tries, raced, crowded, faults>>

\* "no such file", from minimega's "file get" or "disk info": FileNotFoundError.
NotFound(p) ==
    /\ \/ pc[p] = "fetch" /\ ~InFlight(Site[p], "sent") /\ Sources(Site[p], "sent") = {}
       \/ pc[p] = "inspect"
    /\ ~Has(Site[p], "sent")
    /\ LeaveBody(p)
    /\ pc' = [pc EXCEPT ![p] = "idle"]
    /\ UNCHANGED <<packed, disk, flight, src, writers, served, result, tries, raced,
                   crowded, faults>>

\* The path of a file that need not be unpacked is returned.
Return(p) ==
    /\ pc' = [pc EXCEPT ![p] = After(p)]
    /\ served' = [served EXCEPT ![p] = disk[Site[p]][Cached]]
    /\ LeaveBody(p)

\* disk_info finds the file.  One that need not be unpacked may have a backing file,
\* which is got in the body.
Inspect(p) ==
    /\ pc[p] = "inspect" /\ Has(Site[p], "sent")
    /\ \/ packed /\ pc' = [pc EXCEPT ![p] = "open"] /\ UNCHANGED <<served, locked, held>>
       \/ ~packed /\ Return(p)
       \/ ~packed /\ pc' = [pc EXCEPT ![p] = "backing"] /\ UNCHANGED <<served, locked, held>>
    /\ UNCHANGED <<packed, disk, flight, src, writers, result, tries, raced, crowded,
                   faults>>

\* get_path of the backing file, another file with a lock of its own, returns or
\* raises an exception.
BackingEnds(p) ==
    /\ pc[p] = "backing"
    /\ Return(p) \/ (pc' = [pc EXCEPT ![p] = "idle"] /\ LeaveBody(p) /\ served' = served)
    /\ UNCHANGED <<packed, disk, flight, src, writers, result, tries, raced, crowded,
                   faults>>

\* Both files are opened; the cached one is truncated.
Open(p) ==
    /\ pc[p] = "open" /\ Has(Site[p], "sent")
    /\ src' = [src EXCEPT ![p] = disk[Site[p]]["sent"]]
    /\ disk' = [disk EXCEPT ![Site[p]]["unpacked"] = Part]
    /\ writers' = [writers EXCEPT ![Site[p]] = @ \cup {p}]
    /\ pc' = [pc EXCEPT ![p] = "write"]
    /\ UNCHANGED <<packed, locked, flight, held, served, result, tries, raced, crowded, faults>>

\* The last chunk is written and the path returned.
Unpacked(p) ==
    /\ pc[p] = "write" /\ src[p] # Part
    /\ LET h == Site[p]
           now == IF WritersOf(h, "unpacked") = {p} THEN src[p] ELSE disk[h]["unpacked"]
       IN /\ disk' = [disk EXCEPT ![h]["unpacked"] = now]
          /\ writers' = [writers EXCEPT ![h] = @ \ {p}]
          /\ served' = [served EXCEPT ![p] = now]
    /\ LeaveBody(p)
    /\ pc' = [pc EXCEPT ![p] = After(p)]
    /\ src' = [src EXCEPT ![p] = None]
    /\ UNCHANGED <<packed, flight, result, tries, raced, crowded, faults>>

\* The adder is still copying the archive.
Grows(p) == Site[p] = Head /\ pc[Adder] = "copying"

\* An OSError, LZMAError or TarError: both files are removed and RuntimeError is
\* raised.  Half a .tar and an archive that has gone always fail.
DecompressError(p) ==
    /\ pc[p] \in {"open", "write"}
    /\ LET sure == IF pc[p] = "open" THEN ~Has(Site[p], "sent") ELSE src[p] = Part
       IN sure \/ (faults < MaxFaults /\ pc[p] = "write")
    /\ faults' = IF faults < MaxFaults THEN faults + 1 ELSE faults
    /\ disk' = [disk EXCEPT ![Site[p]] = [n \in Name |-> None]]
    /\ writers' = [writers EXCEPT ![Site[p]] = {}]
    /\ LeaveBody(p)
    /\ pc' = [pc EXCEPT ![p] = "idle"]
    /\ src' = [src EXCEPT ![p] = None]
    /\ UNCHANGED <<packed, flight, served, result, tries, raced, crowded>>

\* Half an .xz: the loop reads nothing for ever, with the lock.
Starve(p) ==
    /\ pc[p] = "write" /\ src[p] = Part /\ ~Grows(p)
    /\ pc' = [pc EXCEPT ![p] = "starved"]
    /\ writers' = [writers EXCEPT ![Site[p]] = @ \ {p}]
    /\ UNCHANGED <<packed, disk, locked, flight, held, src, served, result, tries, raced,
                   crowded, faults>>

\* The process is killed: the lock it took and the half file it wrote stay.
Die(r) ==
    /\ faults < MaxFaults /\ pc[r] \in Getting
    /\ faults' = faults + 1
    /\ pc' = [pc EXCEPT ![r] = "dead"]
    /\ writers' = [writers EXCEPT ![Site[r]] = @ \ {r}]
    /\ UNCHANGED <<packed, disk, locked, flight, held, src, served, result, tries, raced,
                   crowded>>

\* Processes that never leave the body.
Lost == {p \in Process : pc[p] \in {"dead", "starved"}}
Orphaned(h) == \E p \in Lost : held[p] /\ Site[p] = h

\* "firewheel mm flush_locks", run as its warning asks for; with --clear it
\* removes the files that were locked too.
FlushLocks(h) ==
    /\ Orphaned(h)
    /\ locked' = locked \ {h}
    /\ held' = [p \in Process |-> held[p] /\ ~(p \in Lost /\ Site[p] = h)]
    /\ \/ /\ disk' = [disk EXCEPT ![h] = [n \in Name |-> None]]
          /\ writers' = [writers EXCEPT ![h] = {}]
          /\ raced' = raced
       \/ raced' = raced \cup {h} /\ UNCHANGED <<disk, writers>>
    /\ UNCHANGED <<packed, flight, pc, src, served, result, tries, crowded, faults>>

-----------------------------------------------------------------------------
(* add_image_file (packed) and add_file_from_content (not packed).         *)

Step(from, to) == pc[Adder] = from /\ pc' = [pc EXCEPT ![Adder] = to]
restOfAdd == <<packed, locked, held, src, served, raced, crowded, faults>>

BeginAdd ==
    /\ Step("idle", "rm") /\ result = "none" /\ disk[Head]["sent"] = 1
    /\ UNCHANGED <<restOfAdd, disk, flight, writers, result, tries>>

\* remove_file: first here, then on the other hosts.
RemoveHere ==
    /\ Step("rm", "rm_mesh")
    /\ FileDelete({Head}, "sent")
    /\ UNCHANGED <<restOfAdd, flight, result, tries>>

RemoveThere ==
    /\ Step("rm_mesh", "copy")
    /\ FileDelete(Host \ {Head}, "sent")
    /\ UNCHANGED <<restOfAdd, flight, result, tries>>

\* The file is opened for writing, without the lock.
BeginCopy ==
    /\ Step("copy", "copying")
    /\ disk' = [disk EXCEPT ![Head]["sent"] = Part]
    /\ writers' = [writers EXCEPT ![Head] = @ \cup {Adder}]
    /\ raced' = IF packed THEN raced ELSE Host
    /\ UNCHANGED <<packed, locked, held, src, served, crowded, faults, flight, result,
                   tries>>

\* Processes that have opened the file on the head while it grew may read it all.
EndCopy ==
    /\ Step("copying", IF packed THEN "send" ELSE "broadcast")
    /\ disk' = IF Adder \in writers[Head] THEN [disk EXCEPT ![Head]["sent"] = 2] ELSE disk
    /\ writers' = [writers EXCEPT ![Head] = @ \ {Adder}]
    /\ \E all \in SUBSET {r \in Reader : pc[r] = "write" /\ Site[r] = Head /\ src[r] = Part} :
         src' = [p \in Process |-> IF p \in all THEN 2 ELSE src[p]]
    /\ UNCHANGED <<packed, locked, held, served, raced, crowded, faults, flight, result,
                   tries>>

\* add_file sends "file get" once to everybody.
SendFile ==
    /\ Step("send", "rm_img")
    /\ FileGet(Host \ {Head}, "sent")
    /\ UNCHANGED <<restOfAdd, disk, writers, result, tries>>

\* Mutant: what the old archive was unpacked to is kept.
KeepImageHere ==
    /\ Step("rm_img", "rm_img_mesh")
    /\ UNCHANGED <<disk, writers>>
    /\ UNCHANGED <<restOfAdd, flight, result, tries>>

\* add_image_file removes what the old archive was unpacked to, ...
RemoveImageHere ==
    /\ Step("rm_img", "rm_img_mesh")
    /\ FileDelete({Head}, "unpacked")
    /\ UNCHANGED <<restOfAdd, flight, result, tries>>

\* ... and then gets the file, which unpacks the new one.
RemoveImageThere ==
    /\ Step("rm_img_mesh", Look(Adder, Head))
    /\ FileDelete(Host \ {Head}, "unpacked")
    /\ UNCHANGED <<restOfAdd, flight, result, tries>>

\* broadcast_get_file: all attempts are made, unless one meets a transfer or there
\* is no other host.
Broadcast ==
    /\ pc[Adder] = "broadcast"
    /\ FileGet(Host \ {Head}, Cached)
    /\ LET alone == Host = {Head}
           last == tries + 1 = Attempts \/ \E h \in Host \ {Head} : InFlight(h, Cached)
       IN /\ pc' = [pc EXCEPT ![Adder] = IF alone THEN "idle"
                                        ELSE IF last THEN "check" ELSE "broadcast"]
          /\ tries' = IF alone \/ last THEN 0 ELSE tries + 1
          /\ result' = IF alone THEN "yes" ELSE result
    /\ UNCHANGED <<restOfAdd, disk, writers>>

\* The sizes that "file list" may show: half a file has less than the whole.
Listed(v) ==
    CASE v = None -> {}
      [] v = Part -> UNION {0 .. (Size[w] - 1) : w \in {1, 2}}
      [] OTHER -> {Size[v]}

\* _check_mesh_transfer: when no other host receives the file any more, the listings
\* of all hosts are compared with the one of this host, by name and size.
Check ==
    /\ Step("check", "idle")
    /\ ~\E h \in Host \ {Head} : InFlight(h, Cached)
    /\ \/ result' = "yes" /\ \E n \in Listed(disk[Head][Cached]) :
                                \A h \in Host : n \in Listed(disk[h][Cached])
       \/ result' = "no" /\ ~\E n \in Listed(disk[Head][Cached]) :
                                \A h \in Host : Listed(disk[h][Cached]) = {n}
    /\ UNCHANGED <<restOfAdd, disk, flight, writers, tries>>

Add == \/ BeginAdd \/ RemoveHere \/ RemoveThere \/ BeginCopy \/ EndCopy \/ SendFile
       \/ RemoveImageHere \/ RemoveImageThere \/ Broadcast \/ Check

Get(p) == \/ Waited(p) \/ Lock(p) \/ Fetch(p) \/ Polled(p) \/ NotFound(p) \/ Inspect(p)
          \/ BackingEnds(p) \/ Open(p) \/ Unpacked(p) \/ DecompressError(p) \/ Starve(p)

Next ==
    \/ Add
    \/ \E p \in Process : Get(p)
    \/ \E r \in Reader : BeginGet(r) \/ Die(r)
    \/ \E h \in Host : FlushLocks(h)
    \/ \E t \in flight : Deliver(t) \/ Abandon(t)

\* A process that is getting the file goes on; so does the adder once it has
\* begun; transfers end.  Nobody need ask, die or flush locks.
Fairness ==
    /\ \A p \in Process : WF_vars(Get(p))
    /\ WF_vars(Add /\ pc[Adder] # "idle")
    /\ \A h \in Host, n \in Name :
         WF_vars(\E t \in flight : t.host = h /\ t.name = n /\ (Deliver(t) \/ Abandon(t)))

Spec == Init /\ [][Next]_vars /\ Fairness

-----------------------------------------------------------------------------
\* Nobody is given a path to half an image, as long as no body ran without the
\* lock on that host, no half image was set free by hand and none was sent to it
\* by a host that was still unpacking.
WholeFiles == \A p \in Process : served[p] = Part => Site[p] \in raced

\* A broadcast that returns True leaves the added version on the head, and on every
\* other host that or a file a listing cannot tell from it: as long as no reader
\* fetches or unpacks the file on the head, while the adder does.
AddedEverywhere ==
    [][result' = "yes" /\ result # "yes" /\ ~crowded =>
         \A h \in Host : disk'[h][Cached] # 2 =>
            h # Head /\ Size[2] \in Listed(disk'[h][Cached])]_vars

\* A process that gets the file comes back, with the path or an error, unless it
\* dies or reads half an archive for ever, or another one on its host did with the
\* lock, or processes on its host find the file gone again and again.
EveryGetEnds ==
    \A p \in Process :
        \/ pc[p] \in Getting ~> pc[p] \notin Getting \/ Orphaned(Site[p])
        \/ []<>(\E q \in Process \ {p} : Site[q] = Site[p] /\ pc[q] = "lock")

=============================================================================
