---------------------------- MODULE FileStoreProofs ----------------------------
(***************************************************************************)
(* Who is handed half an image, and which hosts an add that reports success *)
(* has reached, for any number of hosts, of processes that get the file and *)
(* of faults, wherever the processes run.                                   *)
(***************************************************************************)
EXTENDS FileStore, TLAPS

Version == {None, Part, 1, 2}
Place == Getting \cup
  {"idle", "dead", "starved", "rm", "rm_mesh", "copy", "copying", "send", "rm_img", "rm_img_mesh",
   "broadcast", "check"}

TypeInv ==
  /\ packed \in BOOLEAN
  /\ disk \in [Host -> [Name -> Version]]
  /\ locked \subseteq Host /\ raced \subseteq Host
  /\ flight \subseteq [host : Host, name : Name, version : Version]
  /\ pc \in [Process -> Place]
  /\ held \in [Process -> BOOLEAN]
  /\ src \in [Process -> Version] /\ served \in [Process -> Version]
  /\ writers \in [Host -> SUBSET Process]

Ended == {"dead", "starved"}

\* A lock has one holder, who is in the body or never leaves it; where the protocol
\* was kept nobody else is in the body.
LockInv ==
  \A p \in Process :
    /\ held[p] => Site[p] \in locked /\ pc[p] \in InBody \cup Ended
    /\ pc[p] \in InBody /\ Site[p] \notin raced => held[p]
    /\ \A q \in Process : held[p] /\ held[q] /\ Site[p] = Site[q] => p = q

\* A process whose open file still has its name is writing it; only archives are
\* unpacked, and they have no backing file.
WriterInv ==
  /\ \A h \in Host : \A p \in writers[h] :
       Site[p] = h /\ (pc[p] = "write" \/ (p = Adder /\ pc[p] = "copying"))
  /\ \A p \in Process : pc[p] \in {"open", "write"} => packed
  /\ \A p \in Process : pc[p] = "backing" => ~packed

\* Where the protocol was kept, half a file is an image that the holder of the
\* lock is writing, or was writing when it died or found half an archive.
Unfinished(p) == held[p] /\ (pc[p] \in Ended \/ (pc[p] = "write" /\ p \in writers[Site[p]]))
HalfInv ==
  \A h \in Host \ raced : disk[h][Cached] = Part =>
    packed /\ \E p \in Process : Site[p] = h /\ Unfinished(p)

StoreInv == TypeInv /\ LockInv /\ WriterInv /\ HalfInv /\ WholeFiles

USE DEF Name, Cached, Version, Process, Ended

LEMMA Sites == Adder \in Process /\ Reader \subseteq Process
               /\ \A p \in Process : Site[p] \in Host
  BY StoreAssumption

LEMMA StoreInitInv == Init => StoreInv
<1>. SUFFICES ASSUME Init PROVE StoreInv
  OBVIOUS
<1>1. TypeInv
  BY StoreAssumption DEF Init, TypeInv, Place
<1>2. LockInv /\ WriterInv
  BY DEF Init, LockInv, WriterInv, InBody
<1>3. \A h \in Host : disk[h][Cached] \in {None, 1}
  BY DEF Init
<1>4. HalfInv /\ WholeFiles
  BY <1>3, StoreAssumption DEF Init, HalfInv, WholeFiles
<1>. QED BY <1>1, <1>2, <1>4 DEF StoreInv


LEMMA GetType ==
  ASSUME TypeInv, NEW hs \in SUBSET Host, NEW n \in Name, FileGet(hs, n)
  PROVE  flight' \subseteq [host : Host, name : Name, version : Version]
<1>1. PICK from \in [Asked(hs, n) -> Host] :
        flight' = flight \cup
          {[host |-> h, name |-> n, version |-> disk[from[h]][n]] : h \in Asked(hs, n)}
  BY DEF FileGet
<1>2. \A h \in Asked(hs, n) : h \in Host /\ disk[from[h]][n] \in Version
  BY DEF Asked, TypeInv
<1>. QED BY <1>1, <1>2 DEF TypeInv

\* Who goes on writing when a file is deleted or replaced.
LEMMA StillNamed ==
  ASSUME NEW h \in Host, NEW n \in Name
  PROVE  /\ Unnamed(h, n) \subseteq writers[h]
         /\ \A p \in writers[h] : pc[p] = "write" /\ n = "sent" => p \in Unnamed(h, n)
         /\ \A p \in writers[h] : pc[p] = "copying" /\ n = "unpacked" => p \in Unnamed(h, n)
  BY DEF Unnamed, WritersOf, Written

-----------------------------------------------------------------------------
(* The adder, and a process that is not in the body.                       *)

Outside == Place \ (InBody \cup Ended)

\* A process outside the body moves on outside the body.
LEMMA MoveKeeps ==
  ASSUME StoreInv, NEW p \in Process, NEW to \in Outside,
         pc[p] \in Outside \ {"copying"}, pc' = [pc EXCEPT ![p] = to],
         flight' \subseteq [host : Host, name : Name, version : Version],
         UNCHANGED <<packed, disk, locked, held, src, writers, served, raced>>
  PROVE  StoreInv'
<1>. USE DEF StoreInv, Outside
<1>1. TypeInv'
  BY DEF TypeInv
<1>2. \A q \in Process : pc'[q] = IF q = p THEN to ELSE pc[q]
  BY DEF TypeInv
<1>3. ~held[p]
  BY DEF LockInv
<1>4. LockInv' /\ WriterInv'
  <2>1. LockInv'
    BY <1>2, <1>3 DEF LockInv, InBody, TypeInv
  <2>2. WriterInv'
    BY <1>2, <1>3 DEF WriterInv, InBody, TypeInv
  <2>. QED BY <2>1, <2>2
<1>5. HalfInv' /\ WholeFiles'
  BY <1>2, <1>3 DEF HalfInv, Unfinished, WholeFiles
<1>. QED BY <1>1, <1>4, <1>5

\* A file is removed while the adder moves on.
LEMMA DeleteKeeps ==
  ASSUME StoreInv, NEW hs \in SUBSET Host, NEW n \in Name, NEW to \in Outside,
         FileDelete(hs, n), pc[Adder] \in Outside \ {"copying"}, pc' = [pc EXCEPT ![Adder] = to],
         UNCHANGED <<packed, locked, held, src, served, raced, flight>>
  PROVE  StoreInv'
<1>. USE DEF StoreInv, Outside
<1>1. /\ disk' = [h \in Host |-> IF h \in hs THEN [disk[h] EXCEPT ![n] = None] ELSE disk[h]]
      /\ writers' = [h \in Host |-> IF h \in hs THEN Unnamed(h, n) ELSE writers[h]]
      /\ \A h \in Host : writers'[h] \subseteq writers[h]
  BY StillNamed DEF FileDelete
<1>2. TypeInv'
  BY <1>1 DEF TypeInv
<1>3. \A q \in Process : pc'[q] = IF q = Adder THEN to ELSE pc[q]
  BY DEF TypeInv
<1>4. ~held[Adder]
  BY DEF LockInv
<1>5. LockInv' /\ WriterInv'
  <2>1. LockInv'
    BY <1>3, <1>4 DEF LockInv, InBody, TypeInv
  <2>2. WriterInv'
    BY <1>1, <1>3, <1>4 DEF WriterInv, InBody, TypeInv
  <2>. QED BY <2>1, <2>2
<1>6. ASSUME NEW h \in Host \ raced', (disk[h][Cached])' = Part
      PROVE  packed' /\ \E p \in Process : Site[p] = h /\ Unfinished(p)'
  <2>1. disk[h][Cached] = Part /\ ~(h \in hs /\ n = Cached)
    BY <1>1, <1>6, StoreAssumption DEF TypeInv
  <2>2. PICK p \in Process : packed /\ Site[p] = h /\ Unfinished(p)
    BY <1>6, <2>1 DEF HalfInv
  <2>3. pc[p] = "write" /\ p \in writers[h] => p \in writers'[h]
    BY <1>1, <2>1, <2>2, StillNamed
  <2>4. p # Adder /\ pc'[p] = pc[p] /\ held'[p] = held[p]
    BY <1>3, <1>4, <2>2 DEF Unfinished
  <2>5. Unfinished(p)'
    BY <2>2, <2>3, <2>4 DEF Unfinished
  <2>. QED BY <2>2, <2>5
<1>7. HalfInv' /\ WholeFiles'
  BY <1>6 DEF HalfInv, WholeFiles
<1>. QED BY <1>2, <1>5, <1>7

\* The file is written on the head, which leaves the protocol if it is not an
\* archive.
LEMMA CopyKeeps ==
  ASSUME StoreInv, NEW v \in Version, NEW to \in Outside,
         disk' = [disk EXCEPT ![Head]["sent"] = v],
         pc[Adder] \in Outside, pc' = [pc EXCEPT ![Adder] = to],
         raced \subseteq raced', raced' \subseteq Host,
         v = Part /\ ~packed => raced' = Host \/ disk[Head]["sent"] = Part,
         \/ to = "copying" /\ writers' = [writers EXCEPT ![Head] = @ \cup {Adder}]
         \/ writers' = [writers EXCEPT ![Head] = @ \ {Adder}],
         src' \in [Process -> Version],
         UNCHANGED <<packed, locked, held, served, flight>>
  PROVE  StoreInv'
<1>. USE DEF StoreInv, Outside
<1>1. TypeInv' /\ Head \in Host /\ Site[Adder] = Head
  BY Sites, StoreAssumption DEF TypeInv
<1>2. \A q \in Process : pc'[q] = IF q = Adder THEN to ELSE pc[q]
  BY DEF TypeInv
<1>3. ~held[Adder]
  BY Sites DEF LockInv, TypeInv
<1>4. \A h \in Host : \A q \in Process :
        /\ q # Adder => (q \in writers'[h] <=> q \in writers[h])
        /\ q = Adder /\ q \in writers'[h] => h = Head /\ to = "copying"
  BY <1>1 DEF TypeInv, WriterInv
<1>5. LockInv' /\ WriterInv'
  <2>1. LockInv'
    BY <1>2, <1>3 DEF LockInv, InBody, TypeInv
  <2>2. WriterInv'
    BY <1>1, <1>2, <1>3, <1>4 DEF WriterInv, InBody, TypeInv
  <2>. QED BY <2>1, <2>2
<1>6. \A h \in Host \ raced' : (disk[h][Cached])' = Part => disk[h][Cached] = Part
  BY <1>1 DEF TypeInv
<1>7. ASSUME NEW q \in Process, Unfinished(q) PROVE Unfinished(q)'
  BY <1>2, <1>3, <1>4, <1>7, Sites DEF Unfinished
<1>8. HalfInv' /\ WholeFiles'
  BY <1>2, <1>6, <1>7, Sites DEF HalfInv, WholeFiles, TypeInv
<1>. QED BY <1>1, <1>5, <1>8

LEMMA FilesTyped == ASSUME TypeInv, NEW h \in Host, NEW n \in Name PROVE disk[h][n] \in Version
  BY DEF TypeInv

LEMMA AddKeeps == ASSUME StoreInv, Add PROVE StoreInv'
<1>. USE Sites DEF Step, restOfAdd, Outside, Place, InBody, Getting
<1>0. Head \in Host /\ {Head} \in SUBSET Host /\ Host \ {Head} \in SUBSET Host
  BY StoreAssumption
<1>1. CASE BeginAdd
  BY <1>1, MoveKeeps DEF BeginAdd, StoreInv, TypeInv
<1>2. CASE RemoveHere
  BY <1>0, <1>2, DeleteKeeps DEF RemoveHere
<1>3. CASE RemoveThere
  BY <1>0, <1>3, DeleteKeeps DEF RemoveThere
<1>4. CASE RemoveImageHere
  BY <1>0, <1>4, DeleteKeeps DEF RemoveImageHere
<1>5. CASE RemoveImageThere
  BY <1>0, <1>5, DeleteKeeps DEF RemoveImageThere, Look
<1>6. CASE SendFile
  BY <1>0, <1>6, MoveKeeps, GetType DEF SendFile, StoreInv
<1>7. CASE Broadcast
  BY <1>0, <1>7, MoveKeeps, GetType DEF Broadcast, StoreInv
<1>8. CASE Check
  BY <1>8, MoveKeeps DEF Check, StoreInv, TypeInv
<1>9. CASE BeginCopy
  <2>1. /\ pc[Adder] \in Outside /\ "copying" \in Outside
        /\ pc' = [pc EXCEPT ![Adder] = "copying"]
    BY <1>9 DEF BeginCopy
  <2>. QED BY <1>0, <1>9, <2>1, CopyKeeps DEF BeginCopy, StoreInv, TypeInv
<1>10. CASE EndCopy
  <2>1. PICK to \in Outside : pc[Adder] \in Outside /\ pc' = [pc EXCEPT ![Adder] = to]
    BY <1>10 DEF EndCopy
  <2>2. PICK v \in {2, disk[Head]["sent"]} : disk' = [disk EXCEPT ![Head]["sent"] = v]
    <3>1. disk = [disk EXCEPT ![Head]["sent"] = disk[Head]["sent"]]
      BY <1>0 DEF StoreInv, TypeInv
    <3>2. disk' = IF Adder \in writers[Head] THEN [disk EXCEPT ![Head]["sent"] = 2] ELSE disk
      BY <1>10 DEF EndCopy
    <3>. QED BY <3>1, <3>2
  <2>3. v \in Version /\ (v = Part => disk[Head]["sent"] = Part)
    <3>1. TypeInv
      BY DEF StoreInv
    <3>2. disk[Head]["sent"] \in Version
      BY <1>0, <3>1, FilesTyped
    <3>3. 2 # Part
      BY StoreAssumption
    <3>. QED BY <3>2, <3>3
  <2>4. PICK all : src' = [p \in Process |-> IF p \in all THEN 2 ELSE src[p]]
    BY ZenonT(30), <1>10 DEF EndCopy
  <2>5. /\ writers' = [writers EXCEPT ![Head] = @ \ {Adder}]
        /\ UNCHANGED <<packed, locked, held, served, flight, raced>>
    BY ZenonT(30), <1>10 DEF EndCopy
  <2>. QED
    BY <2>1, <2>2, <2>3, <2>4, <2>5, CopyKeeps DEF StoreInv, TypeInv
<1>. QED BY <1>1, <1>2, <1>3, <1>4, <1>5, <1>6, <1>7, <1>8, <1>9, <1>10 DEF Add

-----------------------------------------------------------------------------
(* get_path.  A half file keeps its unfinished process unless that process *)
(* leaves the body.                                                        *)

\* A process goes on without touching lock or files.
LEMMA GoOnKeeps ==
  ASSUME StoreInv, NEW p \in Process, NEW to \in Place \ ({"write"} \cup Ended),
         pc[p] \notin {"write", "copying"} \cup Ended, pc' = [pc EXCEPT ![p] = to],
         to \in InBody => pc[p] \in InBody, to = "open" => packed, to = "backing" => ~packed,
         pc[p] \in InBody => to \in InBody,
         flight' \subseteq [host : Host, name : Name, version : Version],
         UNCHANGED <<packed, disk, locked, held, src, writers, raced>>,
         served' \in [Process -> Version],
         \A q \in Process : served'[q] = Part => Site[q] \in raced
  PROVE  StoreInv'
<1>. USE DEF StoreInv
<1>1. TypeInv'
  BY DEF TypeInv
<1>2. \A q \in Process : pc'[q] = IF q = p THEN to ELSE pc[q]
  BY DEF TypeInv
<1>3. LockInv' /\ WriterInv'
  <2>1. LockInv'
    BY <1>2 DEF LockInv, InBody, TypeInv
  <2>2. WriterInv'
    BY <1>2 DEF WriterInv, TypeInv
  <2>. QED BY <2>1, <2>2
<1>4. HalfInv' /\ WholeFiles'
  BY <1>2 DEF HalfInv, Unfinished, WholeFiles
<1>. QED BY <1>1, <1>3, <1>4

\* What a process without the body may find: no holder, no half file.
LEMMA FreeIsWhole ==
  ASSUME StoreInv, NEW h \in Host \ raced, h \notin locked
  PROVE  disk[h][Cached] # Part
  BY DEF StoreInv, HalfInv, LockInv, Unfinished

LEMMA BeginGetKeeps == ASSUME StoreInv, NEW p \in Process, BeginGet(p) PROVE StoreInv'
<1>1. PICK to \in {"wait", "lock"} :
        pc' = [pc EXCEPT ![p] = to] /\ served' = [served EXCEPT ![p] = None]
  BY DEF BeginGet, Look
<1>. QED
  BY ZenonT(40), <1>1, GoOnKeeps, StoreAssumption
  DEF BeginGet, StoreInv, TypeInv, WholeFiles, InBody, Place, Getting

LEMMA WaitedKeeps == ASSUME StoreInv, NEW p \in Process, Waited(p) PROVE StoreInv'
<1>1. /\ served' \in [Process -> Version]
      /\ \A q \in Process : served'[q] = Part => Site[q] \in raced
  BY FreeIsWhole, Sites DEF Waited, StoreInv, TypeInv, WholeFiles
<1>2. PICK to \in {"idle", "broadcast"} : pc' = [pc EXCEPT ![p] = to]
  BY DEF Waited, After
<1>3. to \in Place \ ({"write"} \cup Ended) /\ to \notin InBody /\ to # "open"
  BY DEF Place, Getting, InBody
<1>4. /\ pc[p] = "wait" /\ "wait" \notin InBody
      /\ UNCHANGED <<packed, disk, locked, held, src, writers, raced, flight>>
  BY DEF Waited, InBody
<1>. QED
  BY <1>1, <1>2, <1>3, <1>4, GoOnKeeps DEF StoreInv, TypeInv

LEMMA FetchKeeps == ASSUME StoreInv, NEW p \in Process, Fetch(p) PROVE StoreInv'
<1>1. flight' \subseteq [host : Host, name : Name, version : Version]
  BY GetType, Sites DEF Fetch, StoreInv, TypeInv
<1>2. PICK to \in {"inspect", "poll"} : pc' = [pc EXCEPT ![p] = to]
  BY DEF Fetch
<1>. QED
  BY <1>1, <1>2, GoOnKeeps
  DEF Fetch, StoreInv, TypeInv, WholeFiles, InBody, Place, Getting

LEMMA PolledKeeps == ASSUME StoreInv, NEW p \in Process, Polled(p) PROVE StoreInv'
<1>1. /\ "inspect" \in (Place \ ({"write"} \cup Ended)) \cap InBody /\ "inspect" # "open"
      /\ pc[p] = "poll" /\ "poll" \in InBody
  BY DEF Polled, Place, Getting, InBody
<1>2. /\ pc' = [pc EXCEPT ![p] = "inspect"]
      /\ UNCHANGED <<packed, disk, locked, held, src, writers, raced, flight, served>>
  BY DEF Polled
<1>. QED
  BY <1>1, <1>2, GoOnKeeps DEF StoreInv, TypeInv, WholeFiles

\* file_lock: whoever finds no lock is alone.
LEMMA LockKeeps == ASSUME StoreInv, NEW p \in Process, Lock(p) PROVE StoreInv'
<1>. USE Sites DEF StoreInv, Lock
<1>1. TypeInv'
  BY DEF TypeInv, Place, Getting, InBody
<1>2. \A q \in Process : /\ pc'[q] = (IF q = p THEN "fetch" ELSE pc[q])
                         /\ held'[q] = (IF q = p THEN Site[p] \notin locked ELSE held[q])
  BY DEF TypeInv
<1>3. ~held[p]
  BY DEF LockInv, InBody
<1>4. LockInv' /\ WriterInv'
  <2>1. LockInv'
    BY ZenonT(40), <1>2, <1>3 DEF LockInv, InBody, TypeInv
  <2>2. WriterInv'
    BY <1>2, <1>3 DEF WriterInv, TypeInv
  <2>. QED BY <2>1, <2>2
<1>5. HalfInv' /\ WholeFiles'
  BY <1>2, <1>3 DEF HalfInv, Unfinished, WholeFiles
<1>. QED BY <1>1, <1>4, <1>5

\* A process leaves the body, where the protocol was kept, with no half file.
LEMMA LeaveKeeps ==
  ASSUME StoreInv, NEW p \in Process, NEW to \in Outside, pc[p] \in InBody,
         LeaveBody(p), pc' = [pc EXCEPT ![p] = to],
         disk' \in [Host -> [Name -> Version]], writers' \in [Host -> SUBSET Process],
         src' \in [Process -> Version], served' \in [Process -> Version],
         UNCHANGED <<packed, flight, raced>>,
         \A h \in Host : h # Site[p] => disk'[h] = disk[h] /\ writers'[h] = writers[h],
         writers'[Site[p]] \subseteq writers[Site[p]] \ {p},
         Site[p] \notin raced => (disk[Site[p]][Cached])' # Part,
         \A q \in Process : served'[q] = Part => Site[q] \in raced
  PROVE  StoreInv'
<1>. USE Sites DEF StoreInv, LeaveBody, Outside
<1>1. TypeInv'
  BY DEF TypeInv
<1>2. \A q \in Process : /\ pc'[q] = (IF q = p THEN to ELSE pc[q])
                         /\ held'[q] = (IF q = p THEN FALSE ELSE held[q])
  BY DEF TypeInv
<1>3. LockInv'
  BY <1>2 DEF LockInv, InBody, TypeInv
<1>4. WriterInv'
  <2>1. to \notin {"open", "write", "backing"}
    BY DEF InBody
  <2>2. \A h \in Host : \A q \in writers'[h] : q \in writers[h] /\ q # p
    BY DEF WriterInv, TypeInv
  <2>3. \A h \in Host : \A q \in writers'[h] : q \in Process /\ pc'[q] = pc[q]
    BY <1>2, <2>2 DEF TypeInv
  <2>. QED BY <1>2, <2>1, <2>2, <2>3 DEF WriterInv
<1>5. HalfInv' /\ WholeFiles'
  BY <1>2 DEF HalfInv, Unfinished, WholeFiles
<1>. QED BY <1>1, <1>3, <1>4, <1>5

\* Only its writer has half a file, where the protocol was kept.
LEMMA OthersAreWhole ==
  ASSUME StoreInv, NEW p \in Process, pc[p] \in InBody, Site[p] \notin raced,
         p \notin writers[Site[p]]
  PROVE  disk[Site[p]][Cached] # Part
<1>. SUFFICES ASSUME disk[Site[p]][Cached] = Part PROVE FALSE
  OBVIOUS
<1>1. PICK q \in Process : Site[q] = Site[p] /\ Unfinished(q)
  BY Sites DEF StoreInv, HalfInv
<1>2. held[p] /\ q = p
  BY <1>1 DEF StoreInv, LockInv, Unfinished
<1>. QED BY <1>1, <1>2 DEF Unfinished, InBody

LEMMA NotFoundKeeps == ASSUME StoreInv, NEW p \in Process, NotFound(p) PROVE StoreInv'
<1>1. pc[p] \in {"fetch", "inspect"} /\ p \notin writers[Site[p]]
  BY Sites DEF NotFound, StoreInv, WriterInv
<1>2. Site[p] \notin raced => (disk[Site[p]][Cached])' # Part
  BY <1>1, OthersAreWhole DEF NotFound, InBody
<1>. QED
  BY <1>1, <1>2, LeaveKeeps, Sites
  DEF NotFound, StoreInv, TypeInv, WholeFiles, InBody, Place, Getting, Outside

LEMMA OnlyArchives ==
  ASSUME StoreInv, NEW p \in Process
  PROVE  (pc[p] \in {"open", "write"} => packed) /\ (pc[p] = "backing" => ~packed)
  BY DEF StoreInv, WriterInv

LEMMA ReturnKeeps ==
  ASSUME StoreInv, NEW p \in Process, pc[p] \in {"inspect", "backing"}, ~packed,
         Return(p) \/ (pc' = [pc EXCEPT ![p] = "idle"] /\ LeaveBody(p) /\ served' = served),
         UNCHANGED <<packed, disk, flight, src, writers, raced>>
  PROVE  StoreInv'
<1>1. p \notin writers[Site[p]] /\ pc[p] \in InBody
  BY Sites DEF StoreInv, WriterInv, InBody
<1>2. Site[p] \notin raced => disk[Site[p]][Cached] # Part
  BY <1>1, OthersAreWhole
<1>3. PICK to \in {"idle", "broadcast"} : pc' = [pc EXCEPT ![p] = to]
  BY DEF Return, After
<1>4. LeaveBody(p) /\ (served' = served \/ served' = [served EXCEPT ![p] = disk[Site[p]][Cached]])
  BY DEF Return
<1>5. /\ \A q \in Process : served'[q] = Part => Site[q] \in raced
      /\ served' \in [Process -> Version]
  BY <1>2, <1>4, Sites DEF StoreInv, TypeInv, WholeFiles
<1>6. to \in Outside
  BY DEF Outside, Place, InBody
<1>7. writers[Site[p]] \subseteq writers[Site[p]] \ {p}
  BY <1>1
<1>. QED
  BY <1>1, <1>2, <1>3, <1>4, <1>5, <1>6, <1>7, LeaveKeeps DEF StoreInv, TypeInv

LEMMA InspectKeeps == ASSUME StoreInv, NEW p \in Process, Inspect(p) PROVE StoreInv'
<1>1. /\ pc[p] = "inspect"
      /\ UNCHANGED <<packed, disk, flight, src, writers, raced>>
  BY DEF Inspect
<1>2. CASE ~packed /\ Return(p)
  BY <1>1, <1>2, ReturnKeeps
<1>3. CASE ~(~packed /\ Return(p))
  <2>1. PICK to \in {"open", "backing"} :
          /\ pc' = [pc EXCEPT ![p] = to]
          /\ (to = "open" => packed) /\ (to = "backing" => ~packed)
    BY <1>3 DEF Inspect
  <2>2. UNCHANGED <<served, locked, held>>
    BY <1>3 DEF Inspect
  <2>. QED
    BY <1>1, <2>1, <2>2, GoOnKeeps DEF StoreInv, TypeInv, WholeFiles, InBody, Place, Getting
<1>. QED BY <1>2, <1>3

\* A file that has a backing file is not unpacked.
LEMMA BackingKeeps == ASSUME StoreInv, NEW p \in Process, BackingEnds(p) PROVE StoreInv'
  BY ReturnKeeps, OnlyArchives DEF BackingEnds

\* The image is opened by a process that has the lock, where the protocol was kept.
LEMMA OpenKeeps == ASSUME StoreInv, NEW p \in Process, Open(p) PROVE StoreInv'
<1>. USE Sites DEF StoreInv, Open
<1>1. TypeInv'
  BY DEF TypeInv, Place, Getting, InBody
<1>2. \A q \in Process : pc'[q] = IF q = p THEN "write" ELSE pc[q]
  BY DEF TypeInv
<1>3. LockInv'
  BY <1>2 DEF LockInv, InBody
<1>4. WriterInv' /\ p \in writers'[Site[p]] /\ \A h \in Host : writers[h] \subseteq writers'[h]
  BY <1>2 DEF WriterInv, TypeInv
<1>5. HalfInv'
  <2>. SUFFICES ASSUME NEW h \in Host \ raced', (disk[h][Cached])' = Part
       PROVE  packed' /\ \E q \in Process : Site[q] = h /\ Unfinished(q)'
    BY DEF HalfInv
  <2>1. CASE h # Site[p] \/ ~packed
    BY <1>2, <1>4, <2>1 DEF HalfInv, Unfinished, TypeInv
  <2>2. CASE h = Site[p] /\ packed
    BY <1>2, <1>4, <2>2 DEF Unfinished, LockInv, InBody
  <2>. QED BY <2>1, <2>2
<1>. QED BY <1>1, <1>3, <1>4, <1>5 DEF WholeFiles

LEMMA UnpackedKeeps == ASSUME StoreInv, NEW p \in Process, Unpacked(p) PROVE StoreInv'
<1>. DEFINE h == Site[p]
            now == IF WritersOf(h, "unpacked") = {p} THEN src[p] ELSE disk[h]["unpacked"]
<1>1. /\ pc[p] = "write" /\ src[p] # Part
      /\ disk' = [disk EXCEPT ![h]["unpacked"] = now]
      /\ writers' = [writers EXCEPT ![h] = @ \ {p}]
      /\ served' = [served EXCEPT ![p] = now]
      /\ now \in Version
  BY Sites DEF Unpacked, StoreInv, TypeInv
<1>2. ASSUME h \notin raced PROVE now # Part /\ (disk[h][Cached])' # Part
  <2>1. packed
    BY <1>1, OnlyArchives
  <2>2. p \in writers[h] => WritersOf(h, "unpacked") = {p}
    <3>1. ASSUME NEW q \in WritersOf(h, "unpacked") PROVE q = p
      <4>1. q \in Process /\ Site[q] = h /\ pc[q] = "write"
        BY Sites DEF WritersOf, Written, StoreInv, WriterInv, TypeInv
      <4>. QED BY <1>1, <1>2, <4>1 DEF StoreInv, LockInv, InBody
    <3>2. p \in writers[h] => p \in WritersOf(h, "unpacked")
      BY <1>1 DEF WritersOf, Written
    <3>. QED BY <3>1, <3>2
  <2>3. now # Part
    BY <1>1, <1>2, <2>1, <2>2, OthersAreWhole DEF InBody
  <2>. QED BY <1>1, <2>1, <2>3, Sites DEF Unpacked, StoreInv, TypeInv
<1>3. PICK to \in {"idle", "broadcast"} : pc' = [pc EXCEPT ![p] = to]
  BY DEF Unpacked, After
<1>4. \A q \in Process : served'[q] = Part => Site[q] \in raced
  BY <1>1, <1>2 DEF StoreInv, TypeInv, WholeFiles
<1>5. to \in Outside /\ pc[p] \in InBody
  BY <1>1 DEF Outside, Place, InBody
<1>6. /\ LeaveBody(p)
      /\ src' = [src EXCEPT ![p] = None]
      /\ UNCHANGED <<packed, flight, raced>>
  BY DEF Unpacked
<1>. HIDE DEF now
<1>7. /\ disk' \in [Host -> [Name -> Version]] /\ writers' \in [Host -> SUBSET Process]
      /\ src' \in [Process -> Version] /\ served' \in [Process -> Version]
      /\ \A g \in Host : g # h => disk'[g] = disk[g] /\ writers'[g] = writers[g]
      /\ writers'[h] = writers[h] \ {p}
  BY <1>1, <1>6, Sites DEF StoreInv, TypeInv
<1>. QED
  BY <1>2, <1>3, <1>4, <1>5, <1>6, <1>7, LeaveKeeps DEF StoreInv

\* Both files are removed.
LEMMA DecompressErrorKeeps ==
  ASSUME StoreInv, NEW p \in Process, DecompressError(p) PROVE StoreInv'
<1>1. /\ pc[p] \in InBody /\ "idle" \in Outside /\ pc' = [pc EXCEPT ![p] = "idle"]
      /\ LeaveBody(p) /\ UNCHANGED <<packed, flight, served, raced>>
  BY DEF DecompressError, InBody, Outside, Place, Getting
<1>2. /\ disk' = [disk EXCEPT ![Site[p]] = [n \in Name |-> None]]
      /\ writers' = [writers EXCEPT ![Site[p]] = {}]
      /\ src' = [src EXCEPT ![p] = None]
  BY DEF DecompressError
<1>3. /\ disk' \in [Host -> [Name -> Version]] /\ writers' \in [Host -> SUBSET Process]
      /\ src' \in [Process -> Version] /\ served' \in [Process -> Version]
      /\ \A h \in Host : h # Site[p] => disk'[h] = disk[h] /\ writers'[h] = writers[h]
      /\ writers'[Site[p]] = {} /\ (disk[Site[p]][Cached])' # Part
  BY <1>1, <1>2, Sites, StoreAssumption DEF StoreInv, TypeInv
<1>. QED
  BY <1>1, <1>3, LeaveKeeps DEF StoreInv, WholeFiles

\* What a process that never leaves the body leaves is unfinished still.
LEMMA LostKeeps ==
  ASSUME StoreInv, NEW p \in Process, NEW to \in Ended, pc[p] \in Getting,
         pc' = [pc EXCEPT ![p] = to], writers' = [writers EXCEPT ![Site[p]] = @ \ {p}],
         UNCHANGED <<packed, disk, locked, flight, held, src, served, raced>>
  PROVE  StoreInv'
<1>. USE Sites DEF StoreInv
<1>1. TypeInv'
  BY DEF TypeInv, Place
<1>2. /\ \A q \in Process : pc'[q] = IF q = p THEN to ELSE pc[q]
      /\ \A h \in Host : writers'[h] = writers[h] \ {p}
  BY DEF TypeInv, WriterInv
<1>3. LockInv' /\ WriterInv'
  <2>1. LockInv'
    BY <1>2 DEF LockInv, InBody
  <2>2. WriterInv'
    BY <1>2 DEF WriterInv
  <2>. QED BY <2>1, <2>2
<1>4. ASSUME NEW q \in Process, Unfinished(q) PROVE Unfinished(q)'
  <2>1. held'[q] = held[q] /\ Site[q] \in Host
    OBVIOUS
  <2>2. CASE q = p
    <3>1. pc'[q] \in Ended /\ held'[q]
      BY <1>2, <1>4, <2>1, <2>2 DEF Unfinished
    <3>. HIDE DEF StoreInv
    <3>. QED BY <3>1 DEF Unfinished
  <2>3. CASE q # p
    <3>1. pc'[q] = pc[q] /\ writers'[Site[q]] = writers[Site[q]] \ {p}
      BY <1>2, <2>1, <2>3
    <3>. QED BY <1>4, <2>1, <2>3, <3>1 DEF Unfinished
  <2>. QED BY <2>2, <2>3
<1>5. HalfInv' /\ WholeFiles'
  BY <1>4 DEF HalfInv, WholeFiles
<1>. QED BY <1>1, <1>3, <1>5

LEMMA DieKeeps ==
  ASSUME StoreInv, NEW p \in Process, Die(p) \/ Starve(p) PROVE StoreInv'
  BY LostKeeps DEF Die, Starve, Getting, InBody

\* The lock that is flushed is the dead process's, and nobody else's.
LEMMA FlushKeeps == ASSUME StoreInv, NEW h \in Host, FlushLocks(h) PROVE StoreInv'
<1>. USE Sites DEF StoreInv, FlushLocks
<1>1. TypeInv' /\ raced \subseteq raced'
  BY DEF TypeInv
<1>2. PICK r \in Process : pc[r] \in Ended /\ held[r] /\ Site[r] = h
  BY DEF Orphaned, Lost
<1>3. \A q \in Process : held[q] /\ Site[q] = h => q = r
  BY <1>2 DEF LockInv
<1>4. \A q \in Process : held'[q] = (held[q] /\ ~(pc[q] \in Ended /\ Site[q] = h))
  BY DEF Lost
<1>5. \A q \in Process : held'[q] = (held[q] /\ Site[q] # h)
  BY <1>2, <1>3, <1>4
<1>6. LockInv'
  BY <1>1, <1>2, <1>3, <1>5 DEF LockInv, InBody
<1>7. WriterInv'
  BY DEF WriterInv, TypeInv
<1>8. \A g \in Host : g # h => disk'[g] = disk[g] /\ writers'[g] = writers[g]
  BY DEF TypeInv
<1>9. h \notin raced' => (disk[h][Cached])' # Part
  BY StoreAssumption DEF TypeInv
<1>10. ASSUME NEW q \in Process, Unfinished(q), Site[q] # h PROVE Unfinished(q)'
  BY <1>5, <1>8, <1>10 DEF Unfinished
<1>11. HalfInv' /\ WholeFiles'
  BY <1>1, <1>8, <1>9, <1>10 DEF HalfInv, WholeFiles
<1>. QED BY <1>1, <1>6, <1>7, <1>11

-----------------------------------------------------------------------------
(* Transfers.                                                              *)

\* Half an image from the mesh is counted in raced.
LEMMA DeliverKeeps == ASSUME StoreInv, NEW t \in flight, Deliver(t) PROVE StoreInv'
<1>. USE DEF StoreInv, Deliver
<1>1. t.host \in Host /\ t.name \in Name /\ t.version \in Version
  BY DEF TypeInv
<1>0. /\ writers' \in [Host -> SUBSET Process]
      /\ \A h \in Host : writers'[h] \subseteq writers[h]
      /\ \A h \in Host : h # t.host => writers'[h] = writers[h]
      /\ writers'[t.host] = Unnamed(t.host, t.name)
  BY <1>1, StillNamed DEF TypeInv
<1>2. TypeInv' /\ raced \subseteq raced'
  BY <1>0, <1>1 DEF TypeInv, getVars
<1>3. LockInv' /\ WriterInv'
  <2>1. LockInv'
    BY <1>1, <1>2 DEF LockInv, getVars, TypeInv
  <2>2. WriterInv'
    BY <1>0, <1>1, <1>2 DEF WriterInv, getVars, TypeInv
  <2>. QED BY <2>1, <2>2
<1>4. ASSUME NEW h \in Host \ raced', (disk[h][Cached])' = Part
      PROVE  packed' /\ \E p \in Process : Site[p] = h /\ Unfinished(p)'
  <2>1. ~(h = t.host /\ t.name = Cached) /\ disk[h][Cached] = Part
    BY <1>1, <1>4 DEF TypeInv
  <2>2. PICK p \in Process : packed /\ Site[p] = h /\ Unfinished(p)
    BY <1>2, <1>4, <2>1 DEF HalfInv
  <2>3. pc[p] = "write" /\ p \in writers[h] => p \in writers'[h]
    BY <1>0, <1>1, <2>1, <2>2, StillNamed
  <2>4. Unfinished(p)'
    BY <2>2, <2>3 DEF Unfinished, getVars
  <2>. QED BY <2>2, <2>4
<1>5. HalfInv' /\ WholeFiles'
  BY <1>2, <1>4 DEF HalfInv, WholeFiles, getVars
<1>. QED BY <1>2, <1>3, <1>5

LEMMA AbandonKeeps == ASSUME StoreInv, NEW t \in flight, Abandon(t) PROVE StoreInv'
<1>. USE DEF StoreInv, Abandon, getVars
<1>1. TypeInv'
  BY DEF TypeInv
<1>2. LockInv' /\ WriterInv' /\ HalfInv' /\ WholeFiles'
  BY DEF LockInv, WriterInv, HalfInv, Unfinished, WholeFiles
<1>. QED BY <1>1, <1>2

-----------------------------------------------------------------------------

LEMMA StoreStepInv == StoreInv /\ [Next]_vars => StoreInv'
<1>. SUFFICES ASSUME StoreInv, [Next]_vars PROVE StoreInv'
  OBVIOUS
<1>1. CASE UNCHANGED vars
  <2>1. TypeInv' /\ LockInv'
    BY <1>1 DEF vars, StoreInv, TypeInv, LockInv
  <2>2. WriterInv' /\ HalfInv' /\ WholeFiles'
    BY <1>1 DEF vars, StoreInv, WriterInv, HalfInv, Unfinished, WholeFiles
  <2>. QED BY <2>1, <2>2 DEF StoreInv
<1>2. CASE Add
  BY <1>2, AddKeeps
<1>3. ASSUME NEW p \in Process, Get(p) PROVE StoreInv'
  BY <1>3, WaitedKeeps, LockKeeps, FetchKeeps, PolledKeeps, NotFoundKeeps, InspectKeeps,
     BackingKeeps, OpenKeeps, UnpackedKeeps, DecompressErrorKeeps, DieKeeps DEF Get
<1>4. ASSUME NEW r \in Reader, BeginGet(r) \/ Die(r) PROVE StoreInv'
  BY <1>4, Sites, BeginGetKeeps, DieKeeps
<1>5. ASSUME NEW h \in Host, FlushLocks(h) PROVE StoreInv'
  BY <1>5, FlushKeeps
<1>6. ASSUME NEW t \in flight, Deliver(t) \/ Abandon(t) PROVE StoreInv'
  BY <1>6, DeliverKeeps, AbandonKeeps
<1>. QED BY <1>1, <1>2, <1>3, <1>4, <1>5, <1>6 DEF Next

\* Nobody is handed a path to half an image (_minimega_get_data, file_lock), but
\* where the lock was passed over, half a file set free, or half an image sent.
THEOREM FilesAreWhole == Spec => []WholeFiles
<1>1. StoreInv => WholeFiles
  BY DEF StoreInv
<1>. QED BY <1>1, StoreInitInv, StoreStepInv, PTL DEF Spec


-----------------------------------------------------------------------------
(* The add.  A broadcast compares every host with the head, so what counts *)
(* is that the head has the new file by then.  As long as no reader goes   *)
(* to get the file anew on the head, nothing is sent to it, and no lock of *)
(* it is flushed.                                                          *)

Unpacking == {"lock", "fetch", "inspect", "open", "write"}
Sending   == {"broadcast", "check"}
Replacing == {"send", "rm_img", "rm_img_mesh"} \cup Unpacking

\* Readers on the head only wait.
QuietHead == \A r \in Reader : Site[r] = Head => pc[r] \in {"idle", "wait", "dead"} /\ ~held[r]

\* Once it is copied the head has the new archive, and unpacks nothing else; once
\* the adder broadcasts the head has the new file.
HeadInv ==
  /\ QuietHead
  /\ \A t \in flight : t.host # Head
  /\ pc[Adder] \notin {"wait", "poll", "backing"} \cup Ended
  /\ pc[Adder] = "copying" => Adder \in writers[Head]
  /\ pc[Adder] \in Replacing => packed /\ disk[Head]["sent"] = 2
  /\ pc[Adder] \in {"rm_img_mesh", "lock", "fetch"} => disk[Head]["unpacked"] = None
  /\ pc[Adder] = "write" => src[Adder] = 2 /\ Adder \in writers[Head]
  /\ pc[Adder] \in Sending => disk[Head][Cached] = 2

LEMMA HeadInitInv == Init => HeadInv
  BY StoreAssumption DEF Init, HeadInv, QuietHead, Unpacking, Sending, Replacing

\* What the adder does not do leaves the head's files, and what it is doing, alone.
LEMMA HeadIsLeftAlone ==
  ASSUME StoreInv, HeadInv, disk'[Head] = disk[Head], pc'[Adder] = pc[Adder],
         src'[Adder] = src[Adder], packed' = packed, \A t \in flight' : t.host # Head,
         Adder \in writers[Head] => Adder \in writers'[Head], QuietHead'
  PROVE  HeadInv'
  BY DEF HeadInv

\* Only a host that asks for a file is sent it.
LEMMA OnlyAskedAreSent ==
  ASSUME HeadInv, NEW hs \in SUBSET (Host \ {Head}), NEW n \in Name, FileGet(hs, n)
  PROVE  \A t \in flight' : t.host # Head
<1>1. PICK from \in [Asked(hs, n) -> Host] :
        flight' = flight \cup
          {[host |-> h, name |-> n, version |-> disk[from[h]][n]] : h \in Asked(hs, n)}
  BY DEF FileGet
<1>2. \A h \in Asked(hs, n) : h # Head
  BY DEF Asked
<1>. QED BY <1>1, <1>2 DEF HeadInv

LEMMA AdderIsAtHead == Adder \in Process /\ Adder \notin Reader /\ Site[Adder] = Head /\ Head \in Host
  BY StoreAssumption

\* The steps of the adder leave the readers where they are.
LEMMA AdderKeepsQuiet ==
  ASSUME StoreInv, HeadInv, Add \/ Get(Adder) PROVE QuietHead'
<1>1. ASSUME NEW r \in Reader PROVE pc'[r] = pc[r] /\ held'[r] = held[r]
  <2>. USE AdderIsAtHead DEF StoreInv, TypeInv
  <2>1. CASE Add
    BY <2>1 DEF Add, Step, restOfAdd, BeginAdd, RemoveHere, RemoveThere, BeginCopy, EndCopy,
       SendFile, RemoveImageHere, RemoveImageThere, Broadcast, Check
  <2>2. CASE Get(Adder)
    BY <2>2 DEF Get, Waited, Lock, Fetch, Polled, NotFound, Inspect, Return, BackingEnds,
       Open, Unpacked, DecompressError, Starve, LeaveBody
  <2>. QED BY <2>1, <2>2
<1>. QED BY <1>1 DEF HeadInv, QuietHead

LEMMA AddKeepsHead == ASSUME StoreInv, HeadInv, Add PROVE HeadInv'
<1>. USE StoreAssumption DEF Step, restOfAdd, StoreInv, Unpacking, Sending, Replacing
<1>1. TypeInv /\ TypeInv' /\ pc[Adder] \in Place /\ QuietHead'
  BY AddKeeps, AdderKeepsQuiet, Sites DEF TypeInv
<1>2. Host \ {Head} \in SUBSET (Host \ {Head})
  OBVIOUS
<1>3. CASE BeginAdd
  BY <1>1, <1>3 DEF BeginAdd, HeadInv, TypeInv
<1>4. CASE RemoveHere
  BY <1>1, <1>4 DEF RemoveHere, FileDelete, HeadInv, TypeInv
<1>5. CASE RemoveThere
  BY <1>1, <1>5 DEF RemoveThere, FileDelete, HeadInv, TypeInv
<1>6. CASE BeginCopy
  BY <1>1, <1>6 DEF BeginCopy, HeadInv, TypeInv
<1>7. CASE EndCopy
  <2>1. /\ pc[Adder] = "copying"
        /\ pc' = [pc EXCEPT ![Adder] = IF packed THEN "send" ELSE "broadcast"]
        /\ disk' = [disk EXCEPT ![Head]["sent"] = 2]
        /\ UNCHANGED <<packed, flight>>
    BY <1>7 DEF EndCopy, HeadInv
  <2>. QED BY <1>1, <2>1 DEF HeadInv, TypeInv
<1>8. CASE SendFile
  <2>1. \A t \in flight' : t.host # Head
    BY <1>2, <1>8, OnlyAskedAreSent DEF SendFile
  <2>. QED BY <1>1, <1>8, <2>1 DEF SendFile, HeadInv, TypeInv
<1>9. CASE RemoveImageHere
  BY <1>1, <1>9 DEF RemoveImageHere, FileDelete, HeadInv, TypeInv
<1>10. CASE RemoveImageThere
  BY <1>1, <1>10 DEF RemoveImageThere, FileDelete, Look, Has, HeadInv, TypeInv
<1>11. CASE Broadcast
  <2>1. \A t \in flight' : t.host # Head
    BY <1>2, <1>11, OnlyAskedAreSent DEF Broadcast
  <2>2. pc'[Adder] \in {"broadcast", "check", "idle"} /\ pc[Adder] = "broadcast"
    BY <1>1, <1>11, Sites DEF Broadcast, TypeInv
  <2>3. UNCHANGED <<disk, packed, writers, src>>
    BY <1>11 DEF Broadcast
  <2>. QED BY <1>1, <2>1, <2>2, <2>3 DEF HeadInv
<1>12. CASE Check
  BY <1>1, <1>12 DEF Check, HeadInv, TypeInv
<1>. QED BY <1>3, <1>4, <1>5, <1>6, <1>7, <1>8, <1>9, <1>10, <1>11, <1>12 DEF Add

\* A reader's steps are on another host, or are its waiting on the head.
LEMMA ReaderKeepsHead ==
  ASSUME StoreInv, HeadInv, NEW r \in Reader, Get(r) \/ BeginGet(r) \/ Die(r), ~crowded'
  PROVE  HeadInv'
<1>. USE AdderIsAtHead DEF StoreInv, TypeInv
<1>1. r \in Process /\ r # Adder
  BY Sites
<1>2. /\ pc'[Adder] = pc[Adder] /\ src'[Adder] = src[Adder] /\ packed' = packed
      /\ \A q \in Process : q # r => pc'[q] = pc[q] /\ held'[q] = held[q]
  BY <1>1 DEF Get, BeginGet, Die, Waited, Lock, Fetch, Polled, NotFound, Inspect, Return,
              BackingEnds, Open, Unpacked, DecompressError, Starve, LeaveBody
<1>3. CASE Site[r] = Head
  <2>1. pc[r] \in {"idle", "wait", "dead"} /\ ~held[r]
    BY <1>3 DEF HeadInv, QuietHead
  <2>2. Waited(r) \/ BeginGet(r) \/ Die(r)
    BY <2>1 DEF Get, Lock, Fetch, Polled, NotFound, Inspect, BackingEnds, Open, Unpacked,
                DecompressError, Starve
  <2>3. /\ UNCHANGED <<disk, flight, held>> /\ (Adder \in writers[Head] => Adder \in writers'[Head])
        /\ pc'[r] \in {"idle", "wait", "dead"}
    <3>1. CASE Waited(r)
      BY <1>1, <3>1 DEF Waited, After
    <3>2. CASE BeginGet(r)
      BY <1>1, <1>3, <3>2 DEF BeginGet, Look
    <3>3. CASE Die(r)
      BY <1>1, <3>3 DEF Die
    <3>. QED BY <2>2, <3>1, <3>2, <3>3
  <2>4. QuietHead'
    BY <1>2, <2>1, <2>3, Sites DEF HeadInv, QuietHead
  <2>. QED BY <1>2, <2>3, <2>4, HeadIsLeftAlone DEF HeadInv
<1>4. CASE Site[r] # Head
  <2>1. Site[r] \in Host \ {Head} /\ {Site[r]} \in SUBSET (Host \ {Head})
    BY <1>1, <1>4, Sites
  <2>2. disk'[Head] = disk[Head] /\ (Adder \in writers[Head] => Adder \in writers'[Head])
    BY <1>1, <2>1 DEF Get, BeginGet, Die, Waited, Lock, Fetch, Polled, NotFound, Inspect,
       BackingEnds, Open, Unpacked, DecompressError, Starve
  <2>3. \A t \in flight' : t.host # Head
    <3>1. CASE Fetch(r)
      BY <2>1, <3>1, OnlyAskedAreSent DEF Fetch, HeadInv
    <3>2. CASE ~Fetch(r)
      BY <3>2 DEF Get, BeginGet, Die, Waited, Lock, Polled, NotFound, Inspect, BackingEnds,
                  Open, Unpacked, DecompressError, Starve, HeadInv
    <3>. QED BY <3>1, <3>2
  <2>4. QuietHead'
    BY <1>2, <1>4, Sites DEF HeadInv, QuietHead
  <2>. QED BY <1>2, <2>2, <2>3, <2>4, HeadIsLeftAlone
<1>. QED BY <1>3, <1>4

\* The adder finds its archive on the head and unpacks it.
LEMMA AdderKeepsHead == ASSUME StoreInv, HeadInv, Get(Adder) PROVE HeadInv'
<1>. USE StoreAssumption DEF StoreInv, Unpacking, Sending, Replacing
<1>1. TypeInv /\ Adder \in Process /\ Site[Adder] = Head /\ Head \in Host /\ QuietHead'
  BY Sites, AdderKeepsQuiet
<1>2. CASE Waited(Adder) \/ Polled(Adder) \/ BackingEnds(Adder)
  BY <1>2 DEF Waited, Polled, BackingEnds, HeadInv
<1>3. CASE Lock(Adder)
  BY <1>1, <1>3 DEF Lock, HeadInv, TypeInv
<1>4. CASE Fetch(Adder)
  BY <1>1, <1>4 DEF Fetch, Has, HeadInv, TypeInv
<1>5. CASE NotFound(Adder)
  BY <1>1, <1>5 DEF NotFound, Has, HeadInv, TypeInv
<1>6. CASE Inspect(Adder)
  BY <1>1, <1>6 DEF Inspect, HeadInv, TypeInv
<1>7. CASE Open(Adder)
  BY <1>1, <1>7 DEF Open, HeadInv, TypeInv
<1>8. CASE Unpacked(Adder)
  <2>1. src[Adder] = 2 /\ packed /\ Adder \in writers[Head] /\ pc[Adder] = "write"
    BY <1>1, <1>8 DEF Unpacked, HeadInv, WriterInv, TypeInv
  <2>2. WritersOf(Head, "unpacked") = {Adder}
    <3>1. ASSUME NEW q \in writers[Head], q # Adder PROVE FALSE
      BY <1>1, <3>1 DEF HeadInv, QuietHead, WriterInv, TypeInv
    <3>. QED BY <2>1, <3>1 DEF WritersOf, Written
  <2>3. disk'[Head]["unpacked"] = 2 /\ pc'[Adder] = "broadcast"
    BY <1>1, <1>8, <2>1, <2>2 DEF Unpacked, After, TypeInv
  <2>. QED BY <1>1, <1>8, <2>1, <2>3 DEF Unpacked, HeadInv, TypeInv
<1>9. CASE DecompressError(Adder)
  BY <1>1, <1>9 DEF DecompressError, HeadInv, TypeInv
<1>10. CASE Starve(Adder)
  BY <1>10 DEF Starve, HeadInv
<1>. QED BY <1>2, <1>3, <1>4, <1>5, <1>6, <1>7, <1>8, <1>9, <1>10 DEF Get

LEMMA HeadStepInv ==
  StoreInv /\ (crowded \/ HeadInv) /\ [Next]_vars => crowded' \/ HeadInv'
<1>1. [Next]_vars => (crowded => crowded')
  BY DEF Next, vars, Add, BeginAdd, RemoveHere, RemoveThere, BeginCopy, EndCopy, SendFile,
         restOfAdd, RemoveImageHere, RemoveImageThere, Broadcast, Check, Get, Waited, Lock,
         Fetch, Polled, NotFound, Inspect, BackingEnds, Open, Unpacked, DecompressError,
         Starve, BeginGet, Die, FlushLocks, Deliver, Abandon
<1>. SUFFICES ASSUME StoreInv, HeadInv, [Next]_vars, ~crowded' PROVE HeadInv'
  BY <1>1
<1>. USE DEF StoreInv, TypeInv
<1>2. CASE UNCHANGED vars
  BY <1>2 DEF vars, HeadInv, QuietHead
<1>3. CASE Add
  BY <1>3, AddKeepsHead
<1>4. ASSUME NEW p \in Process, Get(p) PROVE HeadInv'
  BY <1>4, ReaderKeepsHead, AdderKeepsHead
<1>5. ASSUME NEW r \in Reader, BeginGet(r) \/ Die(r) PROVE HeadInv'
  BY <1>5, ReaderKeepsHead
<1>6. ASSUME NEW h \in Host, FlushLocks(h) PROVE HeadInv'
  <2>1. h # Head
    BY <1>6, AdderIsAtHead DEF FlushLocks, Orphaned, Lost, HeadInv, QuietHead
  <2>2. /\ disk'[Head] = disk[Head] /\ writers'[Head] = writers[Head]
        /\ UNCHANGED <<pc, src, packed, flight>>
        /\ \A p \in Process : held'[p] => held[p]
    BY <1>6, <2>1, AdderIsAtHead DEF FlushLocks
  <2>3. QuietHead'
    BY <2>2 DEF HeadInv, QuietHead
  <2>. QED BY <2>2, <2>3, HeadIsLeftAlone DEF HeadInv
<1>7. ASSUME NEW t \in flight, Deliver(t) \/ Abandon(t) PROVE HeadInv'
  <2>1. t.host \in Host \ {Head}
    BY <1>7 DEF HeadInv
  <2>2. /\ disk'[Head] = disk[Head] /\ writers'[Head] = writers[Head]
        /\ UNCHANGED <<pc, src, packed, held>> /\ flight' \subseteq flight
    BY <1>7, <2>1, AdderIsAtHead DEF Deliver, Abandon, getVars
  <2>. QED BY <2>2, HeadIsLeftAlone DEF HeadInv, QuietHead
<1>. QED BY <1>2, <1>3, <1>4, <1>5, <1>6, <1>7 DEF Next

\* The result of the add changes only where the listings are compared, or where
\* there is nothing to compare.
LEMMA OnlyCheckAnswers ==
  ASSUME [Next]_vars, result' # result
  PROVE  Check \/ (Broadcast /\ Host = {Head} /\ result' = "yes")
  BY DEF Next, vars, Add, BeginAdd, RemoveHere, RemoveThere, BeginCopy, EndCopy, SendFile,
         RemoveImageHere, RemoveImageThere, Broadcast, Get, Waited, Lock, Fetch, Polled,
         NotFound, Inspect, BackingEnds, Open, Unpacked, DecompressError, Starve, BeginGet,
         Die, FlushLocks, Deliver, Abandon

LEMMA AddedStep ==
  ASSUME crowded \/ HeadInv, [Next]_vars, result' = "yes", result # "yes", ~crowded
  PROVE  \A h \in Host : disk'[h][Cached] # 2 =>
            h # Head /\ Size[2] \in Listed(disk'[h][Cached])
<1>1. UNCHANGED <<disk, packed>> /\ disk[Head][Cached] = 2
  BY OnlyCheckAnswers DEF Check, Broadcast, Step, restOfAdd, HeadInv, Sending
<1>2. CASE Check
  <2>1. PICK n \in Listed(disk[Head][Cached]) : \A h \in Host : n \in Listed(disk[h][Cached])
    BY <1>2 DEF Check
  <2>2. Listed(2) = {Size[2]}
    BY StoreAssumption DEF Listed
  <2>3. n = Size[2]
    BY <1>1, <2>1, <2>2
  <2>. QED BY <1>1, <2>1, <2>3
<1>3. CASE Host = {Head}
  BY <1>1, <1>3
<1>. QED BY <1>2, <1>3, OnlyCheckAnswers

\* broadcast_get_file returns True only when the head has the file that was added and
\* every other host that file, or one of its size (half of a larger one, too): whatever
\* transfers of the old file were under way, whoever unpacked it, failed or died, and
\* however often the locks were flushed, unless a reader went to get it on the head.
THEOREM AddReachesEveryHost == Spec => AddedEverywhere
<1>1. (crowded \/ HeadInv) /\ [Next]_vars =>
        (result' = "yes" /\ result # "yes" /\ ~crowded =>
           \A h \in Host : disk'[h][Cached] # 2 =>
              h # Head /\ Size[2] \in Listed(disk'[h][Cached]))
  BY AddedStep
<1>. QED
  BY <1>1, StoreInitInv, StoreStepInv, HeadInitInv, HeadStepInv, PTL
  DEF Spec, AddedEverywhere

================================================================================
