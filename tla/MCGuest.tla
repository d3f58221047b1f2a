-------------------------------- MODULE MCGuest --------------------------------
(***************************************************************************)
(* The two machines of the guest agent for TLC: one resource and one       *)
(* transfer's watcher on a shared connection, and the files that go        *)
(* through it.  They share no state (see GuestFiles for what it assumes of *)
(* the other's commands), so each is explored by itself: `part`, chosen at *)
(* the start, says which.                                                  *)
(***************************************************************************)
EXTENDS GuestAgent, GuestFiles

VARIABLE part

\* The resource asks for its reboot by the file.
MCWants == [r \in Runner |-> "file"]
MCFile == {"f", "g"}

\* The bound on mishaps: a second one is explored only while the first is being
\* dealt with.
MishapsMeet ==
  lost' > 1 /\ lost' > lost => \E t \in Thread : pc[t] \in {"blocked", "stderr", "connect"}

\* The bound on changes: one of the files changes once, when the other is there.
OneChangesOnce == version'["g"] <= (IF version'["f"] = 0 THEN 0 ELSE 1)

allvars == <<part, vars, filesVars>>

InAgent(A) == part = "agent" /\ A /\ UNCHANGED <<part, filesVars>>
InFiles(A) == part = "files" /\ A /\ OneChangesOnce /\ UNCHANGED <<part, vars>>

MCInit == part \in {"agent", "files"} /\ Init /\ FilesInit
MCNext == InAgent(Next /\ MishapsMeet) \/ InFiles(FilesNext)

\* The fairness is that of the two specifications.
MCSpec ==
  /\ MCInit /\ [][MCNext]_allvars
  /\ \A t \in Thread : WF_allvars(InAgent(Run(t)))
  /\ WF_allvars(InAgent(\E p \in procs : Exit(p))) /\ WF_allvars(InAgent(Handler))
  /\ WF_allvars(InFiles(Load)) /\ WF_allvars(InFiles(Transfer))

\* Every resource is dealt with: see GuestAgent.
EveryResourceIsDealtWith == part = "agent" => EveryResourceEnds

\* Every version that lasts is copied: see GuestFiles.
ChangesAreCopied == part = "files" => EveryChangeIsCopied
=============================================================================
