------------------------------ MODULE MCCommandLine ------------------------------
(***************************************************************************)
(* The four machines of the command line for TLC.  They share no state, so *)
(* each is explored by itself: `part`, chosen at the start, says which.    *)
(***************************************************************************)
EXTENDS HelperExecution, RemoteShell, RepositoryInstall, ResourceUpload

VARIABLE part

-----------------------------------------------------------------------------
(* The instances.  Command lines run helpers of two sections and of one;   *)
(* the name "vm1" is part of the name "vm10"; two repositories have one    *)
(* component each; two archives have one name, and one has two versions.   *)

MCSections == [s \in {"s", "t"} |-> IF s = "s" THEN 2 ELSE 1]
MCWithinName == {<<"vm1", "vm10">>}
MCTarget == [s \in {"s"} |-> "vm1"]
MCIn == [m \in {"m", "n"} |-> IF m = "m" THEN "r" ELSE "q"]
MCNameOf == [f \in {"i", "j"} |-> "image.xz"]
MCVersions == [f \in {"i", "j"} |-> IF f = "i" THEN {1, 2} ELSE {3}]
MCContentOf == <<"x", "y", "z">>

-----------------------------------------------------------------------------

\* Only the part that is explored starts in more than one state.
Only(p, same) == part = p \/ same

MCInit ==
  /\ part \in {"helpers", "shells", "installs", "uploads"}
  /\ HelperInit /\ ShellInit /\ InstallInit /\ UploadInit
  /\ Only("helpers", cache = {})
  /\ Only("shells", vms = [v \in DOMAIN vms |-> "none"])
  /\ Only("installs", exists = {} /\ flags = {})
  /\ Only("uploads", disk["i"] = 1)

Helpers ==
  /\ part = "helpers" /\ HelperNext
  /\ UNCHANGED <<part, shellVars, installVars, uploadVars>>

InShells(A) ==
  /\ part = "shells" /\ A
  /\ UNCHANGED <<part, helperVars, installVars, uploadVars>>

Installs ==
  /\ part = "installs" /\ InstallNext
  /\ UNCHANGED <<part, helperVars, shellVars, uploadVars>>

Uploads ==
  /\ part = "uploads" /\ UploadNext
  /\ UNCHANGED <<part, helperVars, shellVars, installVars>>

MCNext == Helpers \/ InShells(ShellNext) \/ Installs \/ Uploads

allvars == <<part, helperVars, shellVars, installVars, uploadVars>>

\* A call of ssh, scp or pssh goes on until it ends.
MCSpec ==
  /\ MCInit /\ [][MCNext]_allvars
  /\ \A c \in Calls : WF_allvars(InShells(CallStep(c)))

\* Every call of ssh, scp or pssh ends: see RemoteShell.
CallsEnd == part = "shells" => EveryCallEnds
=============================================================================
