------------------------------- MODULE RemoteShell -------------------------------
(***************************************************************************)
(* "firewheel ssh", "scp" and "pssh" (cli/ssh_manager.py).  Each call      *)
(* first connects to minimega (lib/minimega/api.py).  ssh and scp then     *)
(* look the VM up and test its address until it answers; pssh rewrites     *)
(* the names in the caller's host file to addresses, in a temporary file   *)
(* beside it that all the calls on that host file share.                   *)
(***************************************************************************)
EXTENDS Naturals

CONSTANTS
  VM,
  WithinName,       \* pairs <<u, v>>: the name of u occurs in the name of v
  SSH,              \* calls of ssh or scp
  PSSH,             \* calls of pssh, all on one host file
  Target,           \* call of SSH -> the VM it names
  Lines,            \* the VMs the host file names
  num_tries,        \* of the connection to minimega
  max_call_attempts

\* A call runs one command, and the lines of the host file are VMs' names.
ASSUME ShellAssumption == Lines \subseteq VM /\ SSH \cap PSSH = {}

VARIABLES
  vms,              \* VM -> "address", "no address" or "none": what minimega
                    \* reports of its control_ip (it stays as it is)
  call_at,          \* call -> what it is doing
  tries,            \* call -> tries (of the connection, then of the VM) so far
  rest,             \* pssh call -> VMs whose names are still to be replaced
  text,             \* pssh call -> line -> "name", "address" or "mixed"
  tmp,              \* the temporary file: lines, or Gone
  given,            \* pssh call -> the lines parallel-ssh read, or Gone
  shared            \* history: two pssh calls used the file at once

shellVars == <<vms, call_at, tries, rest, text, tmp, given, shared>>

Gone == [v \in {} |-> "name"]
Original == [v \in Lines |-> "name"]
Calls == SSH \cup PSSH

ShellInit ==
  /\ vms \in [VM -> {"address", "no address", "none"}]
  /\ call_at = [c \in Calls |-> "connecting"]
  /\ tries = [c \in Calls |-> 1]
  /\ rest = [c \in PSSH |-> {}]
  /\ text = [c \in PSSH |-> Gone]
  /\ tmp = Gone
  /\ given = [c \in PSSH |-> Gone]
  /\ shared = FALSE

CallGoto(c, step) == call_at' = [call_at EXCEPT ![c] = step]

PSSHUnchanged == UNCHANGED <<rest, text, tmp, given, shared>>

-----------------------------------------------------------------------------
(* minimegaAPI: _check_version in a process of its own, with a time limit  *)

TriesLeft(c) == tries[c] < num_tries

\* The process answers, whatever the version; or it is killed after the
\* time limit and the call sleeps and tries again, the last failure is raised;
\* or the process dies unheard, and the call waits for its answer for ever.
CheckVersion(c) ==
  /\ call_at[c] = "connecting"
  /\ \/ /\ CallGoto(c, "connected")
        /\ tries' = [tries EXCEPT ![c] = 1]
     \/ /\ TriesLeft(c)
        /\ tries' = [tries EXCEPT ![c] = @ + 1]
        /\ CallGoto(c, "delay")
     \/ /\ ~TriesLeft(c)
        /\ CallGoto(c, "failed")
        /\ UNCHANGED tries
     \/ /\ CallGoto(c, "waits for a dead process")
        /\ UNCHANGED tries
  /\ UNCHANGED vms
  /\ PSSHUnchanged

\* The sleep between two tries of the connection, or two tests of the VM.
Wake(c) ==
  /\ call_at[c] \in {"delay", "interval"}
  /\ CallGoto(c, IF call_at[c] = "delay" THEN "connecting" ELSE "testing")
  /\ UNCHANGED <<vms, tries>>
  /\ PSSHUnchanged

-----------------------------------------------------------------------------
(* ssh and scp *)

ResolveAddress(c) ==
  /\ c \in SSH /\ call_at[c] = "connected"
  /\ CallGoto(c, IF vms[Target[c]] \in {"none", "no address"}
                 THEN "failed" ELSE "testing")
  /\ UNCHANGED <<vms, tries>>
  /\ PSSHUnchanged

\* Mutant: a failed test is not counted.
SameAttempt(c) == tries[c]

NextAttempt(c) == tries[c] + 1

\* A ping through the head node; the VM may be booting.  The call gives up
\* after the failure that follows max_call_attempts failures: it tests once
\* more than its name says.
TestConnection(c) ==
  /\ call_at[c] = "testing"
  /\ \/ /\ CallGoto(c, "calling")
        /\ UNCHANGED tries
     \/ /\ tries[c] <= max_call_attempts
        /\ tries' = [tries EXCEPT ![c] = NextAttempt(c)]
        /\ CallGoto(c, "interval")
     \/ /\ tries[c] > max_call_attempts
        /\ CallGoto(c, "failed")
        /\ UNCHANGED tries
  /\ UNCHANGED vms
  /\ PSSHUnchanged

\* ssh runs until it exits, with 0 or not, or the user stops it.
CallSSH(c) ==
  /\ c \in SSH /\ call_at[c] = "calling"
  /\ \E end \in {"done", "failed"} : CallGoto(c, end)
  /\ UNCHANGED <<vms, tries>>
  /\ PSSHUnchanged

-----------------------------------------------------------------------------
(* pssh *)

UsesFile == {"written", "called"}

\* The VMs minimega reports, and the host file, are read.
ReadHostFile(c) ==
  /\ c \in PSSH /\ call_at[c] = "connected"
  /\ text' = [text EXCEPT ![c] = Original]
  /\ rest' = [rest EXCEPT ![c] = {v \in VM : vms[v] # "none"}]
  /\ CallGoto(c, "translating")
  /\ UNCHANGED <<vms, tries, tmp, given, shared>>

\* Mutant: the first VM that is reported is translated, the others are not.
FirstOnly(c, v) == {}

StillToReplace(c, v) == rest[c] \ {v}

\* One VM's name is replaced wherever it occurs, in longer names, too; a VM
\* with no address leaves nothing in its place.
Replace(c, v) ==
  /\ call_at[c] = "translating" /\ v \in rest[c]
  /\ rest' = [rest EXCEPT ![c] = StillToReplace(c, v)]
  /\ text' = [text EXCEPT ![c] =
       [w \in Lines |->
          CASE @[w] # "name" -> @[w]
            [] w = v -> IF vms[v] = "no address" THEN "mixed" ELSE "address"
            [] <<v, w>> \in WithinName -> "mixed"
            [] OTHER -> @[w]]]
  /\ UNCHANGED <<vms, call_at, tries, tmp, given, shared>>

WriteHosts(c) ==
  /\ c \in PSSH /\ call_at[c] = "translating" /\ rest[c] = {}
  /\ tmp' = text[c]
  /\ CallGoto(c, "written")
  /\ shared' = (shared \/ \E d \in PSSH \ {c} : call_at[d] \in UsesFile)
  /\ UNCHANGED <<vms, tries, rest, text, given>>

\* parallel-ssh reads the file; a failure ends the process and leaves the file.
CallPSSH(c) ==
  /\ c \in PSSH /\ call_at[c] = "written"
  /\ given' = [given EXCEPT ![c] = tmp]
  /\ \/ tmp # Gone /\ CallGoto(c, "called")
     \/ CallGoto(c, "failed")
  /\ UNCHANGED <<vms, tries, rest, text, tmp, shared>>

\* unlink raises when another call has removed the file.
RemoveHosts(c) ==
  /\ c \in PSSH /\ call_at[c] = "called"
  /\ CallGoto(c, IF tmp = Gone THEN "failed" ELSE "done")
  /\ tmp' = Gone
  /\ UNCHANGED <<vms, tries, rest, text, given, shared>>

-----------------------------------------------------------------------------

CallStep(c) ==
  \/ CheckVersion(c) \/ Wake(c) \/ ResolveAddress(c) \/ TestConnection(c) \/ CallSSH(c)
  \/ ReadHostFile(c) \/ (\E v \in VM : Replace(c, v)) \/ WriteHosts(c)
  \/ CallPSSH(c) \/ RemoveHosts(c)

ShellNext == \E c \in Calls : CallStep(c)

ShellSpec == ShellInit /\ [][ShellNext]_shellVars

-----------------------------------------------------------------------------
(* Correctness *)

Plain(v) == \A u \in VM : <<u, v>> \notin WithinName

\* parallel-ssh is given an address for every VM the host file names, unless
\* another pssh works with the same host file, the VM has no address or is
\* not reported, or another VM's name is a part of its name.
EveryHostHasItsAddress ==
  ~shared =>
    \A c \in PSSH : call_at[c] \in {"called", "done"} =>
      \A v \in Lines :
        vms[v] = "address" /\ Plain(v) =>
          v \in DOMAIN given[c] /\ given[c][v] = "address"

\* Every call of ssh, scp or pssh ends, however long the VM takes to boot and
\* minimega to answer, unless the process that asks for the version dies.
EveryCallEnds ==
  <>(\A c \in Calls : call_at[c] \in {"done", "failed", "waits for a dead process"})
=============================================================================
