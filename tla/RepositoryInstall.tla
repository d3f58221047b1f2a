--------------------------- MODULE RepositoryInstall ---------------------------
(***************************************************************************)
(* The repositories of model components: "firewheel repository install"    *)
(* and "uninstall" (cli/helpers/repository), the file repositories.json    *)
(* (control/repository_db.py), which is read, emptied and written with no  *)
(* lock, and the INSTALL scripts of the components                         *)
(* (control/model_component_install.py).  Several of the commands may be   *)
(* under way, and each may be stopped anywhere.                            *)
(***************************************************************************)
EXTENDS Naturals

CONSTANTS
  Repository,
  Component,        \* the model components that have an INSTALL script
  In,               \* component -> its repository
  Flags,            \* components whose script leaves the flag itself (every
                    \* Ansible playbook does)
  Command,          \* the processes
  MaxCommands       \* bound: commands that are started

\* What a file that does not parse holds is no repository.
ASSUME RepositoryAssumption == Repository # {} /\ "unreadable" \notin Repository

VARIABLES
  db,               \* repositories.json: the repositories, or Unreadable
  exists,           \* the repositories whose directory exists
  flags,            \* the components that have their .<name>.installed
  command_at,       \* process -> what it is doing
  repository,       \* process -> the repository it was given
  insecure,         \* process -> whether scripts run unasked
  adds,             \* process -> whether the repository is added in the end
  todo,             \* process -> the components still to install
  running,          \* process -> the component whose script it started last
  failed,           \* process -> the components that failed
  entries,          \* process -> what it read of the file
  commands,
  wanted,           \* history: the repositories that ended commands left
  disturbed,        \* history: two commands used the file at once, or one was
                    \* stopped between emptying and writing it
  succeeded,        \* history: components whose script has done its work
  unasked,          \* history: ... in a command that did not ask
  cut               \* history: ... in one that was stopped, or whose script
                    \* failed, before it left the flag

installVars == <<db, exists, flags, command_at, repository, insecure, adds, todo,
                 running, failed, entries, commands, wanted, disturbed, succeeded,
                 unasked, cut>>

Unreadable == {"unreadable"}
OnFile == {"reading", "adding", "deleting", "writing"}

InstallInit ==
  /\ db = {}
  /\ exists \in SUBSET Repository
  /\ flags \in SUBSET Flags
  /\ command_at = [c \in Command |-> "idle"]
  /\ repository \in [Command -> {CHOOSE r \in Repository : TRUE}]
  /\ insecure = [c \in Command |-> FALSE]
  /\ adds = [c \in Command |-> FALSE]
  /\ todo = [c \in Command |-> {}]
  /\ running = [c \in Command |-> {}]
  /\ failed = [c \in Command |-> {}]
  /\ entries = [c \in Command |-> {}]
  /\ commands = 0
  /\ wanted = {} /\ disturbed = FALSE
  /\ succeeded = flags /\ unasked = {} /\ cut = {}

CommandGoto(c, step) == command_at' = [command_at EXCEPT ![c] = step]

Start(c, step) ==
  /\ command_at[c] = "idle" /\ commands < MaxCommands
  /\ commands' = commands + 1
  /\ CommandGoto(c, step)
  /\ failed' = [failed EXCEPT ![c] = {}]
  /\ entries' = [entries EXCEPT ![c] = {}]
  /\ UNCHANGED <<db, exists, flags, running, wanted, disturbed, succeeded, unasked, cut>>

-----------------------------------------------------------------------------
(* The commands *)

\* A repository that is not there has no components; without -s there is
\* nothing to run.
ComponentsOf(r) == {m \in Component : In[m] = r /\ r \in exists}

InstallRepository(c, r, script, yes) ==
  /\ Start(c, "asking")
  /\ repository' = [repository EXCEPT ![c] = r]
  /\ insecure' = [insecure EXCEPT ![c] = yes]
  /\ adds' = [adds EXCEPT ![c] = TRUE]
  /\ todo' = [todo EXCEPT ![c] = IF script THEN ComponentsOf(r) ELSE {}]

\* Without a path the scripts of the installed repositories are run; the file
\* is not changed.
InstallScripts(c, yes) ==
  /\ Start(c, "asking")
  /\ insecure' = [insecure EXCEPT ![c] = yes]
  /\ adds' = [adds EXCEPT ![c] = FALSE]
  /\ todo' = [todo EXCEPT ![c] = UNION {ComponentsOf(r) : r \in db \cap Repository}]
  /\ UNCHANGED repository

UninstallRepository(c, r) ==
  /\ Start(c, "reading")
  /\ repository' = [repository EXCEPT ![c] = r]
  /\ adds' = [adds EXCEPT ![c] = FALSE]
  /\ UNCHANGED <<insecure, todo>>

-----------------------------------------------------------------------------
(* run_install_script, install_mc, run_ansible_playbook *)

ScriptUnchanged ==
  UNCHANGED <<db, exists, repository, insecure, adds, entries, commands, wanted,
              disturbed>>

\* The component has its flag, or the user answers "n".
SkipScript(c, m) ==
  /\ command_at[c] = "asking" /\ m \in todo[c]
  /\ m \in flags \/ ~insecure[c]
  /\ todo' = [todo EXCEPT ![c] = @ \ {m}]
  /\ UNCHANGED <<command_at, flags, running, failed, succeeded, unasked, cut>>
  /\ ScriptUnchanged

\* The user answers "y", or is not asked.
RunScript(c, m) ==
  /\ command_at[c] = "asking" /\ m \in todo[c] \ flags
  /\ CommandGoto(c, "running")
  /\ running' = [running EXCEPT ![c] = {m}]
  /\ todo' = [todo EXCEPT ![c] = @ \ {m}]
  /\ UNCHANGED <<flags, failed, succeeded, unasked, cut>> /\ ScriptUnchanged

\* A playbook finds its required files in place, ...
Verify(c) ==
  /\ command_at[c] = "running" /\ running[c] \cap Flags # {}
  /\ CommandGoto(c, "verified")
  /\ succeeded' = succeeded \cup running[c]
  /\ UNCHANGED <<flags, todo, running, failed, unasked, cut>> /\ ScriptUnchanged

\* ... leaves the flag, and then ends.
LeaveFlag(c) ==
  /\ command_at[c] = "verified"
  /\ CommandGoto(c, "flagged")
  /\ flags' = flags \cup running[c]
  /\ UNCHANGED <<todo, running, failed, succeeded, unasked, cut>> /\ ScriptUnchanged

ScriptSucceeds(c) ==
  /\ \/ command_at[c] = "flagged"
     \/ command_at[c] = "running" /\ running[c] \cap Flags = {}
  /\ CommandGoto(c, "ended")
  /\ succeeded' = succeeded \cup running[c]
  /\ unasked' = IF insecure[c] THEN unasked \cup running[c] ELSE unasked
  /\ UNCHANGED <<flags, todo, running, failed, cut>> /\ ScriptUnchanged

\* Mutant: the flag is left whether or not the script succeeded.
FailedGoesOn == "ended"

\* What failed is not given a flag; the next component is asked for.
AfterFailure == "asking"

\* The script fails, or cannot leave the flag.
ScriptFails(c) ==
  /\ command_at[c] \in {"running", "verified"}
  /\ CommandGoto(c, AfterFailure)
  /\ failed' = [failed EXCEPT ![c] = @ \cup running[c]]
  /\ cut' = IF command_at[c] = "verified" THEN cut \cup running[c] ELSE cut
  /\ UNCHANGED <<flags, todo, running, succeeded, unasked>> /\ ScriptUnchanged

\* A script that has left no flag gets it from the program, if the user was
\* asked.
TouchFlag(c) ==
  /\ command_at[c] = "ended"
  /\ CommandGoto(c, "asking")
  /\ flags' = IF insecure[c] THEN flags ELSE flags \cup running[c]
  /\ UNCHANGED <<todo, running, failed, succeeded, unasked, cut>> /\ ScriptUnchanged

\* The repository is added when no script has failed; one that was skipped
\* has not.
ScriptsEnd(c) ==
  /\ command_at[c] = "asking" /\ todo[c] = {}
  /\ CommandGoto(c, IF adds[c] /\ failed[c] = {} THEN "reading" ELSE "idle")
  /\ UNCHANGED <<flags, todo, running, failed, succeeded, unasked, cut>> /\ ScriptUnchanged

-----------------------------------------------------------------------------
(* RepositoryDb *)

FileUnchanged ==
  UNCHANGED <<exists, flags, repository, insecure, adds, todo, running, failed,
              commands, succeeded, unasked, cut>>

\* add_repository looks for the directory first; a file that does not parse
\* counts as one with no entries.
Read(c) ==
  /\ command_at[c] = "reading"
  /\ IF adds[c] /\ repository[c] \notin exists
     THEN CommandGoto(c, "idle") /\ UNCHANGED <<entries, disturbed>>
     ELSE /\ CommandGoto(c, IF adds[c] THEN "adding" ELSE "deleting")
          /\ entries' = [entries EXCEPT ![c] = db \ Unreadable]
          /\ disturbed' = (disturbed \/ \E d \in Command \ {c} :
                                          command_at[d] \in OnFile \ {"reading"})
  /\ UNCHANGED <<db, wanted>> /\ FileUnchanged

\* Mutant: an entry whose directory is gone is not removed from the file.
RemovableHere(r) == r \in exists

\* An entry whose directory is gone is removed as well.
Removable(r) == TRUE

\* What add_repository and delete_repository make of the entries.
Changed(c) ==
  IF command_at[c] = "adding" THEN entries[c] \cup {repository[c]}
  ELSE {r \in entries[c] : ~(r = repository[c] /\ Removable(r))}

\* An entry that is there already, or is not there, leaves the file alone; ...
LeaveFile(c) ==
  /\ command_at[c] \in {"adding", "deleting"}
  /\ Changed(c) = entries[c]
  /\ CommandGoto(c, "idle")
  /\ wanted' = IF command_at[c] = "adding" THEN wanted \cup {repository[c]}
               ELSE wanted \ {repository[c]}
  /\ UNCHANGED <<db, entries, disturbed>> /\ FileUnchanged

\* ... else it is opened for writing, which empties it, ...
EmptyFile(c) ==
  /\ command_at[c] \in {"adding", "deleting"}
  /\ Changed(c) # entries[c]
  /\ CommandGoto(c, "writing")
  /\ entries' = [entries EXCEPT ![c] = Changed(c)]
  /\ db' = Unreadable
  /\ UNCHANGED <<wanted, disturbed>> /\ FileUnchanged

\* ... and written.
WriteFile(c) ==
  /\ command_at[c] = "writing"
  /\ CommandGoto(c, "idle")
  /\ db' = entries[c]
  /\ wanted' = IF adds[c] THEN wanted \cup {repository[c]} ELSE wanted \ {repository[c]}
  /\ UNCHANGED <<entries, disturbed>> /\ FileUnchanged

\* "q", an error that is not caught (INSTALL has no tasks.yml), or the user,
\* ends the command, and the script with it.
Stop(c) ==
  /\ command_at[c] # "idle"
  /\ CommandGoto(c, "idle")
  /\ cut' = IF command_at[c] \in {"verified", "ended"} THEN cut \cup running[c] ELSE cut
  /\ todo' = [todo EXCEPT ![c] = {}]
  /\ disturbed' = (disturbed \/ command_at[c] = "writing")
  /\ UNCHANGED <<db, exists, flags, repository, insecure, adds, running, failed,
                 entries, commands, wanted, succeeded, unasked>>

\* The user moves a repository's directory away.
RemoveDirectory(r) ==
  /\ r \in exists /\ exists' = exists \ {r}
  /\ UNCHANGED <<db, flags, command_at, repository, insecure, adds, todo, running,
                 failed, entries, commands, wanted, disturbed, succeeded, unasked,
                 cut>>

-----------------------------------------------------------------------------

InstallNext ==
  \/ \E r \in Repository : RemoveDirectory(r)
  \/ \E c \in Command :
       \/ \E r \in Repository, script, yes \in BOOLEAN : InstallRepository(c, r, script, yes)
       \/ \E yes \in BOOLEAN : InstallScripts(c, yes)
       \/ \E r \in Repository : UninstallRepository(c, r)
       \/ \E m \in Component : SkipScript(c, m) \/ RunScript(c, m)
       \/ Verify(c) \/ LeaveFlag(c) \/ ScriptSucceeds(c) \/ ScriptFails(c) \/ TouchFlag(c)
       \/ ScriptsEnd(c)
       \/ Read(c) \/ LeaveFile(c) \/ EmptyFile(c) \/ WriteFile(c) \/ Stop(c)

InstallSpec == InstallInit /\ [][InstallNext]_installVars

-----------------------------------------------------------------------------
(* Correctness *)

\* repositories.json holds the repositories that the commands installed and
\* did not uninstall, whatever became of their directories, unless two
\* commands used it at once or one was stopped while it wrote.
RepositoriesAreThoseInstalled ==
  ~disturbed /\ (\A c \in Command : command_at[c] # "writing") => db = wanted

\* The flag is still to come: of a playbook from itself, of another script,
\* if the user was asked, from the program.
Flagging(c) == command_at[c] = "verified" \/ (command_at[c] = "ended" /\ ~insecure[c])

\* A component has its flag only if its script has done its work, and once the
\* script has done it, so that it is not run again, unless a command is about
\* to leave the flag, was stopped or failed before it could, or ran a script
\* that leaves none without asking.
FlagMeansInstalled ==
  /\ flags \subseteq succeeded
  /\ \A m \in succeeded \ flags :
       m \in cut \/ m \in unasked \ Flags \/ \E c \in Command : Flagging(c) /\ m \in running[c]
=============================================================================
