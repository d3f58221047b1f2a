---------------------------- MODULE CommandLineProofs ----------------------------
(***************************************************************************)
(* Theorems about the commands: helpers, ssh, scp and pssh, installation   *)
(* of repositories and upload of resources; for any number of each, and    *)
(* any hosts, VMs, repositories and files.                                 *)
(***************************************************************************)
EXTENDS HelperExecution, RemoteShell, RepositoryInstall, ResourceUpload,
        FiniteSetTheorems, TLAPS

-----------------------------------------------------------------------------
(* Helpers: what the return code says, and on which hosts a section is      *)
(* tried again, with command lines that empty each other's caches.          *)

Codes == ExitCodes \cup {0, Missing, Unreachable}

HelperTypes ==
  /\ helper_at \in [Session -> {"running", "emptying", "filling", "retrying", "ended"}]
  /\ left \in [Session -> SUBSET Host]
  /\ code \in [Session -> [Host -> Codes]]
  /\ retrying \in [Session -> SUBSET Host]
  /\ errors \in [Session -> Nat]
  /\ ran \in [Session -> SUBSET Host]
  /\ sound \in [Session -> BOOLEAN]

\* A host a section is still to start on has not run it, or lacked the cache ...
FreshInv ==
  \A s \in Session :
    /\ helper_at[s] = "running" => ran[s] \cap left[s] = {}
    /\ helper_at[s] \in {"emptying", "filling"} => \A h \in retrying[s] : code[s][h] \in codes_to_sync
    /\ helper_at[s] = "retrying" => /\ left[s] \subseteq retrying[s]
                             /\ \A h \in left[s] : code[s][h] \in codes_to_sync

\* ... and a host it is not tried on again has done it.
DoneInv ==
  \A s \in Session :
    helper_at[s] \in {"emptying", "filling", "retrying"} =>
      \A h \in Host \ retrying[s] : code[s][h] = 0

CountInv == \A s \in Session : ~sound[s] => errors[s] > 0

HelperInv == HelperTypes /\ FreshInv /\ DoneInv /\ CountInv /\ NotStartedAgain

-----------------------------------------------------------------------------

\* The counts of errors are numbers, and 0 only when no host is counted.
LEMMA CountOfFailed ==
  ASSUME NEW s \in Session, NEW hosts \in SUBSET Host, NEW accepted
  PROVE  /\ Cardinality(Failed(s, hosts, accepted)) \in Nat
         /\ Cardinality(Failed(s, hosts, accepted)) = 0
              => \A h \in hosts : code[s][h] \in accepted
<1>1. Failed(s, hosts, accepted) \subseteq Host
  BY DEF Failed
<1>2. IsFiniteSet(Failed(s, hosts, accepted))
  BY <1>1, HelperAssumption, FS_Subset
<1>3. Cardinality(Failed(s, hosts, accepted)) = 0 => Failed(s, hosts, accepted) = {}
  BY <1>2, FS_EmptySet
<1>. QED BY <1>2, <1>3, FS_CardinalityType DEF Failed

LEMMA HelperInitInv == HelperInit => HelperInv
  BY DEF HelperInit, HelperInv, HelperTypes, FreshInv, DoneInv, CountInv, NotStartedAgain, Codes

\* The section on one host.
LEMMA RunOnKeeps ==
  ASSUME HelperInv, NEW s \in Session, NEW h \in Host, RunOn(s, h)
  PROVE  HelperInv'
<1>. USE DEF HelperInv, HelperTypes
<1>1. /\ helper_at[s] \in {"running", "retrying"} /\ h \in left[s]
      /\ left' = [left EXCEPT ![s] = @ \ {h}]
      /\ UNCHANGED <<helper_at, retrying, errors, sound>>
  BY DEF RunOn, Answered
<1>2. PICK c \in Codes : code' = [code EXCEPT ![s][h] = c]
  BY DEF RunOn, Codes
<1>3. ran' = [ran EXCEPT ![s] = @ \cup {h}] \/ ran' = ran
  BY DEF RunOn
<1>4. HelperTypes'
  BY <1>1, <1>2, <1>3
<1>5. h \in ran[s] => code[s][h] \in codes_to_sync
  BY <1>1 DEF FreshInv
<1>6. NotStartedAgain'
  BY <1>5 DEF RunOn, NotStartedAgain
<1>7. FreshInv'
  BY <1>1, <1>2, <1>3 DEF FreshInv
<1>8. DoneInv'
  BY <1>1, <1>2 DEF DoneInv, FreshInv
<1>9. CountInv'
  BY <1>1 DEF CountInv
<1>. QED BY <1>4, <1>6, <1>7, <1>8, <1>9

\* The end of a section, however it ends: a host whose code is not 0 is counted.
LEMMA EndSectionKeeps ==
  ASSUME HelperInv, NEW s \in Session, NEW count \in Nat,
         count = 0 => \A h \in Host : code[s][h] = 0,
         EndSection(s, count)
  PROVE  HelperInv'
<1>. USE DEF HelperInv, HelperTypes
<1>1. \/ helper_at' = [helper_at EXCEPT ![s] = "running"] /\ left' = [left EXCEPT ![s] = Host]
      \/ helper_at' = [helper_at EXCEPT ![s] = "ended"] /\ left' = [left EXCEPT ![s] = {}]
  BY DEF EndSection, HelperGoto
<1>2. /\ errors' = [errors EXCEPT ![s] = @ + count]
      /\ sound' = [sound EXCEPT ![s] = @ /\ \A h \in Host : code[s][h] = 0]
      /\ ran' = [ran EXCEPT ![s] = {}]
      /\ code' = [code EXCEPT ![s] = [h \in Host |-> 0]]
      /\ retrying' = [retrying EXCEPT ![s] = {}]
      /\ twice' = twice
  BY DEF EndSection
<1>3. HelperTypes'
  <2>1. sound' \in [Session -> BOOLEAN]
    <3>. DEFINE all == \A h \in Host : code[s][h] = 0
    <3>1. (sound[s] /\ all) \in BOOLEAN
      OBVIOUS
    <3>2. sound' = [sound EXCEPT ![s] = sound[s] /\ all]
      BY <1>2
    <3>. HIDE DEF all
    <3>. QED BY <3>1, <3>2
  <2>2. /\ code' \in [Session -> [Host -> Codes]]
        /\ errors' \in [Session -> Nat]
    BY <1>2 DEF Codes
  <2>3. /\ helper_at' \in [Session -> {"running", "emptying", "filling", "retrying", "ended"}]
        /\ left' \in [Session -> SUBSET Host]
        /\ retrying' \in [Session -> SUBSET Host] /\ ran' \in [Session -> SUBSET Host]
    BY ZenonT(40), <1>1, <1>2
  <2>. QED BY <2>1, <2>2, <2>3
<1>4. FreshInv' /\ DoneInv'
  BY <1>1, <1>2 DEF FreshInv, DoneInv
<1>5. CountInv'
  <2>1. /\ errors'[s] = errors[s] + count
        /\ sound'[s] = (sound[s] /\ \A h \in Host : code[s][h] = 0)
    BY <1>2
  <2>2. ~sound'[s] => errors'[s] > 0
    <3>1. CASE ~sound[s]
      BY <2>1, <3>1 DEF CountInv
    <3>2. CASE sound[s] /\ count = 0
      BY <2>1, <3>2
    <3>3. CASE count # 0
      BY <2>1, <3>3
    <3>. QED BY <3>1, <3>2, <3>3
  <2>3. \A t \in Session \ {s} : errors'[t] = errors[t] /\ sound'[t] = sound[t]
    BY <1>2
  <2>. QED BY <2>2, <2>3 DEF CountInv
<1>6. NotStartedAgain'
  BY <1>2 DEF NotStartedAgain
<1>. QED BY <1>3, <1>4, <1>5, <1>6

LEMMA NothingToSyncKeeps ==
  ASSUME HelperInv, NEW s \in Session, NothingToSync(s)
  PROVE  HelperInv'
<1>1. /\ fatal_error_count(s) \in Nat
      /\ fatal_error_count(s) = 0 => \A h \in Host : code[s][h] \in {0} \cup codes_to_sync
  BY CountOfFailed DEF fatal_error_count
<1>2. fatal_error_count(s) = 0 => \A h \in Host : code[s][h] \notin codes_to_sync
  BY <1>1 DEF NothingToSync, nodes_to_sync
<1>. QED BY <1>1, <1>2, EndSectionKeeps DEF NothingToSync

LEMMA RetriedKeeps ==
  ASSUME HelperInv, NEW s \in Session, Retried(s)
  PROVE  HelperInv'
<1>1. /\ new_error_count(s) \in Nat
      /\ new_error_count(s) = 0 => \A h \in retrying[s] : code[s][h] \in {0}
  BY CountOfFailed DEF new_error_count, HelperInv, HelperTypes
<1>2. \A h \in Host \ retrying[s] : code[s][h] = 0
  BY DEF Retried, HelperInv, DoneInv
<1>. QED BY <1>1, <1>2, EndSectionKeeps DEF Retried

\* The sync: it is taken up when every host's code is 0 or asks for it.
LEMMA SyncKeeps ==
  ASSUME HelperInv, NEW s \in Session,
         \/ BeginSync(s) \/ Emptying(s) \/ Filled(s)
         \/ \E h \in Host : Empty(s, h) \/ Fill(s, h)
  PROVE  HelperInv'
<1>. USE DEF HelperInv, HelperTypes, HelperGoto
<1>1. ASSUME BeginSync(s) PROVE HelperInv'
  <2>1. \A h \in Host : code[s][h] \in {0} \cup codes_to_sync
    BY <1>1, CountOfFailed DEF BeginSync, fatal_error_count
  <2>2. /\ helper_at' = [helper_at EXCEPT ![s] = "emptying"] /\ left' = [left EXCEPT ![s] = Host]
        /\ retrying' = [retrying EXCEPT ![s] = nodes_to_sync(s)]
        /\ UNCHANGED <<code, errors, ran, twice, sound>>
    BY <1>1 DEF BeginSync, RetryOn
  <2>3. HelperTypes'
    BY <2>2 DEF nodes_to_sync
  <2>4. FreshInv' /\ DoneInv'
    BY <2>1, <2>2 DEF FreshInv, DoneInv, nodes_to_sync
  <2>. QED BY <2>2, <2>3, <2>4 DEF CountInv, NotStartedAgain
<1>2. ASSUME Emptying(s) PROVE HelperInv'
  BY <1>2 DEF Emptying, FreshInv, DoneInv, CountInv, NotStartedAgain
<1>3. ASSUME Filled(s) PROVE HelperInv'
  BY <1>3 DEF Filled, FreshInv, DoneInv, CountInv, NotStartedAgain
<1>4. ASSUME NEW h \in Host, Empty(s, h) \/ Fill(s, h) PROVE HelperInv'
  <2>1. /\ left' = [left EXCEPT ![s] = @ \ {h}] /\ helper_at[s] \in {"emptying", "filling"}
        /\ UNCHANGED <<helper_at, code, retrying, errors, ran, twice, sound>>
    BY <1>4 DEF Empty, Fill, Answered
  <2>. QED BY <2>1 DEF FreshInv, DoneInv, CountInv, NotStartedAgain
<1>. QED BY <1>1, <1>2, <1>3, <1>4

LEMMA HelperKept == HelperInv /\ [HelperNext]_helperVars => HelperInv'
<1>. SUFFICES ASSUME HelperInv, [HelperNext]_helperVars PROVE HelperInv'
  OBVIOUS
<1>1. CASE UNCHANGED helperVars
  BY <1>1 DEF helperVars, HelperInv, HelperTypes, FreshInv, DoneInv, CountInv, NotStartedAgain
<1>2. ASSUME NEW s \in Session, HelperStep(s) PROVE HelperInv'
  BY <1>2, RunOnKeeps, NothingToSyncKeeps, RetriedKeeps, SyncKeeps DEF HelperStep
<1>. QED BY <1>1, <1>2 DEF HelperNext

LEMMA HelperInvariant == HelperSpec => []HelperInv
  BY HelperInitInv, HelperKept, PTL DEF HelperSpec

\* A helper that ends with no errors has ended every section with 0 on every
\* host, whatever the other command lines did to the caches (helper.run).
THEOREM ZeroIsSuccess == HelperSpec => []ZeroMeansAllDone
<1>1. HelperInv => ZeroMeansAllDone
  BY DEF HelperInv, HelperTypes, CountInv, ZeroMeansAllDone
<1>. QED BY <1>1, HelperInvariant, PTL

\* A section starts again only on a host whose code asked for the sync
\* (run_command, nodes_to_sync).
THEOREM SectionStartedOnce == HelperSpec => []NotStartedAgain
<1>1. HelperInv => NotStartedAgain
  BY DEF HelperInv
<1>. QED BY <1>1, HelperInvariant, PTL

-----------------------------------------------------------------------------
(* Repositories *)

(* The flags: what a command that is past its script's work has still to   *)
(* leave, and what it has left.                                             *)

Past == {"verified", "flagged", "ended"}

FlagTypes ==
  DOMAIN command_at = Command /\ DOMAIN running = Command /\ DOMAIN insecure = Command

ScriptInv ==
  \A c \in Command :
    /\ command_at[c] \in Past => running[c] \subseteq succeeded
    /\ command_at[c] = "flagged" => running[c] \subseteq flags
    /\ command_at[c] = "ended" /\ insecure[c] => running[c] \subseteq flags \cup (unasked \ Flags)

FlagsInv == FlagTypes /\ ScriptInv /\ FlagMeansInstalled

LEMMA FlagsInit == InstallInit => FlagsInv
  BY DEF InstallInit, FlagsInv, FlagTypes, ScriptInv, FlagMeansInstalled, Past

OthersStay(c) ==
  \A d \in Command \ {c} : /\ command_at'[d] = command_at[d] /\ running'[d] = running[d]
                           /\ insecure'[d] = insecure[d]

\* A command that is not past a script's work before its step or after it.
LEMMA FlagsElsewhere ==
  ASSUME FlagsInv, NEW c \in Command, FlagTypes', OthersStay(c),
         UNCHANGED <<flags, succeeded, unasked, cut>>,
         command_at[c] \notin Past, command_at'[c] \notin Past
  PROVE  FlagsInv'
<1>1. ScriptInv'
  BY DEF FlagsInv, ScriptInv, OthersStay, Past
<1>2. \A d \in Command : Flagging(d) => d # c
  BY DEF Flagging, Past
<1>3. \A d \in Command \ {c} : Flagging(d) => Flagging(d)' /\ running'[d] = running[d]
  BY DEF Flagging, OthersStay
<1>4. FlagMeansInstalled'
  BY <1>2, <1>3 DEF FlagsInv, FlagMeansInstalled
<1>. QED BY <1>1, <1>4 DEF FlagsInv

\* What the steps of a script change in the state of the commands.
LEMMA ScriptStep ==
  ASSUME FlagsInv, NEW c \in Command, NEW step, CommandGoto(c, step),
         UNCHANGED <<running, insecure>>
  PROVE  FlagTypes' /\ command_at'[c] = step /\ OthersStay(c)
  BY DEF FlagsInv, FlagTypes, CommandGoto, OthersStay

\* The flagging of the others goes on; where the step of c takes a flag out of
\* sight, it has a reason.
LEMMA FlagsAfter ==
  ASSUME FlagsInv, NEW c \in Command, OthersStay(c),
         flags \subseteq flags', cut \subseteq cut', unasked \subseteq unasked',
         flags' \subseteq succeeded',
         running'[c] = running[c], succeeded' \subseteq succeeded \cup running[c],
         succeeded \subseteq succeeded',
         Flagging(c) \/ succeeded' # succeeded =>
           \/ Flagging(c)'
           \/ running[c] \subseteq flags' \cup cut' \cup (unasked' \ Flags)
  PROVE  FlagMeansInstalled'
<1>1. \A d \in Command \ {c} : Flagging(d) => Flagging(d)' /\ running'[d] = running[d]
  BY DEF Flagging, OthersStay
<1>2. ASSUME NEW m \in succeeded' \ flags', m \notin cut', m \notin unasked' \ Flags
      PROVE  \E d \in Command : Flagging(d)' /\ m \in running'[d]
  <2>1. CASE m \in succeeded
    <3>1. PICK d \in Command : Flagging(d) /\ m \in running[d]
      BY <1>2, <2>1 DEF FlagsInv, FlagMeansInstalled
    <3>. QED BY <3>1, <1>1, <1>2
  <2>2. CASE m \notin succeeded
    BY <1>2, <2>2
  <2>. QED BY <2>1, <2>2
<1>3. FlagMeansInstalled' <=>
        /\ flags' \subseteq succeeded'
        /\ \A m \in succeeded' \ flags' :
             \/ m \in cut' \/ m \in unasked' \ Flags
             \/ \E d \in Command : Flagging(d)' /\ m \in running'[d]
  BY DEF FlagMeansInstalled
<1>. QED BY <1>2, <1>3

LEMMA VerifyKeeps ==
  ASSUME FlagsInv, NEW c \in Command, Verify(c)
  PROVE  FlagsInv'
<1>1. FlagTypes' /\ command_at'[c] = "verified" /\ OthersStay(c)
  BY ScriptStep DEF Verify, ScriptUnchanged
<1>2. ScriptInv'
  BY <1>1 DEF Verify, FlagsInv, ScriptInv, OthersStay, Past
<1>3. FlagMeansInstalled'
  BY <1>1, FlagsAfter DEF Verify, FlagsInv, FlagMeansInstalled, Flagging
<1>. QED BY <1>1, <1>2, <1>3 DEF FlagsInv

LEMMA LeaveFlagKeeps ==
  ASSUME FlagsInv, NEW c \in Command, LeaveFlag(c)
  PROVE  FlagsInv'
<1>1. FlagTypes' /\ command_at'[c] = "flagged" /\ OthersStay(c)
  BY ScriptStep DEF LeaveFlag, ScriptUnchanged
<1>2. ScriptInv'
  BY <1>1 DEF LeaveFlag, FlagsInv, ScriptInv, OthersStay, Past
<1>3. FlagMeansInstalled'
  BY <1>1, FlagsAfter DEF LeaveFlag, FlagsInv, ScriptInv, FlagMeansInstalled, Past
<1>. QED BY <1>1, <1>2, <1>3 DEF FlagsInv

LEMMA ScriptSucceedsKeeps ==
  ASSUME FlagsInv, NEW c \in Command, ScriptSucceeds(c)
  PROVE  FlagsInv'
<1>1. FlagTypes' /\ command_at'[c] = "ended" /\ insecure'[c] = insecure[c] /\ OthersStay(c)
  BY ScriptStep DEF ScriptSucceeds, ScriptUnchanged
<1>2. running[c] \subseteq flags \/ running[c] \cap Flags = {}
  BY DEF ScriptSucceeds, FlagsInv, ScriptInv
<1>3. ScriptInv'
  BY <1>1, <1>2 DEF ScriptSucceeds, FlagsInv, ScriptInv, OthersStay, Past
<1>4. FlagMeansInstalled'
  <2>1. Flagging(c)' \/ running[c] \subseteq flags' \cup cut' \cup (unasked' \ Flags)
    BY <1>1, <1>2 DEF ScriptSucceeds, Flagging
  <2>. QED BY <1>1, <2>1, FlagsAfter DEF ScriptSucceeds, FlagsInv, FlagMeansInstalled
<1>. QED BY <1>1, <1>3, <1>4 DEF FlagsInv

LEMMA ScriptFailsKeeps ==
  ASSUME FlagsInv, NEW c \in Command, ScriptFails(c)
  PROVE  FlagsInv'
<1>1. FlagTypes' /\ command_at'[c] = "asking" /\ OthersStay(c)
  BY ScriptStep DEF ScriptFails, AfterFailure, ScriptUnchanged
<1>2. ScriptInv'
  BY <1>1 DEF ScriptFails, FlagsInv, ScriptInv, OthersStay, Past
<1>3. FlagMeansInstalled'
  BY <1>1, FlagsAfter DEF ScriptFails, FlagsInv, FlagMeansInstalled, Flagging
<1>. QED BY <1>1, <1>2, <1>3 DEF FlagsInv

LEMMA TouchFlagKeeps ==
  ASSUME FlagsInv, NEW c \in Command, TouchFlag(c)
  PROVE  FlagsInv'
<1>1. FlagTypes' /\ command_at'[c] = "asking" /\ OthersStay(c)
  BY ScriptStep DEF TouchFlag, ScriptUnchanged
<1>2. ScriptInv'
  BY <1>1 DEF TouchFlag, FlagsInv, ScriptInv, OthersStay, Past
<1>3. FlagMeansInstalled'
  <2>1. Flagging(c) => running[c] \subseteq flags'
    BY DEF TouchFlag, Flagging
  <2>2. flags' \subseteq succeeded
    BY DEF TouchFlag, FlagsInv, ScriptInv, FlagMeansInstalled, Past
  <2>. QED BY <1>1, <2>1, <2>2, FlagsAfter DEF TouchFlag
<1>. QED BY <1>1, <1>2, <1>3 DEF FlagsInv

LEMMA StopKeepsFlags ==
  ASSUME FlagsInv, NEW c \in Command, Stop(c)
  PROVE  FlagsInv'
<1>1. FlagTypes' /\ command_at'[c] = "idle" /\ OthersStay(c)
  BY ScriptStep DEF Stop
<1>2. ScriptInv'
  BY <1>1 DEF Stop, FlagsInv, ScriptInv, OthersStay, Past
<1>3. FlagMeansInstalled'
  BY <1>1, FlagsAfter DEF Stop, FlagsInv, FlagMeansInstalled, Flagging
<1>. QED BY <1>1, <1>2, <1>3 DEF FlagsInv

LEMMA FlagsKept == FlagsInv /\ [InstallNext]_installVars => FlagsInv'
<1>. SUFFICES ASSUME FlagsInv, [InstallNext]_installVars PROVE FlagsInv'
  OBVIOUS
<1>. DEFINE Elsewhere(c) == /\ FlagTypes' /\ OthersStay(c)
                            /\ UNCHANGED <<flags, succeeded, unasked, cut>>
                            /\ command_at[c] \notin Past /\ command_at'[c] \notin Past
<1>1. ASSUME NEW c \in Command PROVE
        /\ \A r \in Repository, script, yes \in BOOLEAN :
             InstallRepository(c, r, script, yes) => Elsewhere(c)
        /\ \A yes \in BOOLEAN : InstallScripts(c, yes) => Elsewhere(c)
        /\ \A r \in Repository : UninstallRepository(c, r) => Elsewhere(c)
  BY DEF InstallRepository, InstallScripts, UninstallRepository, Start, CommandGoto,
         FlagsInv, FlagTypes, OthersStay, Past
<1>2. ASSUME NEW c \in Command, NEW m \in Component PROVE
        SkipScript(c, m) \/ RunScript(c, m) => Elsewhere(c)
  BY DEF SkipScript, RunScript, ScriptUnchanged, CommandGoto, FlagsInv, FlagTypes, OthersStay, Past
<1>3. ASSUME NEW c \in Command PROVE
        ScriptsEnd(c) \/ Read(c) \/ LeaveFile(c) \/ EmptyFile(c) \/ WriteFile(c) => Elsewhere(c)
  <2>1. ScriptsEnd(c) => Elsewhere(c)
    BY DEF ScriptsEnd, ScriptUnchanged, CommandGoto, FlagsInv, FlagTypes, OthersStay, Past
  <2>2. Read(c) => Elsewhere(c)
    BY DEF Read, FileUnchanged, CommandGoto, FlagsInv, FlagTypes, OthersStay, Past
  <2>3. LeaveFile(c) \/ EmptyFile(c) \/ WriteFile(c) => Elsewhere(c)
    BY DEF LeaveFile, EmptyFile, WriteFile, FileUnchanged, CommandGoto, FlagsInv, FlagTypes,
           OthersStay, Past
  <2>. QED BY <2>1, <2>2, <2>3
<1>4. ASSUME NEW c \in Command, Elsewhere(c) PROVE FlagsInv'
  BY <1>4, FlagsElsewhere
<1>. HIDE DEF Elsewhere
<1>5. CASE UNCHANGED installVars \/ \E r \in Repository : RemoveDirectory(r)
  BY <1>5 DEF installVars, RemoveDirectory, FlagsInv, FlagTypes, ScriptInv, FlagMeansInstalled,
              Flagging
<1>. QED BY <1>1, <1>2, <1>3, <1>4, <1>5, VerifyKeeps, LeaveFlagKeeps, ScriptSucceedsKeeps,
            ScriptFailsKeeps, TouchFlagKeeps, StopKeepsFlags DEF InstallNext

\* For any components and commands: a component has its flag only if its script
\* has done its work, and has it once the script has, but for a command that is
\* about to leave it, was stopped or failed before it could, or ran a script
\* that leaves none unasked (run_install_script, run_ansible_playbook).
THEOREM FlagsAreTrue == InstallSpec => []FlagMeansInstalled
<1>1. FlagsInv => FlagMeansInstalled
  BY DEF FlagsInv
<1>. QED BY <1>1, FlagsInit, FlagsKept, PTL DEF InstallSpec

-----------------------------------------------------------------------------
(* The file: while no two commands have been at it together and none was    *)
(* stopped with it empty, at most one command is past reading it, and it    *)
(* has read what the commands before it left.                               *)

Changing == OnFile \ {"reading"}

OnScripts == {"asking", "running", "verified", "flagged", "ended"}

Steps == {"idle"} \cup OnScripts \cup OnFile

InstallTypes ==
  /\ db \in SUBSET (Repository \cup Unreadable)
  /\ command_at \in [Command -> Steps]
  /\ adds \in [Command -> BOOLEAN]
  /\ repository \in [Command -> Repository]
  /\ entries \in [Command -> SUBSET Repository]
  /\ wanted \in SUBSET Repository
  /\ disturbed \in BOOLEAN

WayInv == \A c \in Command : /\ command_at[c] = "adding" => adds[c]
                             /\ command_at[c] = "deleting" => ~adds[c]

\* What a command leaves in the end.
Left(c) == IF adds[c] THEN wanted \cup {repository[c]} ELSE wanted \ {repository[c]}

AloneInv == \A c, d \in Command : command_at[c] \in Changing /\ command_at[d] \in Changing => c = d

EntriesInv == \A c \in Command : /\ command_at[c] \in {"adding", "deleting"} => entries[c] = wanted
                                 /\ command_at[c] = "writing" => entries[c] = Left(c)

FileInv == ~disturbed => AloneInv /\ EntriesInv /\ RepositoriesAreThoseInstalled

RepositoriesInv == InstallTypes /\ WayInv /\ FileInv

LEMMA RepositoriesInit == InstallInit => RepositoriesInv
<1>1. (CHOOSE r \in Repository : TRUE) \in Repository
  BY RepositoryAssumption
<1>2. InstallInit => InstallTypes
  BY <1>1 DEF InstallInit, InstallTypes, Steps, OnScripts
<1>3. InstallInit => WayInv /\ FileInv
  BY DEF InstallInit, WayInv, FileInv, AloneInv, EntriesInv, RepositoriesAreThoseInstalled,
         Changing, OnFile
<1>. QED BY <1>2, <1>3 DEF RepositoriesInv

\* A command that is not at the file before or after its step, and leaves it.
LEMMA AwayFromFile ==
  ASSUME RepositoriesInv, NEW c \in Command, NEW step \in {"idle", "reading"} \cup OnScripts,
         CommandGoto(c, step),
         command_at[c] \in {"idle", "reading"} \cup OnScripts,
         UNCHANGED <<db, wanted, disturbed>>,
         InstallTypes',
         \A d \in Command \ {c} : /\ entries'[d] = entries[d] /\ adds'[d] = adds[d]
                                  /\ repository'[d] = repository[d]
  PROVE  RepositoriesInv'
<1>. USE DEF RepositoriesInv, InstallTypes, CommandGoto
<1>1. /\ command_at'[c] = step
      /\ \A d \in Command \ {c} : command_at'[d] = command_at[d]
  OBVIOUS
<1>2. WayInv'
  BY <1>1 DEF WayInv, OnScripts
<1>3. FileInv'
  <2>. SUFFICES ASSUME ~disturbed PROVE (AloneInv /\ EntriesInv /\ RepositoriesAreThoseInstalled)'
    BY DEF FileInv
  <2>1. AloneInv /\ EntriesInv /\ RepositoriesAreThoseInstalled
    BY DEF FileInv
  <2>2. AloneInv'
    BY <1>1, <2>1 DEF AloneInv, Changing, OnFile, OnScripts
  <2>3. EntriesInv'
    BY <1>1, <2>1 DEF EntriesInv, Left, OnScripts
  <2>4. RepositoriesAreThoseInstalled'
    BY <1>1, <2>1 DEF RepositoriesAreThoseInstalled, OnScripts
  <2>. QED BY <2>2, <2>3, <2>4
<1>. QED BY <1>2, <1>3

\* Nothing the property is about changes.
LEMMA FileLeftAlone ==
  ASSUME RepositoriesInv, UNCHANGED <<db, command_at, repository, adds, entries, wanted, disturbed>>
  PROVE  RepositoriesInv'
  BY DEF RepositoriesInv, InstallTypes, WayInv, FileInv, AloneInv, EntriesInv, Left,
         RepositoriesAreThoseInstalled

\* The commands begin.
LEMMA StartsKeep ==
  ASSUME RepositoriesInv, NEW c \in Command,
         \/ \E r \in Repository, script, yes \in BOOLEAN : InstallRepository(c, r, script, yes)
         \/ \E yes \in BOOLEAN : InstallScripts(c, yes)
         \/ \E r \in Repository : UninstallRepository(c, r)
  PROVE  RepositoriesInv'
<1>. USE DEF RepositoriesInv, InstallTypes
<1>. DEFINE Begins == /\ command_at[c] = "idle" /\ (CommandGoto(c, "asking") \/ CommandGoto(c, "reading"))
                      /\ UNCHANGED <<db, wanted, disturbed>>
                      /\ entries' = [entries EXCEPT ![c] = {}]
                      /\ adds' \in [Command -> BOOLEAN]
                      /\ repository' \in [Command -> Repository]
                      /\ \A d \in Command \ {c} : /\ adds'[d] = adds[d]
                                                  /\ repository'[d] = repository[d]
<1>1. ASSUME NEW r \in Repository, NEW script \in BOOLEAN, NEW yes \in BOOLEAN,
             InstallRepository(c, r, script, yes)
      PROVE  Begins
  BY <1>1 DEF InstallRepository, Start
<1>2. ASSUME NEW yes \in BOOLEAN, InstallScripts(c, yes)
      PROVE  Begins
  BY <1>2 DEF InstallScripts, Start
<1>3. ASSUME NEW r \in Repository, UninstallRepository(c, r)
      PROVE  Begins
  BY <1>3 DEF UninstallRepository, Start
<1>4. Begins
  BY <1>1, <1>2, <1>3
<1>5. PICK step \in {"asking", "reading"} : CommandGoto(c, step)
  BY <1>4
<1>6. InstallTypes'
  BY <1>4 DEF CommandGoto, Steps, OnFile, OnScripts
<1>. QED
  <2>1. \A d \in Command \ {c} : entries'[d] = entries[d]
    BY <1>4
  <2>. HIDE DEF RepositoriesInv, InstallTypes
  <2>. QED BY <1>4, <1>5, <1>6, <2>1, AwayFromFile DEF OnScripts

\* The scripts run.
LEMMA ScriptsKeep ==
  ASSUME RepositoriesInv, NEW c \in Command,
         \/ \E m \in Component : SkipScript(c, m) \/ RunScript(c, m)
         \/ Verify(c) \/ LeaveFlag(c) \/ ScriptSucceeds(c) \/ ScriptFails(c) \/ TouchFlag(c)
         \/ ScriptsEnd(c)
  PROVE  RepositoriesInv'
<1>1. ASSUME NEW m \in Component, SkipScript(c, m) PROVE RepositoriesInv'
  BY <1>1, FileLeftAlone DEF SkipScript, ScriptUnchanged
<1>2. ASSUME NEW step \in {"idle", "reading"} \cup OnScripts, CommandGoto(c, step),
             command_at[c] \in OnScripts, ScriptUnchanged
      PROVE  RepositoriesInv'
  <2>1. InstallTypes'
    BY <1>2 DEF RepositoriesInv, InstallTypes, CommandGoto, Steps, OnFile, ScriptUnchanged
  <2>2. UNCHANGED <<db, repository, adds, entries, wanted, disturbed>>
    BY <1>2 DEF ScriptUnchanged
  <2>3. \A d \in Command \ {c} : /\ entries'[d] = entries[d] /\ adds'[d] = adds[d]
                                 /\ repository'[d] = repository[d]
    BY <2>2
  <2>. QED BY <1>2, <2>1, <2>2, <2>3, AwayFromFile
<1>3. ASSUME NEW m \in Component, RunScript(c, m) PROVE RepositoriesInv'
  BY <1>2, <1>3 DEF RunScript, OnScripts
<1>4. CASE Verify(c) \/ LeaveFlag(c)
  BY <1>2, <1>4 DEF Verify, LeaveFlag, OnScripts
<1>5. CASE ScriptSucceeds(c) \/ TouchFlag(c)
  BY <1>2, <1>5 DEF ScriptSucceeds, TouchFlag, OnScripts
<1>6. CASE ScriptFails(c)
  BY <1>2, <1>6 DEF ScriptFails, AfterFailure, OnScripts
<1>7. CASE ScriptsEnd(c)
  BY <1>2, <1>7 DEF ScriptsEnd, OnScripts
<1>. QED BY <1>1, <1>3, <1>4, <1>5, <1>6, <1>7

\* The file is read: nobody else is past reading it, or disturbed is set.
LEMMA ReadKeeps ==
  ASSUME RepositoriesInv, NEW c \in Command, Read(c)
  PROVE  RepositoriesInv'
<1>. USE DEF RepositoriesInv, InstallTypes, CommandGoto
<1>. UNCHANGED <<db, wanted, adds, repository>> /\ command_at[c] = "reading"
  BY DEF Read, FileUnchanged
<1>1. CASE adds[c] /\ repository[c] \notin exists
  <2>1. CommandGoto(c, "idle") /\ UNCHANGED <<entries, disturbed>>
    BY <1>1 DEF Read
  <2>2. InstallTypes'
    BY <2>1 DEF Steps
  <2>. HIDE DEF RepositoriesInv, InstallTypes
  <2>. QED BY <2>1, <2>2, AwayFromFile
<1>2. CASE ~(adds[c] /\ repository[c] \notin exists)
  <2>. DEFINE step == IF adds[c] THEN "adding" ELSE "deleting"
  <2>1. /\ command_at' = [command_at EXCEPT ![c] = step]
        /\ entries' = [entries EXCEPT ![c] = db \ Unreadable]
        /\ disturbed' = (disturbed \/ \E d \in Command \ {c} : command_at[d] \in Changing)
    BY <1>2 DEF Read, Changing
  <2>2. /\ disturbed' \in BOOLEAN
        /\ ~disturbed' => ~disturbed /\ \A d \in Command \ {c} : command_at[d] \notin Changing
    BY <2>1
  <2>3. /\ command_at' \in [Command -> Steps] /\ command_at'[c] = step
        /\ \A d \in Command \ {c} : command_at'[d] = command_at[d]
    BY <2>1 DEF Steps, OnFile
  <2>4. /\ entries' \in [Command -> SUBSET Repository]
        /\ entries'[c] = db \ Unreadable
    BY <2>1 DEF Unreadable
  <2>5. InstallTypes' /\ WayInv'
    BY <2>2, <2>3, <2>4 DEF WayInv
  <2>6. ASSUME ~disturbed' PROVE (AloneInv /\ EntriesInv /\ RepositoriesAreThoseInstalled)'
    <3>1. \A d \in Command \ {c} : command_at'[d] \notin Changing
      BY <2>2, <2>3, <2>6
    <3>2. db = wanted
      <4>1. RepositoriesAreThoseInstalled /\ ~disturbed
        BY <2>2, <2>6 DEF FileInv
      <4>2. \A d \in Command : command_at[d] # "writing"
        BY <2>2, <2>6 DEF Changing, OnFile
      <4>. QED BY <4>1, <4>2 DEF RepositoriesAreThoseInstalled
    <3>3. entries'[c] = wanted
      BY <2>4, <3>2, RepositoryAssumption DEF Unreadable
    <3>. QED BY <2>3, <3>1, <3>2, <3>3
             DEF AloneInv, EntriesInv, RepositoriesAreThoseInstalled, Changing, OnFile
  <2>. QED BY <2>5, <2>6 DEF FileInv
<1>. QED BY <1>1, <1>2

\* A command past reading the file changes it or leaves it; before disturbed is
\* set it is the only one.
LEMMA ChangeKeeps ==
  ASSUME RepositoriesInv, NEW c \in Command,
         LeaveFile(c) \/ EmptyFile(c) \/ WriteFile(c)
  PROVE  RepositoriesInv'
<1>. USE DEF RepositoriesInv, InstallTypes, CommandGoto
<1>. /\ UNCHANGED <<adds, repository, disturbed>>
     /\ command_at[c] \in {"adding", "deleting", "writing"}
  BY DEF LeaveFile, EmptyFile, WriteFile, FileUnchanged
<1>1. PICK step \in {"idle", "writing"} : command_at' = [command_at EXCEPT ![c] = step]
  BY DEF LeaveFile, EmptyFile, WriteFile
<1>2. /\ command_at' \in [Command -> Steps] /\ command_at'[c] = step
      /\ \A d \in Command \ {c} : command_at'[d] = command_at[d]
  BY <1>1 DEF Steps, OnFile
<1>3. command_at[c] # "writing" => /\ Changed(c) \in SUBSET Repository
                                   /\ entries[c] = wanted => Changed(c) = Left(c)
  BY DEF Changed, Removable, Left, WayInv
<1>4. InstallTypes'
  BY <1>2, <1>3 DEF LeaveFile, EmptyFile, WriteFile
<1>5. WayInv'
  BY <1>2 DEF WayInv
<1>6. ASSUME ~disturbed PROVE (AloneInv /\ EntriesInv /\ RepositoriesAreThoseInstalled)'
  <2>1. AloneInv /\ EntriesInv /\ RepositoriesAreThoseInstalled
    BY <1>6 DEF FileInv
  <2>2. \A d \in Command \ {c} : command_at[d] \notin Changing
    BY <2>1 DEF AloneInv, Changing, OnFile
  <2>3. AloneInv'
    BY <1>2, <2>2 DEF AloneInv
  <2>4. CASE LeaveFile(c)
    <3>1. entries[c] = wanted /\ wanted' = wanted /\ db' = wanted
      <4>1. entries[c] = wanted /\ db = wanted
        <5>1. command_at[c] \in {"adding", "deleting"}
          BY <2>4 DEF LeaveFile
        <5>2. \A d \in Command : command_at[d] # "writing"
          BY <2>2, <5>1 DEF Changing, OnFile
        <5>. QED BY <1>6, <2>1, <5>1, <5>2 DEF EntriesInv, RepositoriesAreThoseInstalled
      <4>2. wanted' = Left(c)
        BY <2>4 DEF LeaveFile, Left, WayInv
      <4>. QED BY <1>3, <2>4, <4>1, <4>2 DEF LeaveFile
    <3>2. command_at'[c] = "idle"
      BY <2>4 DEF LeaveFile
    <3>. QED BY <1>2, <2>2, <2>3, <3>1, <3>2
             DEF EntriesInv, RepositoriesAreThoseInstalled, Changing, OnFile
  <2>5. CASE EmptyFile(c)
    <3>1. wanted' = wanted /\ entries'[c] = Left(c) /\ command_at'[c] = "writing"
      BY <1>3, <2>1, <2>5 DEF EmptyFile, EntriesInv
    <3>2. EntriesInv'
      BY <1>2, <2>2, <3>1 DEF EntriesInv, Left, Changing, OnFile
    <3>. QED BY <2>3, <3>1, <3>2 DEF RepositoriesAreThoseInstalled
  <2>6. CASE WriteFile(c)
    <3>1. db' = Left(c) /\ wanted' = Left(c) /\ command_at'[c] = "idle"
      BY <2>1, <2>6 DEF WriteFile, EntriesInv, Left
    <3>. QED BY <1>2, <2>2, <2>3, <3>1
             DEF EntriesInv, RepositoriesAreThoseInstalled, Changing, OnFile
  <2>. QED BY <2>4, <2>5, <2>6
<1>. QED BY <1>4, <1>5, <1>6 DEF FileInv

\* A command that is stopped with the file empty sets disturbed.
LEMMA StopKeeps ==
  ASSUME RepositoriesInv, NEW c \in Command, Stop(c)
  PROVE  RepositoriesInv'
<1>. USE DEF RepositoriesInv, InstallTypes, CommandGoto
<1>1. /\ UNCHANGED <<db, repository, adds, entries, wanted>>
      /\ command_at' = [command_at EXCEPT ![c] = "idle"]
      /\ disturbed' = (disturbed \/ command_at[c] = "writing")
  BY DEF Stop
<1>2. InstallTypes' /\ WayInv'
  BY <1>1 DEF WayInv, Steps
<1>3. ASSUME ~disturbed' PROVE (AloneInv /\ EntriesInv /\ RepositoriesAreThoseInstalled)'
  <2>1. AloneInv /\ EntriesInv /\ RepositoriesAreThoseInstalled /\ command_at[c] # "writing"
    BY <1>1, <1>3 DEF FileInv
  <2>2. AloneInv' /\ EntriesInv'
    BY <1>1, <2>1 DEF AloneInv, EntriesInv, Left, Changing, OnFile
  <2>3. RepositoriesAreThoseInstalled'
    BY <1>1, <2>1 DEF RepositoriesAreThoseInstalled
  <2>. QED BY <2>2, <2>3
<1>. QED BY <1>2, <1>3 DEF FileInv

LEMMA RepositoriesKept ==
  RepositoriesInv /\ [InstallNext]_installVars => RepositoriesInv'
<1>. SUFFICES ASSUME RepositoriesInv, [InstallNext]_installVars PROVE RepositoriesInv'
  OBVIOUS
<1>1. CASE UNCHANGED installVars
  BY <1>1, FileLeftAlone DEF installVars
<1>2. CASE \E r \in Repository : RemoveDirectory(r)
  BY <1>2, FileLeftAlone DEF RemoveDirectory
<1>. QED BY <1>1, <1>2, StartsKeep, ScriptsKeep, ReadKeeps, ChangeKeeps, StopKeeps DEF InstallNext

\* For any repositories and commands: repositories.json holds what the commands
\* installed and did not uninstall, unless two used it at once or one was
\* stopped while it wrote (RepositoryDb, which takes no lock).
THEOREM RepositoriesAreKept == InstallSpec => []RepositoriesAreThoseInstalled
<1>1. InstallInit => RepositoriesInv
  BY RepositoriesInit
<1>2. RepositoriesInv /\ [InstallNext]_installVars => RepositoriesInv'
  BY RepositoriesKept
<1>3. RepositoriesInv => RepositoriesAreThoseInstalled
  BY DEF RepositoriesInv, InstallTypes, FileInv, RepositoriesAreThoseInstalled
<1>. QED BY <1>1, <1>2, <1>3, PTL DEF InstallSpec

-----------------------------------------------------------------------------
(* pssh: the lines that parallel-ssh reads.  A line whose name is no part   *)
(* of another and has an address is translated when its turn comes, and     *)
(* only calls at work at the same time disturb each other's file.           *)

ShellTypes ==
  /\ vms \in [VM -> {"address", "no address", "none"}]
  /\ DOMAIN call_at = Calls
  /\ \A c \in SSH : call_at[c] # "translating"
  /\ rest \in [PSSH -> SUBSET VM]
  /\ DOMAIN text = PSSH
  /\ DOMAIN given = PSSH
  /\ shared \in BOOLEAN

Expected(v) == v \in Lines /\ vms[v] = "address" /\ Plain(v)

Translated(lines) ==
  \A v \in VM : Expected(v) => v \in DOMAIN lines /\ lines[v] = "address"

\* A name waits for its turn unchanged, and is an address afterwards ...
TextInv ==
  \A c \in PSSH : call_at[c] = "translating" =>
    /\ DOMAIN text[c] = Lines
    /\ \A v \in VM : Expected(v) =>
         text[c][v] = (IF v \in rest[c] THEN "name" ELSE "address")

\* ... a call by itself finds in the file what it wrote ...
TmpInv ==
  ~shared => \A c \in PSSH :
    call_at[c] \in UsesFile =>
      /\ \A d \in PSSH \ {c} : call_at[d] \notin UsesFile
      /\ call_at[c] = "written" => Translated(tmp)

\* ... and hands it to parallel-ssh.
GivenInv ==
  ~shared => \A c \in PSSH : call_at[c] \in {"called", "done"} => Translated(given[c])

ShellInv == ShellTypes /\ TextInv /\ TmpInv /\ GivenInv

LEMMA ShellInitInv == ShellInit => ShellInv
  BY DEF ShellInit, ShellInv, ShellTypes, TextInv, TmpInv, GivenInv, UsesFile, Calls

\* A step that leaves the host file's text and its copies alone, and moves a
\* call to none of the places that speak of them.
LEMMA QuietCall ==
  ASSUME ShellInv, NEW c \in Calls, NEW place, CallGoto(c, place),
         place # "translating",
         c \in PSSH => place \notin {"written", "called", "done"},
         UNCHANGED vms, PSSHUnchanged
  PROVE  ShellInv'
<1>. USE DEF ShellInv, ShellTypes
<1>1. \A d \in PSSH : d # c => call_at'[d] = call_at[d]
  BY DEF CallGoto, Calls
<1>2. \A d \in PSSH : d = c => call_at'[d] = place
  BY DEF CallGoto, Calls
<1>3. UNCHANGED <<vms, rest, text, tmp, given, shared>>
  BY DEF PSSHUnchanged
<1>4. \A v : Expected(v)' = Expected(v)
  BY <1>3 DEF Expected, Plain
<1>5. ShellTypes'
  BY <1>3 DEF CallGoto, Calls
<1>6. TextInv'
  BY <1>1, <1>2, <1>3, <1>4 DEF TextInv
<1>7. TmpInv'
  BY <1>1, <1>2, <1>3, <1>4 DEF TmpInv, UsesFile, Translated
<1>8. GivenInv'
  BY <1>1, <1>2, <1>3, <1>4 DEF GivenInv, Translated
<1>. QED BY <1>5, <1>6, <1>7, <1>8

\* The names are read before any is replaced.
LEMMA ReadHostFileKeeps ==
  ASSUME ShellInv, NEW c \in Calls, ReadHostFile(c)
  PROVE  ShellInv'
<1>. USE DEF ShellInv, ShellTypes
<1>1. /\ c \in PSSH
      /\ UNCHANGED <<vms, tmp, given, shared>>
      /\ call_at' = [call_at EXCEPT ![c] = "translating"]
      /\ text' = [text EXCEPT ![c] = Original]
      /\ rest' = [rest EXCEPT ![c] = {v \in VM : vms[v] # "none"}]
  BY DEF ReadHostFile, CallGoto
<1>2. \A v : Expected(v)' = Expected(v)
  BY <1>1 DEF Expected, Plain
<1>3. ShellTypes'
  BY <1>1, ShellAssumption DEF Calls
<1>4. \A d \in PSSH : call_at'[d] = IF d = c THEN "translating" ELSE call_at[d]
  BY <1>1 DEF Calls
<1>5. TextInv'
  <2>1. ASSUME NEW d \in PSSH, call_at'[d] = "translating", d # c
        PROVE  call_at[d] = "translating" /\ text'[d] = text[d] /\ rest'[d] = rest[d]
    BY <2>1, <1>1, <1>4
  <2>2. text'[c] = [v \in Lines |-> "name"]
    BY <1>1 DEF Original
  <2>3. ASSUME NEW v \in VM, Expected(v)
        PROVE  text'[c][v] = "name" /\ v \in rest'[c]
    BY <2>2, <2>3, <1>1 DEF Expected
  <2>. SUFFICES ASSUME NEW d \in PSSH, call_at'[d] = "translating"
                PROVE  /\ DOMAIN text'[d] = Lines
                       /\ \A v \in VM : Expected(v) =>
                            text'[d][v] = (IF v \in rest'[d] THEN "name" ELSE "address")
    BY <1>2 DEF TextInv
  <2>4. CASE d = c
    BY <2>2, <2>3, <2>4
  <2>5. CASE d # c
    <3>1. /\ call_at[d] = "translating"
          /\ text'[d] = text[d]
          /\ rest'[d] = rest[d]
      BY <2>1, <2>5
    <3>. QED BY <3>1 DEF TextInv
  <2>. QED BY <2>4, <2>5
<1>6. TmpInv'
  BY <1>1, <1>2, <1>4 DEF TmpInv, UsesFile, Translated
<1>7. GivenInv'
  BY <1>1, <1>2, <1>4 DEF GivenInv, Translated
<1>. QED BY <1>3, <1>5, <1>6, <1>7

\* One name is replaced: its own line, and those whose names contain it.
LEMMA ReplaceKeeps ==
  ASSUME ShellInv, NEW c \in Calls, NEW u \in VM, Replace(c, u), c \in PSSH
  PROVE  ShellInv'
<1>. USE DEF ShellInv, ShellTypes
<1>1. /\ call_at[c] = "translating" /\ u \in rest[c]
      /\ UNCHANGED <<vms, call_at, tmp, given, shared>>
      /\ rest' = [rest EXCEPT ![c] = rest[c] \ {u}]
  BY DEF Replace, StillToReplace
<1>2. \A v : Expected(v)' = Expected(v)
  BY <1>1 DEF Expected, Plain
<1>3. ShellTypes'
  BY <1>1 DEF Replace
<1>4. TextInv'
  <2>1. ASSUME NEW d \in PSSH, call_at[d] = "translating", d # c
        PROVE  text'[d] = text[d] /\ rest'[d] = rest[d]
    BY <2>1, <1>1 DEF Replace
  <2>2. text'[c] = [w \in Lines |->
          CASE text[c][w] # "name" -> text[c][w]
            [] w = u -> IF vms[u] = "no address" THEN "mixed" ELSE "address"
            [] <<u, w>> \in WithinName -> "mixed"
            [] OTHER -> text[c][w]]
    BY DEF Replace
  <2>3. ASSUME NEW v \in VM, Expected(v)
        PROVE  text'[c][v] = (IF v \in rest'[c] THEN "name" ELSE "address")
    <3>1. v \in Lines /\ vms[v] = "address" /\ <<u, v>> \notin WithinName
      BY <2>3 DEF Expected, Plain
    <3>2. text[c][v] = (IF v \in rest[c] THEN "name" ELSE "address")
      BY <2>3, <1>1 DEF TextInv
    <3>3. rest'[c] = rest[c] \ {u}
      BY <1>1
    <3>4. CASE v = u
      BY <3>1, <3>2, <3>3, <3>4, <2>2, <1>1
    <3>5. CASE v # u
      BY <3>1, <3>2, <3>3, <3>5, <2>2
    <3>. QED BY <3>4, <3>5
  <2>4. DOMAIN text'[c] = Lines
    BY <2>2
  <2>5. call_at' = call_at
    BY <1>1
  <2>. SUFFICES ASSUME NEW d \in PSSH, call_at[d] = "translating"
                PROVE  /\ DOMAIN text'[d] = Lines
                       /\ \A v \in VM : Expected(v) =>
                            text'[d][v] = (IF v \in rest'[d] THEN "name" ELSE "address")
    BY <2>5, <1>2 DEF TextInv
  <2>6. CASE d = c
    BY <2>3, <2>4, <2>6
  <2>7. CASE d # c
    <3>1. text'[d] = text[d] /\ rest'[d] = rest[d]
      BY <2>1, <2>7
    <3>. QED BY <3>1 DEF TextInv
  <2>. QED BY <2>6, <2>7
<1>5. TmpInv'
  BY <1>1, <1>2 DEF TmpInv, Translated
<1>6. GivenInv'
  BY <1>1, <1>2 DEF GivenInv, Translated
<1>. QED BY <1>3, <1>4, <1>5, <1>6

\* The file is written when no name is left.
LEMMA WriteHostsKeeps ==
  ASSUME ShellInv, NEW c \in Calls, WriteHosts(c)
  PROVE  ShellInv'
<1>. USE DEF ShellInv, ShellTypes
<1>1. /\ c \in PSSH /\ call_at[c] = "translating" /\ rest[c] = {}
      /\ UNCHANGED <<vms, rest, text, given>>
      /\ call_at' = [call_at EXCEPT ![c] = "written"]
      /\ tmp' = text[c]
      /\ shared' = (shared \/ \E d \in PSSH \ {c} : call_at[d] \in UsesFile)
  BY DEF WriteHosts, CallGoto
<1>2. \A v : Expected(v)' = Expected(v)
  BY <1>1 DEF Expected, Plain
<1>3. ShellTypes'
  BY <1>1, ShellAssumption DEF Calls
<1>4. \A d \in PSSH : call_at'[d] = IF d = c THEN "written" ELSE call_at[d]
  BY <1>1 DEF Calls
<1>5. TextInv'
  <2>1. UNCHANGED <<rest, text>>
    BY <1>1
  <2>. QED BY <2>1, <1>2, <1>4 DEF TextInv
<1>6. TmpInv'
  <2>1. Translated(tmp)'
    BY <1>1, <1>2 DEF Translated, TextInv, Expected
  <2>2. ~shared' => \A d \in PSSH \ {c} : call_at'[d] \notin UsesFile
    BY <1>1, <1>4
  <2>. QED BY <2>1, <2>2 DEF TmpInv
<1>7. GivenInv'
  BY <1>1, <1>2, <1>4 DEF GivenInv, Translated
<1>. QED BY <1>3, <1>5, <1>6, <1>7

\* parallel-ssh reads what is in the file.
LEMMA CallPSSHKeeps ==
  ASSUME ShellInv, NEW c \in Calls, CallPSSH(c)
  PROVE  ShellInv'
<1>. USE DEF ShellInv, ShellTypes
<1>1. /\ c \in PSSH /\ call_at[c] = "written"
      /\ UNCHANGED <<vms, rest, text, tmp, shared>>
      /\ given' = [given EXCEPT ![c] = tmp]
  BY DEF CallPSSH
<1>2. PICK place \in {"called", "failed"} : call_at' = [call_at EXCEPT ![c] = place]
  BY DEF CallPSSH, CallGoto
<1>3. \A v : Expected(v)' = Expected(v)
  BY <1>1 DEF Expected, Plain
<1>4. ShellTypes'
  BY <1>1, <1>2 DEF Calls
<1>5. \A d \in PSSH : call_at'[d] = IF d = c THEN place ELSE call_at[d]
  BY <1>1, <1>2 DEF Calls
<1>6. TextInv'
  <2>1. UNCHANGED <<rest, text>>
    BY <1>1
  <2>. QED BY <2>1, <1>3, <1>5 DEF TextInv
<1>7. TmpInv'
  BY <1>1, <1>3, <1>5 DEF TmpInv, UsesFile, Translated
<1>8. GivenInv'
  <2>1. ~shared => Translated(tmp)
    BY <1>1 DEF TmpInv, UsesFile
  <2>2. ~shared => Translated(given[c])'
    BY <2>1, <1>1, <1>3 DEF Translated
  <2>. QED BY <2>2, <1>1, <1>3, <1>5 DEF GivenInv, Translated
<1>. QED BY <1>4, <1>6, <1>7, <1>8

\* The file is removed, under a call that is at work only if two are.
LEMMA RemoveHostsKeeps ==
  ASSUME ShellInv, NEW c \in Calls, RemoveHosts(c)
  PROVE  ShellInv'
<1>. USE DEF ShellInv, ShellTypes
<1>1. /\ c \in PSSH /\ call_at[c] = "called"
      /\ UNCHANGED <<vms, rest, text, given, shared>>
  BY DEF RemoveHosts
<1>2. PICK place \in {"failed", "done"} : call_at' = [call_at EXCEPT ![c] = place]
  BY DEF RemoveHosts, CallGoto
<1>3. \A v : Expected(v)' = Expected(v)
  BY <1>1 DEF Expected, Plain
<1>4. ShellTypes'
  BY <1>1, <1>2 DEF Calls
<1>5. \A d \in PSSH : call_at'[d] = IF d = c THEN place ELSE call_at[d]
  BY <1>1, <1>2 DEF Calls
<1>6. TextInv'
  <2>1. UNCHANGED <<rest, text>>
    BY <1>1
  <2>. QED BY <2>1, <1>3, <1>5 DEF TextInv
<1>7. TmpInv'
  <2>1. ~shared => \A d \in PSSH \ {c} : call_at[d] \notin UsesFile
    BY <1>1 DEF TmpInv, UsesFile
  <2>2. ~shared => \A d \in PSSH : call_at'[d] \notin UsesFile
    BY <2>1, <1>5 DEF UsesFile
  <2>. QED BY <2>2, <1>1 DEF TmpInv
<1>8. GivenInv'
  BY ZenonT(40), <1>1, <1>3, <1>5 DEF GivenInv, Translated
<1>. QED BY <1>4, <1>6, <1>7, <1>8

LEMMA ShellStepInv == ShellInv /\ [ShellNext]_shellVars => ShellInv'
<1>. SUFFICES ASSUME ShellInv, [ShellNext]_shellVars PROVE ShellInv'
  OBVIOUS
<1>1. CASE UNCHANGED shellVars
  BY <1>1 DEF shellVars, ShellInv, ShellTypes, TextInv, TmpInv, GivenInv, Expected, Plain,
              Translated
<1>2. CASE ShellNext
  <2>1. PICK c \in Calls : CallStep(c)
    BY <1>2 DEF ShellNext
  <2>2. CASE CheckVersion(c)
    <3>1. PICK place \in {"connected", "delay", "failed", "waits for a dead process"} :
            CallGoto(c, place)
      BY <2>2 DEF CheckVersion
    <3>. QED BY <2>2, <3>1, QuietCall DEF CheckVersion
  <2>3. CASE Wake(c)
    <3>1. PICK place \in {"connecting", "testing"} : CallGoto(c, place)
      BY <2>3 DEF Wake
    <3>. QED BY <2>3, <3>1, QuietCall DEF Wake
  <2>4. CASE ResolveAddress(c)
    <3>1. PICK place \in {"failed", "testing"} : CallGoto(c, place)
      BY <2>4 DEF ResolveAddress
    <3>. QED BY <2>4, <3>1, QuietCall DEF ResolveAddress
  <2>5. CASE TestConnection(c)
    <3>1. PICK place \in {"calling", "interval", "failed"} : CallGoto(c, place)
      BY <2>5 DEF TestConnection
    <3>. QED BY <2>5, <3>1, QuietCall DEF TestConnection
  <2>6. CASE CallSSH(c)
    <3>1. PICK place \in {"done", "failed"} : CallGoto(c, place)
      BY <2>6 DEF CallSSH
    <3>2. c \notin PSSH
      BY <2>6, ShellAssumption DEF CallSSH
    <3>. QED BY <2>6, <3>1, <3>2, QuietCall DEF CallSSH
  <2>7. CASE ReadHostFile(c)
    BY <2>7, ReadHostFileKeeps
  <2>8. CASE \E v \in VM : Replace(c, v)
    <3>1. c \in PSSH
      BY <2>8 DEF Replace, ShellInv, ShellTypes, Calls
    <3>. QED BY <2>8, <3>1, ReplaceKeeps
  <2>9. CASE WriteHosts(c)
    BY <2>9, WriteHostsKeeps
  <2>10. CASE CallPSSH(c)
    BY <2>10, CallPSSHKeeps
  <2>11. CASE RemoveHosts(c)
    BY <2>11, RemoveHostsKeeps
  <2>. QED BY <2>1, <2>2, <2>3, <2>4, <2>5, <2>6, <2>7, <2>8, <2>9, <2>10, <2>11 DEF CallStep
<1>. QED BY <1>1, <1>2

\* With any number of calls, VMs and lines, parallel-ssh is given an address
\* for every line whose VM has one, unless two calls worked on the host file
\* at once or another VM's name is a part of the line's.
THEOREM HostsAreTranslated == ShellSpec => []EveryHostHasItsAddress
<1>1. ShellInv => EveryHostHasItsAddress
  <2>. SUFFICES ASSUME ShellInv, ~shared, NEW c \in PSSH, call_at[c] \in {"called", "done"},
                       NEW v \in Lines, vms[v] = "address", Plain(v)
                PROVE  v \in DOMAIN given[c] /\ given[c][v] = "address"
    BY DEF EveryHostHasItsAddress
  <2>1. v \in VM /\ Expected(v)
    BY ShellAssumption DEF Expected
  <2>. QED BY <2>1 DEF ShellInv, GivenInv, Translated
<1>. QED BY <1>1, ShellInitInv, ShellStepInv, PTL DEF ShellSpec

-----------------------------------------------------------------------------
(* Uploads: what the copies and the unpacked images of a name are while     *)
(* uploaders work on it.                                                    *)

AllTimes == UNION {Versions[f] : f \in File}
Contents == {"part", "none"} \cup {ContentOf[t] : t \in AllTimes}
Active(u) == upload_at[u] \notin Resting
ArchiveName(n) == \E f \in Image : NameOf[f] = n

UploadTypes ==
  /\ disk \in [File -> AllTimes]
  /\ store \in [Name -> [content : Contents, time : {0, Now} \cup AllTimes]]
  /\ unpacked \in [Name -> Contents]
  /\ DOMAIN upload_at = Uploader
  /\ DOMAIN file = Uploader
  /\ \A u \in Uploader : upload_at[u] # "idle" => file[u] \in File
  /\ DOMAIN last_modified = Uploader
  /\ upload_disturbed \subseteq Uploader
  /\ suspect \subseteq Name

\* Two uploaders that copy to one name make it suspect, ...
OneCopies ==
  \A u, v \in Uploader :
    u # v /\ Active(u) /\ Active(v) /\ NameFor(u) = NameFor(v) => NameFor(u) \in suspect

\* ... and one that met no other is alone on its name.
MetNone ==
  \A u \in Uploader \ upload_disturbed : upload_at[u] # "idle" =>
    \A v \in Uploader \ {u} : upload_at[v] # "idle" => NameFor(v) # NameFor(u)

\* A copy that has the time of a version has its content, ...
TimeIsTrue(n) == store[n].time \in AllTimes => store[n].content = ContentOf[store[n].time]

\* ... and the image unpacked beside it, if there is one, is that of the copy,
\* but between the end of the copy and the removal of the old image.
UnpackedIsTrue(n) ==
  \/ store[n].content \in {"part", "none"}
  \/ ~ArchiveName(n)
  \/ \E u \in Uploader : upload_at[u] \in {"stat", "send", "clear"} /\ NameFor(u) = n
  \/ unpacked[n] \in {"none", store[n].content}

Copied(u) == store[NameFor(u)].content = ContentFor(u)
AsUnpacked(u) == file[u] \in Image => unpacked[NameFor(u)] = ContentFor(u)

\* What an uploader knows at each of its places.
Placed(u) ==
  NameFor(u) \notin suspect =>
    /\ upload_at[u] = "hash" /\ file[u] \in Image => unpacked[NameFor(u)] # "none"
    /\ upload_at[u] = "stat" => store[NameFor(u)] = Nothing \/ Copied(u)
    /\ upload_at[u] = "unpack" => unpacked[NameFor(u)] = "none"
    /\ u \notin upload_disturbed =>
         /\ upload_at[u] = "date" => last_modified[u] = disk[file[u]]
         /\ upload_at[u] \in {"send", "clear", "unpack"} => Copied(u)
         /\ upload_at[u] = "uploaded" => Copied(u) /\ AsUnpacked(u)

UploadInv ==
  /\ UploadTypes /\ OneCopies /\ MetNone
  /\ \A n \in Name \ suspect : TimeIsTrue(n) /\ UnpackedIsTrue(n)
  /\ \A u \in Uploader : upload_at[u] # "idle" => Placed(u)

-----------------------------------------------------------------------------

LEMMA NamesOfFiles ==
  /\ \A f \in File : NameOf[f] \in Name
  /\ \A f \in File : ArchiveName(NameOf[f]) => f \in Image
  /\ \A t \in AllTimes : t \notin {0, Now} /\ ContentOf[t] \in Contents \ {"part", "none"}
  /\ Nothing \in [content : Contents, time : {0, Now} \cup AllTimes]
<1>1. \A f \in File : NameOf[f] \in Name
  BY DEF Name
<1>2. \A f \in File : ArchiveName(NameOf[f]) => f \in Image
  BY UploadAssumption DEF ArchiveName
<1>3. ASSUME NEW t \in AllTimes
      PROVE  t \notin {0, Now} /\ ContentOf[t] \in Contents \ {"part", "none"}
  <2>1. PICK f \in File : t \in Versions[f]
    BY DEF AllTimes
  <2>. QED BY <2>1, UploadAssumption DEF Contents
<1>4. Nothing \in [content : Contents, time : {0, Now} \cup AllTimes]
  BY DEF Nothing, Contents
<1>. QED BY <1>1, <1>2, <1>3, <1>4

LEMMA UploadInitInv == UploadInit => UploadInv
<1>. SUFFICES ASSUME UploadInit PROVE UploadInv
  OBVIOUS
<1>. USE DEF UploadInit
<1>1. disk \in [File -> AllTimes]
  <2>. DEFINE Times == UNION {Versions[f] : f \in File}
  <2>1. disk \in [File -> Times]
    OBVIOUS
  <2>. QED BY <2>1 DEF AllTimes
<1>2. UploadTypes
  BY <1>1, NamesOfFiles DEF UploadTypes, Contents
<1>3. ASSUME NEW n \in Name
      PROVE  TimeIsTrue(n) /\ UnpackedIsTrue(n)
  <2>1. store[n] = Nothing
    OBVIOUS
  <2>. QED BY <2>1, NamesOfFiles DEF TimeIsTrue, UnpackedIsTrue, Nothing
<1>. QED BY <1>2, <1>3 DEF UploadInv, OneCopies, MetNone, Active, Resting

\* A step of an uploader that is at work disturbs no other: it changes what
\* belongs to its name only, and the others there are on a suspect name, or
\* have uploaded and have met it.
LEMMA OwnNameOnly ==
  ASSUME UploadInv, NEW u \in Uploader, Active(u), NEW place,
         upload_at' = [upload_at EXCEPT ![u] = place],
         UNCHANGED <<disk, file, upload_disturbed>>,
         DOMAIN last_modified' = Uploader,
         \A v \in Uploader \ {u} : last_modified'[v] = last_modified[v],
         suspect \subseteq suspect', suspect' \subseteq Name,
         store' \in [Name -> [content : Contents, time : {0, Now} \cup AllTimes]],
         unpacked' \in [Name -> Contents],
         \A n \in Name : n # NameFor(u) => store'[n] = store[n] /\ unpacked'[n] = unpacked[n],
         NameFor(u) \notin suspect' => TimeIsTrue(NameFor(u))' /\ UnpackedIsTrue(NameFor(u))',
         place # "idle" => Placed(u)'
  PROVE  UploadInv'
<1>1. UploadTypes
  BY DEF UploadInv
<1>2. /\ upload_at[u] # "idle"
      /\ file[u] \in File
  BY <1>1 DEF Active, Resting, UploadTypes
<1>3. /\ \A v \in Uploader : v # u => upload_at'[v] = upload_at[v]
      /\ upload_at'[u] = place
  BY <1>1 DEF UploadTypes
<1>4. \A v \in Uploader : NameFor(v)' = NameFor(v) /\ ContentFor(v)' = ContentFor(v)
  BY DEF NameFor, ContentFor
<1>5. UploadTypes'
  BY <1>1, <1>2 DEF UploadTypes
<1>6. OneCopies'
  <2>1. \A v \in Uploader : Active(v)' => Active(v)
    BY <1>3 DEF Active
  <2>. QED BY <2>1, <1>4 DEF UploadInv, OneCopies
<1>7. MetNone'
  <2>1. \A v \in Uploader : upload_at'[v] # "idle" => upload_at[v] # "idle"
    BY <1>2, <1>3
  <2>. QED BY <2>1, <1>4 DEF UploadInv, MetNone
<1>8. ASSUME NEW n \in Name, n \notin suspect'
      PROVE  TimeIsTrue(n)' /\ UnpackedIsTrue(n)'
  <2>1. CASE n = NameFor(u)
    <3>1. NameFor(u)' = n /\ NameFor(u) \notin suspect'
      BY <2>1, <1>4, <1>8
    <3>2. TimeIsTrue(n)'
      BY <3>1 DEF TimeIsTrue
    <3>3. UnpackedIsTrue(n)'
      BY <3>1 DEF UnpackedIsTrue
    <3>. QED BY <3>2, <3>3
  <2>2. CASE n # NameFor(u)
    <3>1. store'[n] = store[n] /\ unpacked'[n] = unpacked[n]
      BY <2>2
    <3>2. TimeIsTrue(n) /\ UnpackedIsTrue(n)
      BY <1>8 DEF UploadInv
    <3>3. TimeIsTrue(n)'
      BY <3>1, <3>2 DEF TimeIsTrue
    <3>4. \A v \in Uploader : NameFor(v) = n => upload_at'[v] = upload_at[v]
      BY <2>2, <1>3
    <3>5. UnpackedIsTrue(n)'
      BY <3>1, <3>2, <3>4, <1>4 DEF UnpackedIsTrue
    <3>. QED BY <3>3, <3>5
  <2>. QED BY <2>1, <2>2
<1>9. ASSUME NEW v \in Uploader, v # u, upload_at'[v] # "idle", NameFor(v)' \notin suspect'
      PROVE  Placed(v)'
  <2>1. /\ upload_at'[v] = upload_at[v]
        /\ upload_at[v] # "idle"
        /\ NameFor(v) \notin suspect
        /\ file[v] \in File
    BY <1>1, <1>3, <1>4, <1>9 DEF UploadTypes
  <2>2. Placed(v)
    BY <2>1 DEF UploadInv
  <2>3. CASE NameFor(v) # NameFor(u)
    <3>1. NameFor(v) \in Name
      BY <2>1, NamesOfFiles DEF NameFor
    <3>2. /\ store'[NameFor(v)] = store[NameFor(v)]
          /\ unpacked'[NameFor(v)] = unpacked[NameFor(v)]
      BY <3>1, <2>3
    <3>3. Copied(v)' = Copied(v) /\ AsUnpacked(v)' = AsUnpacked(v)
      BY <3>2, <1>4 DEF Copied, AsUnpacked
    <3>4. last_modified'[v] = last_modified[v]
      BY <1>9
    <3>. QED BY <2>1, <2>2, <3>2, <3>3, <3>4, <1>4 DEF Placed
  <2>4. CASE NameFor(v) = NameFor(u)
    <3>1. ~Active(v)
      BY <2>1, <2>4, <1>9 DEF UploadInv, OneCopies
    <3>2. upload_at[v] = "uploaded"
      BY <3>1, <2>1 DEF Active, Resting
    <3>3. v \in upload_disturbed
      BY <2>1, <2>4, <1>2, <1>9 DEF UploadInv, MetNone
    <3>. QED BY <3>2, <3>3, <2>1 DEF Placed
  <2>. QED BY <2>3, <2>4
<1>10. \A v \in Uploader : upload_at'[v] # "idle" => Placed(v)'
  <2>1. \A v \in Uploader : NameFor(v)' \in suspect' => Placed(v)'
    BY DEF Placed
  <2>. QED BY <2>1, <1>3, <1>9
<1>. QED BY <1>5, <1>6, <1>7, <1>8, <1>10 DEF UploadInv

\* The steps of an uploader that leave the copy and the image as they are.
LEMMA ComparesKeep ==
  ASSUME UploadInv, NEW u \in Uploader, CompareDate(u) \/ CompareHash(u) \/ SendFile(u)
  PROVE  UploadInv'
<1>1. UploadTypes
  BY DEF UploadInv
<1>2. /\ UNCHANGED <<disk, file, store, unpacked, suspect, upload_disturbed>>
      /\ Active(u)
      /\ upload_at[u] # "idle"
  BY DEF CompareDate, CompareHash, SendFile, UploadStep, Same, SameHistory, Active, Resting
<1>3. PICK place \in {"remove", "hash", "uploaded", "clear"} :
        upload_at' = [upload_at EXCEPT ![u] = place]
  BY DEF CompareDate, CompareHash, SendFile, UploadStep, UploadGoto
<1>4. /\ upload_at'[u] = place
      /\ \A v \in Uploader : v # u => upload_at'[v] = upload_at[v]
  BY <1>1, <1>3 DEF UploadTypes
<1>5. /\ DOMAIN last_modified' = Uploader
      /\ \A v \in Uploader \ {u} : last_modified'[v] = last_modified[v]
  BY <1>1 DEF UploadTypes, CompareDate, CompareHash, SendFile, Same
<1>6. /\ NameFor(u)' = NameFor(u) /\ ContentFor(u)' = ContentFor(u)
      /\ Copied(u)' = Copied(u) /\ AsUnpacked(u)' = AsUnpacked(u)
  BY <1>2 DEF NameFor, ContentFor, Copied, AsUnpacked
<1>7. /\ file[u] \in File
      /\ NameFor(u) \in Name
      /\ disk[file[u]] \in AllTimes
      /\ ArchiveName(NameFor(u)) => file[u] \in Image
  BY <1>1, <1>2, NamesOfFiles DEF UploadTypes, NameFor
<1>8. ContentFor(u) \notin {"part", "none"}
  BY <1>7, NamesOfFiles DEF ContentFor
<1>. DEFINE n == NameFor(u)
<1>9. ASSUME n \notin suspect
      PROVE  TimeIsTrue(n) /\ UnpackedIsTrue(n) /\ Placed(u)
  BY <1>2, <1>7, <1>9 DEF UploadInv
\* Nobody else is between a copy and the removal of the image.
<1>10. ASSUME n \notin suspect, NEW v \in Uploader, v # u, NameFor(v) = n
       PROVE  upload_at[v] \notin {"stat", "send", "clear"}
  BY <1>2, <1>10 DEF UploadInv, OneCopies, Active, Resting
<1>11. ASSUME n \notin suspect, ArchiveName(n), upload_at[u] \in {"date", "hash"},
              store[n].content \notin {"part", "none"}
       PROVE  unpacked[n] \in {"none", store[n].content}
  <2>1. \A v \in Uploader : ~(upload_at[v] \in {"stat", "send", "clear"} /\ NameFor(v) = n)
    BY <1>10, <1>11
  <2>. QED BY <1>9, <1>11, <2>1 DEF UnpackedIsTrue
<1>12. ASSUME n \notin suspect
       PROVE  TimeIsTrue(n)' /\ UnpackedIsTrue(n)'
  <2>1. TimeIsTrue(n)'
    BY <1>2, <1>6, <1>9, <1>12 DEF TimeIsTrue
  <2>2. CASE SendFile(u)
    <3>1. upload_at[u] = "send" /\ place = IF file[u] \in Image THEN "clear" ELSE "uploaded"
      BY <1>1, <1>3, <2>2, <1>4 DEF SendFile, UploadStep, UploadGoto, UploadTypes
    <3>2. ArchiveName(n) => upload_at'[u] \in {"stat", "send", "clear"} /\ NameFor(u)' = n
      BY <1>4, <1>6, <1>7, <3>1
    <3>. QED BY <2>1, <3>2, <1>6 DEF UnpackedIsTrue
  <2>3. CASE ~SendFile(u)
    <3>1. upload_at[u] \in {"date", "hash"}
      BY <2>3 DEF CompareDate, CompareHash, UploadStep
    <3>2. \/ store[n].content \in {"part", "none"}
          \/ ~ArchiveName(n)
          \/ unpacked[n] \in {"none", store[n].content}
      BY <3>1, <1>11, <1>12
    <3>. QED BY <2>1, <3>2, <1>2, <1>6 DEF UnpackedIsTrue
  <2>. QED BY <2>2, <2>3
<1>13. ASSUME n \notin suspect
       PROVE  Placed(u)'
  <2>1. CASE CompareDate(u)
    <3>1. /\ upload_at[u] = "date"
          /\ place = IF NotUploaded(u) THEN "remove"
                     ELSE IF DateDiffers(u) THEN "hash" ELSE "uploaded"
      BY <1>1, <1>3, <1>4, <2>1 DEF CompareDate, UploadStep, UploadGoto, UploadTypes
    <3>2. CASE NotUploaded(u)
      BY <1>4, <3>1, <3>2 DEF Placed
    <3>3. CASE ~NotUploaded(u) /\ DateDiffers(u)
      <4>1. place = "hash"
        BY <3>1, <3>3
      <4>2. file[u] \in Image => unpacked[n] # "none"
        BY <3>3 DEF NotUploaded
      <4>. QED BY <4>1, <4>2, <1>2, <1>4, <1>6 DEF Placed
    <3>4. CASE ~NotUploaded(u) /\ ~DateDiffers(u)
      <4>1. place = "uploaded"
        BY <3>1, <3>4
      <4>2. ASSUME u \notin upload_disturbed
            PROVE  Copied(u) /\ AsUnpacked(u)
        <5>1. last_modified[u] = disk[file[u]]
          BY <4>2, <1>9, <1>13, <3>1 DEF Placed
        <5>2. store[n].time = disk[file[u]]
          BY <5>1, <3>4 DEF DateDiffers
        <5>3. store[n].content = ContentFor(u)
          BY <5>2, <1>7, <1>9, <1>13 DEF TimeIsTrue, ContentFor
        <5>4. ASSUME file[u] \in Image
              PROVE  unpacked[n] = ContentFor(u)
          <6>1. unpacked[n] # "none"
            BY <3>4, <5>4 DEF NotUploaded
          <6>2. ArchiveName(n)
            BY <5>4 DEF ArchiveName, NameFor
          <6>. QED BY <6>1, <6>2, <1>8, <1>11, <1>13, <3>1, <5>3
        <5>. QED BY <5>3, <5>4 DEF Copied, AsUnpacked
      <4>. QED BY <4>1, <4>2, <1>2, <1>4, <1>6 DEF Placed
    <3>. QED BY <3>2, <3>3, <3>4
  <2>2. CASE CompareHash(u)
    <3>1. /\ upload_at[u] = "hash"
          /\ place = IF ContentFor(u) # store[n].content THEN "remove" ELSE "uploaded"
      BY <1>1, <1>3, <1>4, <2>2 DEF CompareHash, UploadStep, UploadGoto, UploadTypes
    <3>2. CASE ContentFor(u) # store[n].content
      BY <1>4, <3>1, <3>2 DEF Placed
    <3>3. CASE ContentFor(u) = store[n].content
      <4>1. place = "uploaded"
        BY <3>1, <3>3
      <4>2. ASSUME file[u] \in Image
            PROVE  unpacked[n] = ContentFor(u)
        <5>1. unpacked[n] # "none"
          BY <4>2, <3>1, <1>9, <1>13 DEF Placed
        <5>2. ArchiveName(n)
          BY <4>2 DEF ArchiveName, NameFor
        <5>. QED BY <5>1, <5>2, <3>1, <3>3, <1>8, <1>11, <1>13
      <4>3. Copied(u) /\ AsUnpacked(u)
        BY <4>2, <3>3 DEF Copied, AsUnpacked
      <4>. QED BY <4>1, <4>3, <1>4, <1>6 DEF Placed
    <3>. QED BY <3>2, <3>3
  <2>3. CASE SendFile(u)
    <3>1. upload_at[u] = "send" /\ place = IF file[u] \in Image THEN "clear" ELSE "uploaded"
      BY <1>1, <1>3, <2>3, <1>4 DEF SendFile, UploadStep, UploadGoto, UploadTypes
    <3>2. u \notin upload_disturbed => Copied(u)
      BY <3>1, <1>9, <1>13 DEF Placed
    <3>3. file[u] \notin Image => AsUnpacked(u)
      BY DEF AsUnpacked
    <3>4. CASE file[u] \in Image
      BY <3>1, <3>2, <3>4, <1>2, <1>4, <1>6 DEF Placed
    <3>5. CASE file[u] \notin Image
      BY <3>1, <3>2, <3>3, <3>5, <1>2, <1>4, <1>6 DEF Placed
    <3>. QED BY <3>4, <3>5
  <2>. QED BY <2>1, <2>2, <2>3
<1>14. n \in suspect => Placed(u)'
  BY <1>2, <1>6 DEF Placed
<1>15. n \notin suspect' => TimeIsTrue(NameFor(u))' /\ UnpackedIsTrue(NameFor(u))'
  BY <1>2, <1>6, <1>12 DEF TimeIsTrue, UnpackedIsTrue
<1>16. UNCHANGED <<store, unpacked>> /\ suspect \subseteq suspect' /\ suspect' \subseteq Name
  BY <1>1, <1>2 DEF UploadTypes
<1>17. /\ store' \in [Name -> [content : Contents, time : {0, Now} \cup AllTimes]]
       /\ unpacked' \in [Name -> Contents]
  BY <1>1, <1>16 DEF UploadTypes
<1>18. Placed(u)'
  BY <1>13, <1>14
<1>. QED BY <1>2, <1>3, <1>5, <1>15, <1>16, <1>17, <1>18, OwnNameOnly

\* An uploader at work, its file and its name.
LEMMA AtWork ==
  ASSUME UploadInv, NEW u \in Uploader, Active(u)
  PROVE  /\ upload_at[u] # "idle"
         /\ file[u] \in File /\ NameFor(u) \in Name
         /\ disk[file[u]] \in AllTimes
         /\ ContentFor(u) \in Contents \ {"part", "none"}
         /\ ArchiveName(NameFor(u)) => file[u] \in Image
         /\ NameFor(u) \notin suspect =>
              TimeIsTrue(NameFor(u)) /\ UnpackedIsTrue(NameFor(u)) /\ Placed(u)
<1>1. upload_at[u] # "idle"
  BY DEF Active, Resting
<1>2. file[u] \in File /\ NameFor(u) \in Name /\ disk[file[u]] \in AllTimes
  BY <1>1, NamesOfFiles DEF UploadInv, UploadTypes, NameFor
<1>3. ContentFor(u) \in Contents \ {"part", "none"}
  BY <1>2, NamesOfFiles DEF ContentFor
<1>4. ArchiveName(NameFor(u)) => file[u] \in Image
  BY <1>2, NamesOfFiles DEF NameFor
<1>. QED BY <1>1, <1>2, <1>3, <1>4 DEF UploadInv

\* By itself before its copy is written, or after the old image is gone, it
\* finds beside a whole copy the image of that copy, if any.
LEMMA FindsItsImage ==
  ASSUME UploadInv, NEW u \in Uploader, Active(u), NameFor(u) \notin suspect,
         upload_at[u] \notin {"stat", "send", "clear"}
  PROVE  \/ store[NameFor(u)].content \in {"part", "none"}
         \/ ~ArchiveName(NameFor(u))
         \/ unpacked[NameFor(u)] \in {"none", store[NameFor(u)].content}
<1>1. UnpackedIsTrue(NameFor(u))
  BY AtWork
<1>2. ASSUME NEW v \in Uploader, NameFor(v) = NameFor(u)
      PROVE  upload_at[v] \notin {"stat", "send", "clear"}
  <2>1. CASE v = u
    BY <2>1
  <2>2. CASE v # u
    <3>1. ~Active(v)
      BY <1>2, <2>2 DEF UploadInv, OneCopies
    <3>. QED BY <3>1 DEF Active, Resting
  <2>. QED BY <2>1, <2>2
<1>. QED BY <1>1, <1>2 DEF UnpackedIsTrue


\* The old copy is removed, or stays.
LEMMA RemoveFileKeeps ==
  ASSUME UploadInv, NEW u \in Uploader, RemoveFile(u)
  PROVE  UploadInv'
<1>. DEFINE n == NameFor(u)
<1>1. UploadTypes
  BY DEF UploadInv
<1>2. /\ upload_at[u] = "remove" /\ Active(u) /\ upload_at[u] # "idle"
      /\ upload_at' = [upload_at EXCEPT ![u] = "copy"]
      /\ UNCHANGED <<disk, file, last_modified, upload_disturbed, suspect, unpacked>>
  BY DEF RemoveFile, UploadStep, UploadGoto, Same, SameHistory, Active, Resting
<1>3. upload_at'[u] = "copy"
  BY <1>1, <1>2 DEF UploadTypes
<1>4. /\ file[u] \in File /\ n \in Name
      /\ disk[file[u]] \in AllTimes
      /\ ContentFor(u) \in Contents \ {"part", "none"}
      /\ n \notin suspect => TimeIsTrue(n) /\ UnpackedIsTrue(n) /\ Placed(u)
  BY <1>2, AtWork
<1>5. NameFor(u)' = n /\ ContentFor(u)' = ContentFor(u)
  BY <1>2 DEF NameFor, ContentFor
<1>6. store' = [store EXCEPT ![n] = Nothing] \/ store' = store
  BY DEF RemoveFile
<1>7. /\ store' \in [Name -> [content : Contents, time : {0, Now} \cup AllTimes]]
      /\ unpacked' \in [Name -> Contents]
      /\ \A m \in Name : m # n => store'[m] = store[m] /\ unpacked'[m] = unpacked[m]
  BY <1>1, <1>2, <1>6, NamesOfFiles DEF UploadTypes
<1>8. store'[n] = Nothing \/ store'[n] = store[n]
  BY <1>1, <1>4, <1>6 DEF UploadTypes
<1>9. ASSUME n \notin suspect
      PROVE  /\ store'[n].time \in AllTimes => store'[n].content = ContentOf[store'[n].time]
             /\ \/ store'[n].content \in {"part", "none"}
                \/ ~ArchiveName(n)
                \/ unpacked'[n] \in {"none", store'[n].content}
  <2>1. CASE store'[n] = Nothing
    BY <2>1, NamesOfFiles DEF Nothing
  <2>2. CASE store'[n] = store[n]
    BY <2>2, <1>2, <1>4, <1>9, FindsItsImage DEF TimeIsTrue
  <2>. QED BY <1>8, <2>1, <2>2
<1>10. Placed(u)'
  BY <1>3 DEF Placed
<1>11. n \notin suspect' => TimeIsTrue(NameFor(u))' /\ UnpackedIsTrue(NameFor(u))'
  BY <1>2, <1>5, <1>9 DEF TimeIsTrue, UnpackedIsTrue
<1>12. DOMAIN last_modified' = Uploader /\ suspect' = suspect /\ suspect' \subseteq Name
  BY <1>1, <1>2 DEF UploadTypes
<1>. QED BY <1>7, <1>10, <1>2, <1>11, <1>12, OwnNameOnly


\* The copy is a part of a file, with a time that no file has.
LEMMA OpenCopyKeeps ==
  ASSUME UploadInv, NEW u \in Uploader, OpenCopy(u)
  PROVE  UploadInv'
<1>. DEFINE n == NameFor(u)
<1>1. UploadTypes
  BY DEF UploadInv
<1>2. /\ upload_at[u] = "copy" /\ Active(u) /\ upload_at[u] # "idle"
      /\ upload_at' = [upload_at EXCEPT ![u] = "write"]
      /\ UNCHANGED <<disk, file, last_modified, upload_disturbed, suspect, unpacked>>
  BY DEF OpenCopy, UploadStep, UploadGoto, Same, SameHistory, Active, Resting
<1>3. upload_at'[u] = "write"
  BY <1>1, <1>2 DEF UploadTypes
<1>4. /\ file[u] \in File /\ n \in Name
      /\ disk[file[u]] \in AllTimes
      /\ ContentFor(u) \in Contents \ {"part", "none"}
      /\ n \notin suspect => TimeIsTrue(n) /\ UnpackedIsTrue(n) /\ Placed(u)
  BY <1>2, AtWork
<1>5. NameFor(u)' = n /\ ContentFor(u)' = ContentFor(u)
  BY <1>2 DEF NameFor, ContentFor
<1>. DEFINE part == [content |-> "part", time |-> Now]
<1>6. store' = [store EXCEPT ![n] = part]
  BY DEF OpenCopy
<1>7. /\ store' \in [Name -> [content : Contents, time : {0, Now} \cup AllTimes]]
      /\ unpacked' \in [Name -> Contents]
      /\ \A m \in Name : m # n => store'[m] = store[m] /\ unpacked'[m] = unpacked[m]
  <2>1. part \in [content : Contents, time : {0, Now} \cup AllTimes]
    BY DEF Contents
  <2>. HIDE DEF part
  <2>. QED BY <2>1, <1>1, <1>2, <1>6 DEF UploadTypes
<1>8. store'[n] = part
  BY <1>1, <1>4, <1>6 DEF UploadTypes
<1>9. /\ store'[n].time \in AllTimes => store'[n].content = ContentOf[store'[n].time]
      /\ store'[n].content \in {"part", "none"}
  BY <1>8, NamesOfFiles
<1>10. Placed(u)'
  BY <1>3 DEF Placed
<1>11. n \notin suspect' => TimeIsTrue(NameFor(u))' /\ UnpackedIsTrue(NameFor(u))'
  BY <1>2, <1>5, <1>9 DEF TimeIsTrue, UnpackedIsTrue
<1>12. DOMAIN last_modified' = Uploader /\ suspect' = suspect /\ suspect' \subseteq Name
  BY <1>1, <1>2 DEF UploadTypes
<1>. QED BY <1>7, <1>10, <1>2, <1>11, <1>12, OwnNameOnly


\* The copy is whole, if it is still there.
LEMMA WriteCopyKeeps ==
  ASSUME UploadInv, NEW u \in Uploader, WriteCopy(u)
  PROVE  UploadInv'
<1>. DEFINE n == NameFor(u)
<1>1. UploadTypes
  BY DEF UploadInv
<1>2. /\ upload_at[u] = "write" /\ Active(u) /\ upload_at[u] # "idle"
      /\ upload_at' = [upload_at EXCEPT ![u] = "stat"]
      /\ UNCHANGED <<disk, file, last_modified, upload_disturbed, suspect, unpacked>>
  BY DEF WriteCopy, UploadStep, UploadGoto, Same, SameHistory, Active, Resting
<1>3. upload_at'[u] = "stat"
  BY <1>1, <1>2 DEF UploadTypes
<1>4. /\ file[u] \in File /\ n \in Name
      /\ disk[file[u]] \in AllTimes
      /\ ContentFor(u) \in Contents \ {"part", "none"}
      /\ n \notin suspect => TimeIsTrue(n) /\ UnpackedIsTrue(n) /\ Placed(u)
  BY <1>2, AtWork
<1>5. NameFor(u)' = n /\ ContentFor(u)' = ContentFor(u)
  BY <1>2 DEF NameFor, ContentFor
<1>. DEFINE whole == [content |-> ContentFor(u), time |-> Now]
<1>6. store' = IF store[n] = Nothing THEN store ELSE [store EXCEPT ![n] = whole]
  BY DEF WriteCopy
<1>7. /\ store' \in [Name -> [content : Contents, time : {0, Now} \cup AllTimes]]
      /\ unpacked' \in [Name -> Contents]
      /\ \A m \in Name : m # n => store'[m] = store[m] /\ unpacked'[m] = unpacked[m]
  <2>1. whole \in [content : Contents, time : {0, Now} \cup AllTimes]
    BY <1>4
  <2>. HIDE DEF whole
  <2>. QED BY <2>1, <1>1, <1>2, <1>6 DEF UploadTypes
<1>8. store'[n] = Nothing \/ store'[n] = whole
  <2>. HIDE DEF whole
  <2>. QED BY <1>1, <1>4, <1>6 DEF UploadTypes
<1>9. /\ store'[n].time \in AllTimes => store'[n].content = ContentOf[store'[n].time]
      /\ \E v \in Uploader : upload_at'[v] \in {"stat", "send", "clear"} /\ NameFor(v)' = n
  <2>1. store'[n].time \notin AllTimes
    BY <1>8, NamesOfFiles DEF Nothing
  <2>. QED BY <2>1, <1>3, <1>5
<1>10. Placed(u)'
  <2>1. store'[n] = Nothing \/ Copied(u)'
    BY <1>5, <1>8 DEF Copied
  <2>. QED BY <2>1, <1>3, <1>5 DEF Placed
<1>11. n \notin suspect' => TimeIsTrue(NameFor(u))' /\ UnpackedIsTrue(NameFor(u))'
  BY <1>2, <1>5, <1>9 DEF TimeIsTrue, UnpackedIsTrue
<1>12. DOMAIN last_modified' = Uploader /\ suspect' = suspect /\ suspect' \subseteq Name
  BY <1>1, <1>2 DEF UploadTypes
<1>. QED BY <1>7, <1>10, <1>2, <1>11, <1>12, OwnNameOnly

\* The copy is given the time of the file whose content it has.
LEMMA CopyStatKeeps ==
  ASSUME UploadInv, NEW u \in Uploader, CopyStat(u)
  PROVE  UploadInv'
<1>. DEFINE n == NameFor(u)
<1>1. UploadTypes
  BY DEF UploadInv
<1>2. /\ upload_at[u] = "stat" /\ Active(u) /\ upload_at[u] # "idle"
      /\ UNCHANGED <<disk, file, last_modified, upload_disturbed, suspect, unpacked>>
  BY DEF CopyStat, UploadStep, Same, SameHistory, Active, Resting
<1>. DEFINE place == IF store[n] = Nothing THEN "idle" ELSE "send"
            dated == [store[n] EXCEPT !.time = disk[file[u]]]
<1>3. /\ upload_at' = [upload_at EXCEPT ![u] = place]
      /\ store' = IF store[n] = Nothing THEN store ELSE [store EXCEPT ![n] = dated]
  BY DEF CopyStat, UploadStep, UploadGoto
<1>4. /\ file[u] \in File /\ n \in Name
      /\ disk[file[u]] \in AllTimes
      /\ ContentFor(u) \in Contents \ {"part", "none"}
      /\ n \notin suspect => TimeIsTrue(n) /\ UnpackedIsTrue(n) /\ Placed(u)
  BY <1>2, AtWork
<1>5. NameFor(u)' = n /\ ContentFor(u)' = ContentFor(u)
  BY <1>2 DEF NameFor, ContentFor
<1>6. store[n] \in [content : Contents, time : {0, Now} \cup AllTimes]
  BY <1>1, <1>4 DEF UploadTypes
<1>7. dated = [content |-> store[n].content, time |-> disk[file[u]]]
  BY <1>6
<1>8. /\ store' \in [Name -> [content : Contents, time : {0, Now} \cup AllTimes]]
      /\ unpacked' \in [Name -> Contents]
      /\ \A m \in Name : m # n => store'[m] = store[m] /\ unpacked'[m] = unpacked[m]
  <2>1. dated \in [content : Contents, time : {0, Now} \cup AllTimes]
    BY <1>4, <1>6, <1>7
  <2>. HIDE DEF dated
  <2>. QED BY <2>1, <1>1, <1>2, <1>3 DEF UploadTypes
<1>9. CASE store[n] = Nothing
  <2>1. upload_at' = [upload_at EXCEPT ![u] = "idle"] /\ store'[n] = Nothing
    BY <1>3, <1>9
  <2>2. n \notin suspect' => TimeIsTrue(NameFor(u))' /\ UnpackedIsTrue(NameFor(u))'
    BY <2>1, <1>5, NamesOfFiles DEF TimeIsTrue, UnpackedIsTrue, Nothing
  <2>3. DOMAIN last_modified' = Uploader /\ suspect' = suspect /\ suspect' \subseteq Name
    BY <1>1, <1>2 DEF UploadTypes
  <2>. QED BY <2>1, <2>2, <2>3, <1>2, <1>8, OwnNameOnly
<1>10. CASE store[n] # Nothing
  <2>1. upload_at' = [upload_at EXCEPT ![u] = "send"]
    BY <1>3, <1>10
  <2>2. store'[n] = [content |-> store[n].content, time |-> disk[file[u]]]
    <3>. HIDE DEF dated
    <3>. QED BY <1>1, <1>3, <1>4, <1>7, <1>10 DEF UploadTypes
  <2>3. upload_at'[u] = "send"
    BY <1>1, <2>1 DEF UploadTypes
  <2>4. n \notin suspect => store'[n].content = ContentFor(u)
    BY <2>2, <1>2, <1>4, <1>10 DEF Placed, Copied
  <2>5. n \notin suspect' => TimeIsTrue(NameFor(u))'
    BY <2>2, <2>4, <1>2, <1>5 DEF TimeIsTrue, ContentFor
  <2>6. UnpackedIsTrue(NameFor(u))'
    BY <2>3, <1>5 DEF UnpackedIsTrue
  <2>7. Placed(u)'
    BY <2>3, <2>4, <1>2, <1>5 DEF Placed, Copied
  <2>8. DOMAIN last_modified' = Uploader /\ suspect' = suspect /\ suspect' \subseteq Name
    BY <1>1, <1>2 DEF UploadTypes
  <2>. QED BY <2>1, <2>5, <2>6, <2>7, <2>8, <1>2, <1>8, OwnNameOnly
<1>. QED BY <1>9, <1>10


\* The old image is removed.
LEMMA ClearUnpackedKeeps ==
  ASSUME UploadInv, NEW u \in Uploader, ClearUnpacked(u)
  PROVE  UploadInv'
<1>. DEFINE n == NameFor(u)
<1>1. UploadTypes
  BY DEF UploadInv
<1>2. /\ upload_at[u] = "clear" /\ Active(u) /\ upload_at[u] # "idle"
      /\ upload_at' = [upload_at EXCEPT ![u] = "unpack"]
      /\ UNCHANGED <<disk, file, last_modified, upload_disturbed, suspect, store>>
  BY DEF ClearUnpacked, UploadStep, UploadGoto, Same, SameHistory, Active, Resting
<1>3. upload_at'[u] = "unpack"
  BY <1>1, <1>2 DEF UploadTypes
<1>4. /\ file[u] \in File /\ n \in Name
      /\ disk[file[u]] \in AllTimes
      /\ ContentFor(u) \in Contents \ {"part", "none"}
      /\ n \notin suspect => TimeIsTrue(n) /\ UnpackedIsTrue(n) /\ Placed(u)
  BY <1>2, AtWork
<1>5. NameFor(u)' = n /\ ContentFor(u)' = ContentFor(u)
  BY <1>2 DEF NameFor, ContentFor
<1>6. unpacked' = [unpacked EXCEPT ![n] = "none"]
  BY DEF ClearUnpacked
<1>7. /\ store' \in [Name -> [content : Contents, time : {0, Now} \cup AllTimes]]
      /\ unpacked' \in [Name -> Contents]
      /\ \A m \in Name : m # n => store'[m] = store[m] /\ unpacked'[m] = unpacked[m]
  <2>1. "none" \in Contents
    BY DEF Contents
  <2>. QED BY <2>1, <1>1, <1>2, <1>6 DEF UploadTypes
<1>8. unpacked'[n] = "none" /\ store'[n] = store[n]
  BY <1>1, <1>2, <1>4, <1>6 DEF UploadTypes
<1>9. n \notin suspect =>
        /\ store'[n].time \in AllTimes => store'[n].content = ContentOf[store'[n].time]
        /\ unpacked'[n] \in {"none", store'[n].content}
  BY <1>4, <1>8 DEF TimeIsTrue
<1>10. Placed(u)'
  <2>1. n \notin suspect /\ u \notin upload_disturbed => Copied(u)
    BY <1>2, <1>4 DEF Placed
  <2>2. n \notin suspect /\ u \notin upload_disturbed => Copied(u)'
    BY <2>1, <1>5, <1>8 DEF Copied
  <2>. QED BY <2>2, <1>2, <1>3, <1>5, <1>8 DEF Placed
<1>11. n \notin suspect' => TimeIsTrue(NameFor(u))' /\ UnpackedIsTrue(NameFor(u))'
  BY <1>2, <1>5, <1>9 DEF TimeIsTrue, UnpackedIsTrue
<1>12. DOMAIN last_modified' = Uploader /\ suspect' = suspect /\ suspect' \subseteq Name
  BY <1>1, <1>2 DEF UploadTypes
<1>. QED BY <1>7, <1>10, <1>2, <1>11, <1>12, OwnNameOnly


\* The copy is unpacked where the old image was removed.
LEMMA UnpackKeeps ==
  ASSUME UploadInv, NEW u \in Uploader, Unpack(u)
  PROVE  UploadInv'
<1>. DEFINE n == NameFor(u)
<1>1. UploadTypes
  BY DEF UploadInv
<1>2. /\ upload_at[u] = "unpack" /\ Active(u) /\ upload_at[u] # "idle"
      /\ upload_at' = [upload_at EXCEPT ![u] = "uploaded"]
      /\ UNCHANGED <<disk, file, last_modified, upload_disturbed, suspect, store>>
  BY DEF Unpack, UploadStep, UploadGoto, Same, SameHistory, Active, Resting
<1>3. upload_at'[u] = "uploaded"
  BY <1>1, <1>2 DEF UploadTypes
<1>4. /\ file[u] \in File /\ n \in Name
      /\ disk[file[u]] \in AllTimes
      /\ ContentFor(u) \in Contents \ {"part", "none"}
      /\ n \notin suspect => TimeIsTrue(n) /\ UnpackedIsTrue(n) /\ Placed(u)
  BY <1>2, AtWork
<1>5. NameFor(u)' = n /\ ContentFor(u)' = ContentFor(u)
  BY <1>2 DEF NameFor, ContentFor
<1>. DEFINE image == IF unpacked[n] = "none" THEN store[n].content ELSE unpacked[n]
<1>6. unpacked' = [unpacked EXCEPT ![n] = image]
  BY DEF Unpack
<1>7. /\ store' \in [Name -> [content : Contents, time : {0, Now} \cup AllTimes]]
      /\ unpacked' \in [Name -> Contents]
      /\ \A m \in Name : m # n => store'[m] = store[m] /\ unpacked'[m] = unpacked[m]
  <2>1. image \in Contents
    BY <1>1, <1>4 DEF UploadTypes
  <2>. HIDE DEF image
  <2>. QED BY <2>1, <1>1, <1>2, <1>6 DEF UploadTypes
<1>8. unpacked'[n] = image /\ store'[n] = store[n]
  <2>. HIDE DEF image
  <2>. QED BY <1>1, <1>2, <1>4, <1>6 DEF UploadTypes
<1>9. n \notin suspect =>
        /\ store'[n].time \in AllTimes => store'[n].content = ContentOf[store'[n].time]
        /\ unpacked'[n] \in {"none", store'[n].content}
  <2>1. n \notin suspect => unpacked[n] = "none"
    BY <1>2, <1>4 DEF Placed
  <2>. QED BY <2>1, <1>4, <1>8 DEF TimeIsTrue
<1>10. Placed(u)'
  <2>. SUFFICES ASSUME n \notin suspect, u \notin upload_disturbed
                PROVE  Copied(u)' /\ AsUnpacked(u)'
    BY <1>2, <1>3, <1>5 DEF Placed
  <2>1. Copied(u) /\ unpacked[n] = "none"
    BY <1>2, <1>4 DEF Placed
  <2>2. unpacked'[n] = ContentFor(u)
    BY <2>1, <1>8 DEF Copied
  <2>3. Copied(u)'
    BY <2>1, <1>5, <1>8 DEF Copied
  <2>4. AsUnpacked(u)'
    BY <2>2, <1>5 DEF AsUnpacked
  <2>. QED BY <2>3, <2>4
<1>11. n \notin suspect' => TimeIsTrue(NameFor(u))' /\ UnpackedIsTrue(NameFor(u))'
  BY <1>2, <1>5, <1>9 DEF TimeIsTrue, UnpackedIsTrue
<1>12. DOMAIN last_modified' = Uploader /\ suspect' = suspect /\ suspect' \subseteq Name
  BY <1>1, <1>2 DEF UploadTypes
<1>. QED BY <1>7, <1>10, <1>2, <1>11, <1>12, OwnNameOnly


\* A program that ends leaves what it was at, and a suspect archive.
LEMMA UploaderDies ==
  ASSUME UploadInv, NEW u \in Uploader, Die(u)
  PROVE  UploadInv'
<1>. DEFINE n == NameFor(u)
<1>1. UploadTypes
  BY DEF UploadInv
<1>2. /\ Active(u) /\ upload_at[u] # "idle"
      /\ upload_at' = [upload_at EXCEPT ![u] = "idle"]
      /\ UNCHANGED <<disk, file, last_modified, upload_disturbed, store, unpacked>>
  BY DEF Die, UploadGoto, Same, Active, Resting
<1>3. /\ suspect \subseteq suspect'
      /\ suspect' \subseteq suspect \cup {n}
      /\ upload_at[u] \in {"stat", "send", "clear", "unpack"} /\ file[u] \in Image => n \in suspect'
  BY DEF Die
<1>4. /\ n \in Name
      /\ ArchiveName(n) => file[u] \in Image
      /\ n \notin suspect => TimeIsTrue(n)
  BY <1>2, AtWork
<1>5. NameFor(u)' = n
  BY <1>2 DEF NameFor
<1>6. n \notin suspect' =>
        \/ store[n].content \in {"part", "none"}
        \/ ~ArchiveName(n)
        \/ unpacked[n] \in {"none", store[n].content}
  BY <1>2, <1>3, <1>4, FindsItsImage
<1>7. n \notin suspect' => TimeIsTrue(NameFor(u))' /\ UnpackedIsTrue(NameFor(u))'
  BY <1>2, <1>3, <1>4, <1>5, <1>6 DEF TimeIsTrue, UnpackedIsTrue
<1>8. /\ store' \in [Name -> [content : Contents, time : {0, Now} \cup AllTimes]]
      /\ unpacked' \in [Name -> Contents]
      /\ DOMAIN last_modified' = Uploader
      /\ suspect' \subseteq Name
  BY <1>1, <1>2, <1>3, <1>4 DEF UploadTypes
<1>. QED BY <1>2, <1>3, <1>7, <1>8, OwnNameOnly

\* An uploader comes to a file: it and those it meets on the name are
\* disturbed, and the name is suspect if one of them is still at work.
LEMMA GetTimeKeeps ==
  ASSUME UploadInv, NEW u \in Uploader, NEW f \in File, GetTime(u, f)
  PROVE  UploadInv'
<1>. DEFINE n == NameOf[f]
<1>1. UploadTypes
  BY DEF UploadInv
<1>2. /\ upload_at[u] \in Resting
      /\ upload_at' = [upload_at EXCEPT ![u] = "date"]
      /\ file' = [file EXCEPT ![u] = f]
      /\ last_modified' = [last_modified EXCEPT ![u] = disk[f]]
      /\ UNCHANGED <<disk, store, unpacked>>
  BY DEF GetTime, UploadGoto
<1>3. /\ upload_at'[u] = "date" /\ file'[u] = f /\ last_modified'[u] = disk[f]
      /\ \A v \in Uploader : v # u =>
           /\ upload_at'[v] = upload_at[v] /\ file'[v] = file[v]
           /\ last_modified'[v] = last_modified[v]
  BY <1>1, <1>2 DEF UploadTypes
<1>4. /\ NameFor(u)' = n /\ n \in Name
      /\ \A v \in Uploader : v # u => NameFor(v)' = NameFor(v) /\ ContentFor(v)' = ContentFor(v)
  BY <1>2, <1>3, NamesOfFiles DEF NameFor, ContentFor
<1>5. /\ suspect \subseteq suspect' /\ suspect' \subseteq Name
      /\ upload_disturbed \ {u} \subseteq upload_disturbed' /\ upload_disturbed' \subseteq Uploader
      /\ \A v \in Uploader : v # u /\ upload_at[v] # "idle" /\ NameFor(v) = n =>
           /\ v \in upload_disturbed' /\ u \in upload_disturbed'
           /\ upload_at[v] # "uploaded" => n \in suspect'
  <2>. DEFINE met == MeetsOn(u, n)
  <2>1. /\ upload_disturbed' = (upload_disturbed \ {u}) \cup met
                                 \cup (IF met = {} THEN {} ELSE {u})
        /\ suspect' = IF \A v \in met : upload_at[v] = "uploaded" THEN suspect
                      ELSE suspect \cup {n}
    BY DEF GetTime
  <2>2. met = {v \in Uploader \ {u} : upload_at[v] # "idle" /\ NameFor(v) = n}
    BY DEF MeetsOn
  <2>. HIDE DEF met
  <2>3. suspect \subseteq suspect' /\ suspect' \subseteq Name
    BY <2>1, <1>1, <1>4 DEF UploadTypes
  <2>4. upload_disturbed \ {u} \subseteq upload_disturbed' /\ upload_disturbed' \subseteq Uploader
    BY <2>1, <2>2, <1>1 DEF UploadTypes
  <2>. QED BY <2>1, <2>2, <2>3, <2>4
<1>6. UploadTypes'
  BY <1>1, <1>2, <1>3, <1>5 DEF UploadTypes
<1>7. OneCopies'
  <2>1. ASSUME NEW v \in Uploader, v # u, Active(v)', NameFor(v)' = n
        PROVE  n \in suspect'
    BY <2>1, <1>3, <1>4, <1>5 DEF Active, Resting
  <2>2. ASSUME NEW v \in Uploader, NEW w \in Uploader, v # u, w # u, v # w,
               Active(v)', Active(w)', NameFor(v)' = NameFor(w)'
        PROVE  NameFor(v)' \in suspect'
    <3>1. Active(v) /\ Active(w) /\ NameFor(v) = NameFor(w)
      BY <2>2, <1>3, <1>4 DEF Active
    <3>2. NameFor(v) \in suspect
      BY <3>1, <2>2 DEF UploadInv, OneCopies
    <3>. QED BY <3>2, <2>2, <1>4, <1>5
  <2>. QED BY <2>1, <2>2, <1>4 DEF OneCopies
<1>8. MetNone'
  <2>1. ASSUME NEW v \in Uploader \ {u}, upload_at'[v] # "idle", NameFor(v)' = n
        PROVE  u \in upload_disturbed' /\ v \in upload_disturbed'
    BY <2>1, <1>3, <1>4, <1>5
  <2>2. ASSUME NEW v \in Uploader \ {u}, v \notin upload_disturbed', upload_at'[v] # "idle",
               NEW w \in Uploader \ {u}, w # v, upload_at'[w] # "idle"
        PROVE  NameFor(w)' # NameFor(v)'
    <3>1. v \notin upload_disturbed /\ upload_at[v] # "idle" /\ upload_at[w] # "idle"
      BY <2>2, <1>3, <1>5
    <3>2. NameFor(w) # NameFor(v)
      BY <3>1, <2>2 DEF UploadInv, MetNone
    <3>. QED BY <3>2, <1>4
  <2>. QED BY <2>1, <2>2, <1>4 DEF MetNone
<1>9. ASSUME NEW m \in Name, m \notin suspect'
      PROVE  TimeIsTrue(m)' /\ UnpackedIsTrue(m)'
  <2>1. TimeIsTrue(m) /\ UnpackedIsTrue(m)
    BY <1>5, <1>9 DEF UploadInv
  <2>2. TimeIsTrue(m)'
    BY <2>1, <1>2 DEF TimeIsTrue
  <2>3. ASSUME NEW v \in Uploader, upload_at[v] \in {"stat", "send", "clear"}, NameFor(v) = m
        PROVE  upload_at'[v] \in {"stat", "send", "clear"} /\ NameFor(v)' = m
    <3>1. v # u
      BY <2>3, <1>2 DEF Resting
    <3>. QED BY <3>1, <2>3, <1>3, <1>4
  <2>4. UnpackedIsTrue(m)'
    BY <2>1, <2>3, <1>2 DEF UnpackedIsTrue
  <2>. QED BY <2>2, <2>4
<1>10. Placed(u)'
  BY <1>2, <1>3 DEF Placed
<1>11. ASSUME NEW v \in Uploader, v # u, upload_at'[v] # "idle"
       PROVE  Placed(v)'
  <2>1. Placed(v)
    BY <1>3, <1>11 DEF UploadInv
  <2>2. Copied(v)' = Copied(v) /\ AsUnpacked(v)' = AsUnpacked(v)
    BY <1>2, <1>3, <1>4, <1>11 DEF Copied, AsUnpacked
  <2>3. /\ NameFor(v) \in suspect => NameFor(v) \in suspect'
        /\ v \in upload_disturbed => v \in upload_disturbed'
    BY <1>5, <1>11
  <2>. QED BY <2>1, <2>2, <2>3, <1>2, <1>3, <1>4, <1>11 DEF Placed
<1>. QED BY <1>6, <1>7, <1>8, <1>9, <1>10, <1>11 DEF UploadInv

\* A file is changed: those at it are disturbed, and its name is suspect if
\* one of them is about to give its copy the time of the new version.
LEMMA EditKeeps ==
  ASSUME UploadInv, NEW f \in File, Edit(f)
  PROVE  UploadInv'
<1>1. UploadTypes
  BY DEF UploadInv
<1>2. UNCHANGED <<store, unpacked, upload_at, file, last_modified>>
  BY DEF Edit
<1>3. PICK t \in Versions[f] : disk' = [disk EXCEPT ![f] = t]
  BY DEF Edit
<1>4. /\ disk' \in [File -> AllTimes]
      /\ \A g \in File : g # f => disk'[g] = disk[g]
  <2>1. t \in AllTimes
    BY DEF AllTimes
  <2>. QED BY <2>1, <1>1, <1>3 DEF UploadTypes
<1>5. /\ suspect \subseteq suspect' /\ suspect' \subseteq Name
      /\ upload_disturbed \subseteq upload_disturbed' /\ upload_disturbed' \subseteq Uploader
      /\ \A v \in Uploader : file[v] = f /\ upload_at[v] # "idle" =>
           /\ v \in upload_disturbed'
           /\ upload_at[v] = "stat" => NameFor(v) \in suspect'
  <2>. DEFINE at_it == {u \in Uploader : file[u] = f /\ upload_at[u] # "idle"}
  <2>1. /\ upload_disturbed' = upload_disturbed \cup at_it
        /\ suspect' = IF \E u \in at_it : upload_at[u] = "stat"
                      THEN suspect \cup {NameOf[f]} ELSE suspect
    BY DEF Edit
  <2>. QED BY <2>1, <1>1, NamesOfFiles DEF UploadTypes, NameFor
<1>6. UploadTypes'
  BY <1>1, <1>2, <1>4, <1>5 DEF UploadTypes
<1>7. \A v : NameFor(v)' = NameFor(v)
  BY <1>2 DEF NameFor
<1>8. OneCopies'
  BY <1>2, <1>5, <1>7 DEF UploadInv, OneCopies, Active
<1>9. MetNone'
  BY <1>2, <1>5, <1>7 DEF UploadInv, MetNone
<1>10. ASSUME NEW m \in Name, m \notin suspect'
       PROVE  TimeIsTrue(m)' /\ UnpackedIsTrue(m)'
  <2>1. TimeIsTrue(m) /\ UnpackedIsTrue(m)
    BY <1>5, <1>10 DEF UploadInv
  <2>. QED BY <2>1, <1>2, <1>7 DEF TimeIsTrue, UnpackedIsTrue
<1>11. ASSUME NEW v \in Uploader, upload_at'[v] # "idle"
       PROVE  Placed(v)'
  <2>1. Placed(v)
    BY <1>2, <1>11 DEF UploadInv
  <2>2. CASE file[v] = f
    <3>1. v \in upload_disturbed' /\ (upload_at[v] = "stat" => NameFor(v) \in suspect')
      BY <2>2, <1>2, <1>5, <1>11
    <3>. QED BY <2>1, <3>1, <1>2, <1>5, <1>7 DEF Placed
  <2>3. CASE file[v] # f
    <3>1. disk'[file[v]] = disk[file[v]]
      BY <2>3, <1>1, <1>2, <1>4, <1>11 DEF UploadTypes
    <3>2. ContentFor(v)' = ContentFor(v)
      BY <3>1, <1>2 DEF ContentFor
    <3>3. Copied(v)' = Copied(v) /\ AsUnpacked(v)' = AsUnpacked(v)
      BY <3>2, <1>2, <1>7 DEF Copied, AsUnpacked
    <3>. QED BY <2>1, <3>1, <3>3, <1>2, <1>5, <1>7 DEF Placed
  <2>. QED BY <2>2, <2>3
<1>. QED BY <1>6, <1>8, <1>9, <1>10, <1>11 DEF UploadInv

LEMMA UploadStepInv == UploadInv /\ [UploadNext]_uploadVars => UploadInv'
<1>. SUFFICES ASSUME UploadInv, [UploadNext]_uploadVars PROVE UploadInv'
  OBVIOUS
<1>1. CASE UNCHANGED uploadVars
  BY <1>1 DEF uploadVars, UploadInv, UploadTypes, OneCopies, MetNone, TimeIsTrue,
              UnpackedIsTrue, Placed, Copied, AsUnpacked, Active, NameFor, ContentFor
<1>2. CASE UploadNext
  <2>1. ASSUME NEW u \in Uploader, CompareDate(u) \/ CompareHash(u) \/ SendFile(u)
        PROVE  UploadInv'
    BY <2>1, ComparesKeep
  <2>. QED BY <1>2, <2>1, EditKeeps, GetTimeKeeps, RemoveFileKeeps, OpenCopyKeeps, WriteCopyKeeps,
              CopyStatKeeps, ClearUnpackedKeeps, UnpackKeeps, UploaderDies DEF UploadNext
<1>. QED BY <1>1, <1>2

\* With any number of uploaders, files of one name, versions, edits and
\* programs that end early: an uploader that met no other, and whose file did
\* not change, leaves the store with the file as it is, unpacked if it is an
\* archive, unless the name's copy is suspect.
THEOREM StoreHoldsTheFile == UploadSpec => []StoreIsCurrent
<1>1. UploadInv => StoreIsCurrent
  BY DEF UploadInv, StoreIsCurrent, Placed, Copied, AsUnpacked
<1>. QED BY <1>1, UploadInitInv, UploadStepInv, PTL DEF UploadSpec
=============================================================================
