---------------------------- MODULE HelperExecution ----------------------------
(***************************************************************************)
(* "firewheel <helper>" (cli/helper.py, cli/executable_section.py,         *)
(* cli/executors, cli/host_accessor.py): the sections of the helper run    *)
(* one after another, each on all the hosts at once, out of a cache of the *)
(* helpers that every host keeps.  A host that answers 2 or 127 is taken   *)
(* to have no cache: the command line empties and fills the caches of all  *)
(* the hosts and runs the section there again.  Several command lines may  *)
(* be at work.                                                            *)
(***************************************************************************)
EXTENDS Naturals, FiniteSets

CONSTANTS
  Host,             \* the hosts of the group "compute"
  Session,          \* the command lines under way
  Sections,         \* session -> the number of RUN sections of its helper
  ExitCodes,        \* what a section may exit with
  MaxOutages        \* bound: times a host may be out of reach

ASSUME HelperAssumption == IsFiniteSet(Host)

VARIABLES
  cache,            \* hosts that have the cache directory
  helper_at,        \* session -> what it is doing
  section,          \* session -> the RUN section it is in
  left,             \* session -> the hosts it waits for in this step
  code,             \* session -> host -> exit code, in this section
  retrying,         \* session -> nodes_to_sync
  errors,           \* session -> section_failed_count
  ran,              \* history: session -> hosts where this section has started
  twice,            \* history: <<session, host>> where a section started again
                    \* after it had exited with another code than 2 or 127
  sound,            \* history: session -> every host has ended every section
                    \* so far with 0
  outages

helperVars == <<cache, helper_at, section, left, code, retrying, errors, ran, twice,
                sound, outages>>

Unreachable == 255
Missing == 127
codes_to_sync == {2, Missing}

HelperInit ==
  /\ cache \in SUBSET Host
  /\ helper_at = [s \in Session |-> "running"]
  /\ section = [s \in Session |-> 1]
  /\ left = [s \in Session |-> Host]
  /\ code = [s \in Session |-> [h \in Host |-> 0]]
  /\ retrying = [s \in Session |-> {}]
  /\ errors = [s \in Session |-> 0]
  /\ ran = [s \in Session |-> {}]
  /\ twice = {}
  /\ sound = [s \in Session |-> TRUE]
  /\ outages = 0

HelperGoto(s, step, hosts) ==
  /\ helper_at' = [helper_at EXCEPT ![s] = step]
  /\ left' = [left EXCEPT ![s] = hosts]

Answered(s, h) == left' = [left EXCEPT ![s] = @ \ {h}]

-----------------------------------------------------------------------------
(* run_command: the section on one host, whatever the others do *)

RunOn(s, h) ==
  /\ helper_at[s] \in {"running", "retrying"} /\ h \in left[s]
  /\ Answered(s, h)
  /\ \/ /\ h \in cache
        /\ \E c \in ExitCodes : code' = [code EXCEPT ![s][h] = c]
        /\ ran' = [ran EXCEPT ![s] = @ \cup {h}]
        /\ twice' = twice \cup {p \in {<<s, h>>} :
                               h \in ran[s] /\ code[s][h] \notin codes_to_sync}
        /\ UNCHANGED outages
     \/ /\ h \notin cache
        /\ code' = [code EXCEPT ![s][h] = Missing]
        /\ UNCHANGED <<ran, twice, outages>>
     \/ /\ outages < MaxOutages
        /\ outages' = outages + 1
        /\ code' = [code EXCEPT ![s][h] = Unreachable]
        /\ UNCHANGED <<ran, twice>>
  /\ UNCHANGED <<cache, helper_at, section, retrying, errors, sound>>

Failed(s, hosts, accepted) == {h \in hosts : code[s][h] \notin accepted}

nodes_to_sync(s) == {h \in Host : code[s][h] \in codes_to_sync}

\* Mutant: the hosts that answered are run again, too.
AllNodes(s) == Host

\* The nodes the section runs on again, after the sync.
RetryOn(s) == nodes_to_sync(s)

\* What a section in which some host failed for good returns.
fatal_error_count(s) == Cardinality(Failed(s, Host, {0} \cup codes_to_sync))

\* The next section, or the end; helper.run goes on after a failed section.
EndSection(s, failed) ==
  /\ errors' = [errors EXCEPT ![s] = @ + failed]
  /\ sound' = [sound EXCEPT ![s] = @ /\ \A h \in Host : code[s][h] = 0]
  /\ IF section[s] < Sections[s]
     THEN section' = [section EXCEPT ![s] = @ + 1] /\ HelperGoto(s, "running", Host)
     ELSE HelperGoto(s, "ended", {}) /\ UNCHANGED section
  /\ ran' = [ran EXCEPT ![s] = {}]
  /\ code' = [code EXCEPT ![s] = [h \in Host |-> 0]]
  /\ retrying' = [retrying EXCEPT ![s] = {}]
  /\ UNCHANGED <<cache, twice, outages>>

NothingToSync(s) ==
  /\ helper_at[s] = "running" /\ left[s] = {}
  /\ \/ nodes_to_sync(s) = {}
     \/ fatal_error_count(s) > 0
  /\ EndSection(s, fatal_error_count(s))

-----------------------------------------------------------------------------
(* sync *)

BeginSync(s) ==
  /\ helper_at[s] = "running" /\ left[s] = {}
  /\ nodes_to_sync(s) # {} /\ fatal_error_count(s) = 0
  /\ retrying' = [retrying EXCEPT ![s] = RetryOn(s)]
  /\ HelperGoto(s, "emptying", Host)
  /\ UNCHANGED <<cache, section, code, errors, ran, twice, sound, outages>>

\* rm -rf of the cache directory on a host.
Empty(s, h) ==
  /\ helper_at[s] = "emptying" /\ h \in left[s]
  /\ cache' = cache \ {h}
  /\ Answered(s, h)
  /\ UNCHANGED <<helper_at, section, code, retrying, errors, ran, twice, sound, outages>>

\* All the hosts have answered: the local copies are made and sent.
Emptying(s) ==
  /\ helper_at[s] = "emptying" /\ left[s] = {}
  /\ HelperGoto(s, "filling", Host)
  /\ UNCHANGED <<cache, section, code, retrying, errors, ran, twice, sound, outages>>

\* The copy to a host; it may fail, and sync's count of errors is not used.
Fill(s, h) ==
  /\ helper_at[s] = "filling" /\ h \in left[s]
  /\ Answered(s, h)
  /\ \/ cache' = cache \cup {h} /\ UNCHANGED outages
     \/ /\ outages < MaxOutages
        /\ outages' = outages + 1
        /\ UNCHANGED cache
  /\ UNCHANGED <<helper_at, section, code, retrying, errors, ran, twice, sound>>

Filled(s) ==
  /\ helper_at[s] = "filling" /\ left[s] = {}
  /\ HelperGoto(s, "retrying", retrying[s])
  /\ UNCHANGED <<cache, section, code, retrying, errors, ran, twice, sound, outages>>

\* Mutant: the codes that ask for a sync are no errors the second time either.
new_fatal_count(s) == Cardinality(Failed(s, retrying[s], {0} \cup codes_to_sync))

\* Every code but 0 of the second try is an error.
new_error_count(s) == Cardinality(Failed(s, retrying[s], {0}))

Retried(s) ==
  /\ helper_at[s] = "retrying" /\ left[s] = {}
  /\ EndSection(s, new_error_count(s))

-----------------------------------------------------------------------------

HelperStep(s) ==
  \/ NothingToSync(s) \/ BeginSync(s) \/ Emptying(s) \/ Filled(s) \/ Retried(s)
  \/ \E h \in Host : RunOn(s, h) \/ Empty(s, h) \/ Fill(s, h)

HelperNext == \E s \in Session : HelperStep(s)

HelperSpec == HelperInit /\ [][HelperNext]_helperVars

-----------------------------------------------------------------------------
(* Correctness *)

\* A helper that ends with no errors has ended every section with 0 on every
\* host, the second tries included (helper.run, run_command).
ZeroMeansAllDone ==
  \A s \in Session : helper_at[s] = "ended" /\ errors[s] = 0 => sound[s]

\* A section is not started again on a host where it has exited, unless with
\* a code that is taken for a missing cache: the hosts that have answered are
\* left out of the second try (run_command).
NotStartedAgain == twice = {}
=============================================================================
