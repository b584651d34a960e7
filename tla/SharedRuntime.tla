---------------------------- MODULE SharedRuntime ----------------------------
(***************************************************************************)
(* What the launchers do to the shared runtime ~/.kumiho/venv while they   *)
(* hold its lock: the virtual environment, the packages in it, the install *)
(* marker, the attestation that spares the next start a probe, and the     *)
(* alias through which Claude's hooks find their interpreter               *)
(* (_ensure_runtime, _provision and _migrate_plugin_data_venv_alias in     *)
(* claude/scripts/run_kumiho_mcp.py; _setup_venv_locked in setup.py).      *)
(*                                                                         *)
(* The lock is the mutex that module ProvisionLock shows it to be as long  *)
(* as nobody is robbed; a killed holder leaves it to be swept.  A package  *)
(* spec is an element of Text with the versions it accepts and the extras  *)
(* it names.                                                               *)
(***************************************************************************)
EXTENDS Naturals, FiniteSets

CONSTANTS
    Host,        \* "claude" and "codex": installs that share the runtime
    Actor,       \* <<host, role>>, role one of "server", "child", "wizard",
                 \* or "setup" (setup.py, which provisions by itself)
    Text,        \* package specs
    TextOf,      \* the package spec each actor works with
    Version,     \* versions of the packages, 0 (none) not among them
    Accepts,     \* the versions that satisfy a package spec
    Extras,      \* the distribution names and extras a package spec asks for
    SlowStart,   \* outcomes of the 5 s start-up probe: TRUE is a timeout
    Orphans,     \* does pip outlive its killed launcher (POSIX)
    NoOne,       \* the lock is free; no text
    Dead,        \* the lock of a killed process
    MaxEvents    \* bound: kills, failures, wizard runs and foreign installs

ASSUME ConstantsOK ==
    /\ Actor \subseteq Host \X {"server", "child", "wizard", "setup"}
    /\ \A a \in Actor : a[2] = "server" => <<a[1], "child">> \in Actor
    /\ TextOf \in [Actor -> Text]
    /\ Version \subseteq Nat \ {0}
    /\ Accepts \in [Text -> SUBSET Version]
    /\ SlowStart \subseteq BOOLEAN
    /\ Orphans \in BOOLEAN
    /\ MaxEvents \in Nat
    /\ {NoOne, Dead} \cap Actor = {}
    /\ NoOne \notin Text

VARIABLES
    lock,       \* the holder of the provisioning lock
    python,     \* "absent", "broken" (half-built) or "works"
    installed,  \* version of the packages in the venv, 0: none that probes well
    marker,     \* text of .installed-packages.txt, NoOne without the file
    attest,     \* package spec in .runtime-ready.json, NoOne without the file
    changed,    \* the files it fingerprints that were written since
    link,       \* CLAUDE_PLUGIN_DATA/venv: "absent", "legacy" or "alias"
    kept,       \* is there a venv.pre-shared backup
    pc,         \* where each actor is
    pip,        \* running pips: <<actor, does that actor still wait for it>>
    spent       \* number of events so far

runtime == <<python, installed, marker, attest, changed>>
alias == <<link, kept>>
vars == <<lock, runtime, alias, pc, pip, spent>>

PC == {"idle", "look", "probe", "busy", "wait", "recheck", "reserve", "take",
       "assess", "aside", "create", "creating", "pip", "installing", "verify",
       "marker", "attest", "alias", "renaming", "linking", "finish", "leave",
       "serving"}

TypeOK ==
    /\ lock \in Actor \cup {NoOne, Dead}
    /\ python \in {"absent", "broken", "works"}
    /\ installed \in Version \cup {0}
    /\ marker \in Text \cup {NoOne}
    /\ attest \in Text \cup {NoOne}
    /\ changed \subseteq {"site", "python", "marker"}
    /\ link \in {"absent", "legacy", "alias"}
    /\ kept \in BOOLEAN
    /\ pc \in [Actor -> PC]
    /\ pip \subseteq Actor \X BOOLEAN
    /\ spent \in 0..MaxEvents

(* Nothing yet, or a venv that an older release made.                       *)
Init ==
    /\ lock = NoOne
    /\ \/ python = "absent" /\ installed = 0
       \/ python = "works" /\ installed \in Version \cup {0}
    /\ marker = NoOne
    /\ attest = NoOne
    /\ changed = {}
    /\ link \in {"absent", "legacy"}
    /\ kept = FALSE
    /\ pc = [a \in Actor |-> "idle"]
    /\ pip = {}
    /\ spent = 0

Role(a) == a[2]
(* Mutant of Child: the reservation is made for no process at all.          *)
ChildUnknown(a) == <<a[1], "provisioner">>
Child(a) == <<a[1], "child">>
MakesAlias(a) == a[1] = "claude"
Free == lock \in {NoOne, Dead}

Become(a, s) == pc' = [pc EXCEPT ![a] = s]

Spend == spent < MaxEvents /\ spent' = spent + 1

----------------------------------------------------------------------------
(* Reading the runtime                                                      *)

Exists == python # "absent"

(* _runtime_attestation_matches, _runtime_fingerprint                       *)
Attested(t) ==
    /\ attest = t
    /\ marker = t
    /\ python = "works"
    /\ changed = {}

(* _installed_versions against the floors and ceilings of the spec          *)
Satisfied(t) == python = "works" /\ installed \in Accepts[t]

(* The marker counts for its names and extras, never for its versions.      *)
OtherExtras(t) == marker # NoOne /\ Extras[marker] # Extras[t]

(* _needs_install with a probe that answers in time                         *)
NeedsInstall(t) == OtherExtras(t) \/ ~Satisfied(t)

(* The start-up probe has five seconds, the wizard's sixty.                 *)
ProbeTimesOut(a) == IF Role(a) = "server" THEN SlowStart ELSE {FALSE}

Ready(a, slow) ==
    /\ Exists
    /\ Attested(TextOf[a]) \/ (~slow /\ ~NeedsInstall(TextOf[a]))

----------------------------------------------------------------------------
(* _ensure_runtime, before it holds the lock                                *)

StartServer(a) ==
    /\ Role(a) = "server"
    /\ pc[a] = "idle"
    /\ Become(a, "look")
    /\ UNCHANGED <<lock, runtime, alias, pip, spent>>

(* --provision or --self-test, which the onboarding of Codex starts         *)
StartWizard(a) ==
    /\ Role(a) = "wizard"
    /\ pc[a] = "idle"
    /\ Spend
    /\ Become(a, "look")
    /\ UNCHANGED <<lock, runtime, alias, pip>>

(* setup.py looks at nothing before it has the lock (_wait_for_provisioning,*)
(* setup_venv).                                                             *)
StartSetup(a) ==
    /\ Role(a) = "setup"
    /\ pc[a] = "idle"
    /\ Spend
    /\ Become(a, "take")
    /\ UNCHANGED <<lock, runtime, alias, pip>>

(* _provision_in_progress, which sweeps the lock of a dead owner            *)
Look(a) ==
    /\ pc[a] = "look"
    /\ lock' = IF lock = Dead THEN NoOne ELSE lock
    /\ Become(a, IF Free THEN "probe" ELSE "busy")
    /\ UNCHANGED <<runtime, alias, pip, spent>>

(* A locked runtime is not inspected, only its python looked for.           *)
SkipProbe(a) ==
    /\ pc[a] = "busy"
    /\ Become(a, IF Exists THEN "wait" ELSE "idle")
    /\ UNCHANGED <<lock, runtime, alias, pip, spent>>

Probe(a) ==
    /\ pc[a] = "probe"
    /\ \E slow \in ProbeTimesOut(a) :
          Become(a, IF Ready(a, slow) THEN "wait"
                    ELSE IF Role(a) = "server" THEN "reserve" ELSE "take")
    /\ UNCHANGED <<lock, runtime, alias, pip, spent>>

GiveUp(a) ==
    /\ pc[a] \in {"wait", "reserve", "take"}
    /\ ~Free
    /\ Become(a, "idle")
    /\ UNCHANGED <<lock, runtime, alias, pip, spent>>

----------------------------------------------------------------------------
(* The ready path: under the lock the runtime is judged again               *)

AcquireReady(a) ==
    /\ pc[a] = "wait"
    /\ Free
    /\ lock' = a
    /\ Become(a, "recheck")
    /\ UNCHANGED <<runtime, alias, pip, spent>>

(* Mutant: a runtime found ready before the lock was held is not judged     *)
(* again.                                                                   *)
RecheckNothing(a) ==
    /\ pc[a] = "recheck"
    /\ Become(a, IF Attested(TextOf[a]) THEN "alias" ELSE "marker")
    /\ UNCHANGED <<lock, runtime, alias, pip, spent>>

Recheck(a) ==
    /\ pc[a] = "recheck"
    /\ \E slow \in ProbeTimesOut(a) :
          Become(a, IF Attested(TextOf[a]) THEN "alias"
                    ELSE IF Ready(a, slow) THEN "marker" ELSE "leave")
    /\ UNCHANGED <<lock, runtime, alias, pip, spent>>

----------------------------------------------------------------------------
(* Provisioning: in a detached child, which takes the reservation over      *)
(* (_spawn_detached_provisioning), or in the wizard itself                  *)

Reserve(a) ==
    /\ pc[a] = "reserve"
    /\ Free
    /\ lock' = Child(a)
    /\ pc' = [pc EXCEPT ![a] = "idle", ![Child(a)] = "assess"]
    /\ UNCHANGED <<runtime, alias, pip, spent>>

Take(a) ==
    /\ pc[a] = "take"
    /\ Free
    /\ lock' = a
    /\ Become(a, "assess")
    /\ UNCHANGED <<runtime, alias, pip, spent>>

(* Mutant: the marker's text decides, not the installed versions.           *)
AssessByText(a) ==
    /\ pc[a] = "assess" /\ Role(a) # "setup"
    /\ Become(a, CASE python = "absent" -> "create"
                   [] python = "broken" -> "aside"
                   [] OTHER -> IF marker = TextOf[a] THEN "marker" ELSE "pip")
    /\ UNCHANGED <<lock, runtime, alias, pip, spent>>

(* A runtime that cannot even start is set aside, one without a python is   *)
(* created, an unsatisfied one is installed into.                           *)
Assess(a) ==
    /\ pc[a] = "assess" /\ Role(a) # "setup"
    /\ Become(a, CASE python = "absent" -> "create"
                   [] python = "broken" -> "aside"
                   [] OTHER -> IF NeedsInstall(TextOf[a]) THEN "pip" ELSE "marker")
    /\ UNCHANGED <<lock, runtime, alias, pip, spent>>

(* The unusable venv is renamed to venv.broken-*, packages and all.         *)
SetAside(a) ==
    /\ pc[a] = "aside"
    /\ python' = "absent"
    /\ installed' = 0
    /\ changed' = changed \cup {"python", "site"}
    /\ Become(a, "create")
    /\ UNCHANGED <<lock, marker, attest, alias, pip, spent>>

CreateVenv(a) ==
    /\ pc[a] = "create"
    /\ python' = "broken"
    /\ installed' = 0
    /\ changed' = changed \cup {"python", "site"}
    /\ Become(a, "creating")
    /\ UNCHANGED <<lock, marker, attest, alias, pip, spent>>

VenvCreated(a) ==
    /\ pc[a] = "creating"
    /\ python' = "works"
    /\ Become(a, "pip")
    /\ UNCHANGED <<lock, installed, marker, attest, changed, alias, pip, spent>>

(* The partial tree is removed again, so that the next start creates it.    *)
VenvFails(a) ==
    /\ pc[a] = "creating" /\ Role(a) # "setup"
    /\ Spend
    /\ python' = "absent"
    /\ Become(a, "leave")
    /\ UNCHANGED <<lock, installed, marker, attest, changed, alias, pip>>

(* From here until it ends pip may have removed what was installed.         *)
PipStarts(a) ==
    /\ pc[a] = "pip"
    /\ pip' = pip \cup {<<a, TRUE>>}
    /\ installed' \in {installed, 0}
    /\ changed' = changed \cup {"site"}
    /\ Become(a, "installing")
    /\ UNCHANGED <<lock, python, marker, attest, alias, spent>>

(* The launcher that waits for this pip goes on to s.                       *)
PipEnds(p, s) ==
    /\ pip' = pip \ {p}
    /\ IF p[2] THEN Become(p[1], s) ELSE UNCHANGED pc

PipSucceeds(p) ==
    /\ installed' \in Accepts[TextOf[p[1]]]
    /\ changed' = changed \cup {"site"}
    /\ PipEnds(p, "verify")
    /\ UNCHANGED <<lock, python, marker, attest, alias, spent>>

(* No network, a floor not yet published, a pip that was stopped.           *)
PipFails(p) ==
    /\ Spend
    /\ PipEnds(p, "leave")
    /\ UNCHANGED <<lock, runtime, alias>>

(* The probe after the install ignores the marker that is about to change.  *)
Verify(a) ==
    /\ pc[a] = "verify" /\ Role(a) # "setup"
    /\ Become(a, IF Satisfied(TextOf[a]) THEN "marker" ELSE "leave")
    /\ UNCHANGED <<lock, runtime, alias, pip, spent>>

WriteMarker(a) ==
    /\ pc[a] = "marker" /\ Role(a) # "setup"
    /\ marker' = TextOf[a]
    /\ changed' = changed \cup {"marker"}
    /\ Become(a, "attest")
    /\ UNCHANGED <<lock, python, installed, attest, alias, pip, spent>>

WriteAttestation(a) ==
    /\ pc[a] = "attest"
    /\ attest' = TextOf[a]
    /\ changed' = {}
    /\ Become(a, "alias")
    /\ UNCHANGED <<lock, python, installed, marker, alias, pip, spent>>

----------------------------------------------------------------------------
(* setup.py between the lock and the alias (_setup_venv_locked): as above,  *)
(* but for these steps.                                                     *)

(* A runtime that needs nothing is verified all the same.                   *)
SetupAssess(a) ==
    /\ pc[a] = "assess" /\ Role(a) = "setup"
    /\ Become(a, CASE python = "absent" -> "create"
                   [] python = "broken" -> "aside"
                   [] OTHER -> IF NeedsInstall(TextOf[a]) THEN "pip" ELSE "verify")
    /\ UNCHANGED <<lock, runtime, alias, pip, spent>>

(* A venv whose creation fails stays, half-built, to be set aside.          *)
SetupVenvFails(a) ==
    /\ pc[a] = "creating" /\ Role(a) = "setup"
    /\ Spend
    /\ Become(a, "leave")
    /\ UNCHANGED <<lock, runtime, alias, pip>>

(* The check imports the package, of whatever version it is.                *)
SetupVerify(a) ==
    /\ pc[a] = "verify" /\ Role(a) = "setup"
    /\ \/ Become(a, IF installed # 0 THEN "marker" ELSE "leave") /\ UNCHANGED spent
       \/ Spend /\ Become(a, "leave")
    /\ UNCHANGED <<lock, runtime, alias, pip>>

(* The marker, without an attestation; that it cannot be written is not     *)
(* fatal.                                                                   *)
SetupMarker(a) ==
    /\ pc[a] = "marker" /\ Role(a) = "setup"
    /\ \/ marker' = TextOf[a] /\ changed' = changed \cup {"marker"} /\ UNCHANGED spent
       \/ Spend /\ UNCHANGED <<marker, changed>>
    /\ Become(a, "alias")
    /\ UNCHANGED <<lock, python, installed, attest, alias, pip>>

SetupVenv(a) == SetupAssess(a) \/ SetupVenvFails(a) \/ SetupVerify(a) \/ SetupMarker(a)

----------------------------------------------------------------------------
(* _ensure_plugin_data_venv_alias, the last mutation under the lock         *)

(* Codex makes none; Claude's is there, or its migration is put off (the    *)
(* directory is busy, or the alias or the rename is refused).               *)
KeepAlias(a) ==
    /\ pc[a] = "alias"
    /\ ~MakesAlias(a) \/ link = "alias"
    /\ Become(a, "finish")
    /\ UNCHANGED <<lock, runtime, alias, pip, spent>>

DeferAlias(a) ==
    /\ pc[a] \in {"alias", "renaming"}
    /\ MakesAlias(a)
    /\ Spend
    /\ Become(a, "finish")
    /\ UNCHANGED <<lock, runtime, alias, pip>>

MakeAlias(a) ==
    /\ pc[a] = "alias"
    /\ MakesAlias(a)
    /\ link = "absent"
    /\ link' = "alias"
    /\ Become(a, "finish")
    /\ UNCHANGED <<lock, runtime, kept, pip, spent>>

(* The alias is built beside the legacy venv, in place of any leftover of   *)
(* an earlier attempt; nothing else reads it.                               *)
StageAlias(a) ==
    /\ pc[a] = "alias"
    /\ MakesAlias(a)
    /\ link = "legacy"
    /\ Become(a, "renaming")
    /\ UNCHANGED <<lock, runtime, alias, pip, spent>>

MoveLegacy(a) ==
    /\ pc[a] = "renaming"
    /\ link' = "absent"
    /\ kept' = TRUE
    /\ Become(a, "linking")
    /\ UNCHANGED <<lock, runtime, pip, spent>>

InstallAlias(a) ==
    /\ pc[a] = "linking"
    /\ link' = "alias"
    /\ Become(a, "finish")
    /\ UNCHANGED <<lock, runtime, kept, pip, spent>>

(* The second rename fails: the legacy venv is put back, or that fails too.  *)
RestoreLegacy(a) ==
    /\ pc[a] = "linking"
    /\ Spend
    /\ link' \in {"legacy", "absent"}
    /\ kept' = (link' = "absent")
    /\ Become(a, "finish")
    /\ UNCHANGED <<lock, runtime, pip>>

----------------------------------------------------------------------------

Release(a) == lock' = IF lock = a THEN NoOne ELSE lock

Finish(a) ==
    /\ pc[a] = "finish"
    /\ Release(a)
    /\ Become(a, IF Role(a) = "server" THEN "serving" ELSE "idle")
    /\ UNCHANGED <<runtime, alias, pip, spent>>

Leave(a) ==
    /\ pc[a] = "leave"
    /\ Release(a)
    /\ Become(a, "idle")
    /\ UNCHANGED <<runtime, alias, pip, spent>>

Stop(a) ==
    /\ pc[a] = "serving"
    /\ Become(a, "idle")
    /\ UNCHANGED <<lock, runtime, alias, pip, spent>>

----------------------------------------------------------------------------
(* The environment                                                          *)

(* A killed holder leaves a lock that the next one sweeps; its pip dies     *)
(* with it (a job object on Windows) or goes on in its own session.         *)
Kill(a) ==
    /\ pc[a] \notin {"idle", "serving"}
    /\ Spend
    /\ lock' = IF lock = a THEN Dead ELSE lock
    /\ pip' = (pip \ {<<a, TRUE>>})
              \cup (IF Orphans /\ <<a, TRUE>> \in pip THEN {<<a, FALSE>>} ELSE {})
    /\ Become(a, "idle")
    /\ UNCHANGED <<runtime, alias>>

(* An older Desktop updates, or fails to update, the packages: it holds the *)
(* lock beside its alias, so never while a launcher works.                  *)
Desktop ==
    /\ Free
    /\ python = "works"
    /\ Spend
    /\ installed' \in Version \cup {0}
    /\ changed' = changed \cup {"site"}
    /\ UNCHANGED <<lock, python, marker, attest, alias, pc, pip>>

Work(a) ==
    \/ Look(a) \/ SkipProbe(a) \/ Probe(a) \/ GiveUp(a)
    \/ AcquireReady(a) \/ Recheck(a) \/ Reserve(a) \/ Take(a)
    \/ Assess(a) \/ SetAside(a) \/ CreateVenv(a) \/ VenvCreated(a) \/ VenvFails(a)
    \/ PipStarts(a) \/ Verify(a)
    \/ WriteMarker(a) \/ WriteAttestation(a)
    \/ KeepAlias(a) \/ DeferAlias(a) \/ MakeAlias(a)
    \/ StageAlias(a) \/ MoveLegacy(a) \/ InstallAlias(a) \/ RestoreLegacy(a)
    \/ Finish(a) \/ Leave(a) \/ SetupVenv(a)

Next ==
    \/ \E a \in Actor : StartServer(a) \/ StartWizard(a) \/ StartSetup(a) \/ Work(a) \/ Stop(a) \/ Kill(a)
    \/ \E p \in pip : PipSucceeds(p) \/ PipFails(p)
    \/ Desktop

Spec == Init /\ [][Next]_vars

(* A launched process runs on, and a user whose server is not serving       *)
(* reconnects it.  Nobody has to start a wizard or stop a server.           *)
Fairness ==
    /\ \A a \in Actor : WF_vars(StartServer(a)) /\ WF_vars(Work(a))
    /\ WF_vars(\E p \in pip : PipSucceeds(p) \/ PipFails(p))

FairSpec == Spec /\ Fairness

----------------------------------------------------------------------------
(* Properties                                                               *)

Committed == {"marker", "attest", "alias", "renaming", "linking", "finish"}

(* Whoever records the runtime as good, or goes on to serve from it, holds  *)
(* one that satisfies its package spec at that moment, whatever was killed, *)
(* failed or was updated behind its back before (_ensure_runtime's probe    *)
(* under the lock; the verification at the end of _provision).              *)
ReadyIsSatisfied ==
    \A a \in Actor : pc[a] \in Committed => lock = a /\ Satisfied(TextOf[a])

(* An attestation that still matches never hides a runtime that a full      *)
(* probe would reject ("Cheap mutation fingerprint for a runtime that       *)
(* passed a full probe").                                                   *)
AttestedIsSatisfied ==
    \A t \in Text : Attested(t) => Satisfied(t)

(* The records of the runtime are true: what is recorded, attested or about *)
(* to be served satisfies its package spec.                                 *)
RecordsAreTrue == ReadyIsSatisfied /\ AttestedIsSatisfied

(* Installs that share a runtime and ask for the same extras do not         *)
(* reinstall what already satisfies them, however their floors differ       *)
(* (_needs_install: two plugin copies rewrote each other's marker and       *)
(* reinstalled at every launch; oauth_package_spec: "it will not reinstall  *)
(* at the next start").                                                     *)
NoThrash ==
    [][\A a \in Actor :
          pc[a] = "pip" /\ pc'[a] = "installing"
          => ~Satisfied(TextOf[a]) \/ OtherExtras(TextOf[a])]_vars

(* "a healthy but slow shared runtime does not enter an endless five-second *)
(* background-handoff loop" (_provision): servers come to serve, again and  *)
(* again, even when every start-up probe times out.                         *)
KeepsServing ==
    []<>(\E a \in Actor : pc[a] = "serving")

(* Servers come to serve again and again, and without installing again.     *)
ServesWithoutThrash == KeepsServing /\ NoThrash

(* "never an absent path that neither .mcp.json nor a hook could start      *)
(* from" (_migrate_plugin_data_venv_alias): with its legacy venv moved      *)
(* aside, the hook path is empty only while its migrator is alive.          *)
HookPathPresent ==
    link = "absent" /\ kept => \E a \in Actor : pc[a] = "linking"

(* "the one operation here that MUST NOT run twice at once: two pip install *)
(* runs against a single venv interleave their writes"                      *)
(* (_provision_in_progress).                                                *)
PipNeverTwice == Cardinality(pip) <= 1

=============================================================================
