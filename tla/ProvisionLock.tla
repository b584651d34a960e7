---------------------------- MODULE ProvisionLock ----------------------------
(***************************************************************************)
(* The lock files that keep every host out of the shared Python runtime    *)
(* ~/.kumiho/venv while one of them changes it                             *)
(* (claude/scripts/run_kumiho_mcp.py).                                     *)
(*                                                                         *)
(* A launcher lists the aliases through which an older Kumiho Desktop      *)
(* reaches the same venv, creates the canonical provision.lock with O_EXCL *)
(* and then one legacy lock beside every alias on the list.  Only the file *)
(* system is shared: every check and the unlink, rename or write it        *)
(* licenses are separate steps here, as they are separate system calls     *)
(* there.  The checks before one unlink (stat, read, probe the owner, stat *)
(* and read again) are one step: an owner found dead stays dead, and a     *)
(* record is written once, so the last check decides.                      *)
(*                                                                         *)
(* A process id stands for a process and its birth time (process_start).   *)
(* A token is the id of the process that made the reservation.             *)
(***************************************************************************)
EXTENDS Naturals, FiniteSets

CONSTANTS
    Proc,        \* launcher and provisioning processes
    Desktop,     \* older Kumiho Desktop processes, which know only the legacy locks
    Compat,      \* the legacy lock paths, one beside each possible alias
    Canonical,   \* the path ~/.kumiho/provision.lock
    None,        \* no process, no token
    MaxCrash,    \* bound: how many processes are killed
    MaxAge       \* bound: how many half-written locks outlive PROVISION_LOCK_STALE_S

ASSUME NamesDistinct ==
    /\ Canonical \notin Compat
    /\ None \notin Proc \cup Desktop
    /\ Proc \cap Desktop = {}
    /\ {"unwritten", "migration", "legacy"} \cap (Proc \cup {None}) = {}

ASSUME BoundsNat == MaxCrash \in Nat /\ MaxAge \in Nat

VARIABLES
    file,     \* what each lock path holds
    stale,    \* half-written lock files older than PROVISION_LOCK_STALE_S
    aliased,  \* the legacy paths whose alias resolves to the shared venv now
    pc,       \* where each launcher process is
    tok,      \* the reservation token each process works with
    frozen,   \* the legacy locks each process decided to hold
    todo,     \* those it still has to visit in its current loop
    got,      \* those it has acquired (acquired in _acquire_desktop_compat_locks)
    at,       \* the path its pending write, swap or unlink is about
    ret,      \* where it continues after that unlink ("idle" when there is none)
    att,      \* removals so far in the current two-attempt loop
    child,    \* the detached child a parent waits for
    dpc,      \* what each Desktop does: in the shared venv, in a private one, or not in one
    dat,      \* the legacy lock a Desktop holds
    ages,     \* number of half-written locks that went stale
    stolen    \* history: <<p, x>> when p lost x, alive, since its attempt began

lvars == <<file, stale, aliased>>
pvars == <<pc, tok, frozen, todo, got, at, ret, att, child>>
dvars == <<dpc, dat>>
vars == <<lvars, pvars, dvars, ages, stolen>>

Path == {Canonical} \cup Compat
Token == Proc \cup {"unwritten", "migration", "legacy", None}
PC == {"idle", "boot", "acquire", "write", "compat", "writec", "undo", "denied",
       "owner", "await", "adopt", "swap", "inside", "commit", "writing",
       "prealias", "migrate", "aliasing", "unmigrate", "release", "releasec", "unlink", "done", "exited", "crashed"}

LockRecord == [pid: Proc \cup Desktop \cup {None}, tok: Token, targets: SUBSET Compat]
NoFile == [pid |-> None, tok |-> None, targets |-> {}]
Empty(p) == [pid |-> p, tok |-> "unwritten", targets |-> {}]
Record(p, t, ks) == [pid |-> p, tok |-> t, targets |-> ks]

(* _process_is_alive, for a launcher or a Desktop. *)
Alive(q) ==
    \/ q \in Proc /\ pc[q] \notin {"exited", "crashed"}
    \/ q \in Desktop /\ dpc[q] # "crashed"

(* Mutant of Abandoned: the owner of a written lock is never probed.        *)
AbandonedByAgeOnly(x) == x \in stale

(* _remove_abandoned_lock up to its unlink: the recorded owner is dead, or  *)
(* there is no readable owner and the file is older than the stale bound.   *)
Abandoned(x) ==
    IF file[x].tok = "unwritten"
    THEN x \in stale
    ELSE file[x] # NoFile /\ ~Alive(file[x].pid)

Owns(p, x) == file[x].pid = p /\ file[x].tok = tok[p]

OwnsBundle(p) == \A x \in {Canonical} \cup frozen[p] : Owns(p, x)

(* Whoever else is alive and loses x when p removes or replaces its file.   *)
Robbed(p, x) ==
    {<<q, x>> : q \in {r \in (Proc \cup Desktop) \ {p} :
                        file[x].pid = r /\ Alive(r)}}

(* A new attempt starts with a clean history.                               *)
Forget(q) == {s \in stolen : s[1] # q}

Become(p, s) == pc' = [pc EXCEPT ![p] = s]

TypeOK ==
    /\ file \in [Path -> LockRecord]
    /\ stale \subseteq Path
    /\ aliased \subseteq Compat
    /\ pc \in [Proc -> PC]
    /\ tok \in [Proc -> Proc \cup {None}]
    /\ frozen \in [Proc -> SUBSET Compat]
    /\ todo \in [Proc -> SUBSET Compat]
    /\ got \in [Proc -> SUBSET Compat]
    /\ at \in [Proc -> Path \cup {None}]
    /\ ret \in [Proc -> PC]
    /\ att \in [Proc -> 0..1]
    /\ child \in [Proc -> Proc \cup {None}]
    /\ dpc \in [Desktop -> {"out", "shared", "private", "crashed"}]
    /\ dat \in [Desktop -> Compat \cup {None}]
    /\ ages \in 0..MaxAge
    /\ stolen \subseteq (Proc \cup Desktop) \X Path

Init ==
    /\ file = [x \in Path |-> NoFile]
    /\ stale = {}
    /\ aliased \in SUBSET Compat
    /\ pc = [p \in Proc |-> "idle"]
    /\ tok = [p \in Proc |-> None]
    /\ frozen = [p \in Proc |-> {}]
    /\ todo = [p \in Proc |-> {}]
    /\ got = [p \in Proc |-> {}]
    /\ at = [p \in Proc |-> None]
    /\ ret = [p \in Proc |-> "idle"]
    /\ att = [p \in Proc |-> 0]
    /\ child = [p \in Proc |-> None]
    /\ dpc = [d \in Desktop |-> "out"]
    /\ dat = [d \in Desktop |-> None]
    /\ ages = 0
    /\ stolen = {}

----------------------------------------------------------------------------
(* Removing an abandoned lock: judged in one step, unlinked in another.     *)

(* A detached child finds the reservation its parent made for it.           *)
Reserved(p) == tok[p] # p /\ file[Canonical].tok = tok[p]

(* Where a process may run _remove_abandoned_lock on x: before it tries      *)
(* (_provision_in_progress), in the two-attempt loops over the canonical     *)
(* lock, a legacy lock, and the lock of an alias about to be made.           *)
MayJudge(p, x) ==
    \/ pc[p] = "idle" /\ x \in {Canonical} \cup aliased
    \/ pc[p] = "acquire" /\ x = Canonical /\ ~Reserved(p)
    \/ pc[p] = "compat" /\ x \in todo[p]
    \/ pc[p] = "prealias" /\ x \in Compat \ aliased

Judge(p, x) ==
    /\ MayJudge(p, x)
    /\ Abandoned(x)
    /\ Become(p, "unlink")
    /\ at' = [at EXCEPT ![p] = x]
    /\ ret' = [ret EXCEPT ![p] = pc[p]]
    /\ UNCHANGED <<lvars, tok, frozen, todo, got, att, child, dvars, ages, stolen>>

(* Where a loop of two attempts ends after its second removal.              *)
LoopExhausted(s) ==
    CASE s = "acquire" -> "denied"
      [] s = "compat" -> "undo"
      [] OTHER -> s

(* Mutant of Unlink: the attempts are counted on across loops.              *)
UnlinkWithoutReset(p) ==
    /\ pc[p] = "unlink"
    /\ file' = [file EXCEPT ![at[p]] = NoFile]
    /\ stale' = stale \ {at[p]}
    /\ stolen' = stolen \cup Robbed(p, at[p])
    /\ Become(p, IF att[p] = 1 THEN LoopExhausted(ret[p]) ELSE ret[p])
    /\ att' = [att EXCEPT ![p] = @ + 1]
    /\ at' = [at EXCEPT ![p] = None]
    /\ ret' = [ret EXCEPT ![p] = "idle"]
    /\ UNCHANGED <<aliased, tok, frozen, todo, got, child, dvars, ages>>

Unlink(p) ==
    /\ pc[p] = "unlink"
    /\ file' = [file EXCEPT ![at[p]] = NoFile]
    /\ stale' = stale \ {at[p]}
    /\ stolen' = stolen \cup Robbed(p, at[p])
    /\ Become(p, IF att[p] = 1 THEN LoopExhausted(ret[p]) ELSE ret[p])
    /\ att' = [att EXCEPT ![p] = IF @ = 1 \/ ret[p] \notin {"acquire", "compat"} THEN 0 ELSE 1]
    /\ at' = [at EXCEPT ![p] = None]
    /\ ret' = [ret EXCEPT ![p] = "idle"]
    /\ UNCHANGED <<aliased, tok, frozen, todo, got, child, dvars, ages>>

(* p found its own lock at x, and unlinks it next; or goes on to s at once. *)
RemoveIf(own, p, x, s) ==
    /\ Become(p, IF own THEN "unlink" ELSE s)
    /\ at' = [at EXCEPT ![p] = IF own THEN x ELSE @]
    /\ ret' = [ret EXCEPT ![p] = IF own THEN s ELSE @]

----------------------------------------------------------------------------
(* _acquire_provision_lock                                                  *)

Launch(p) ==
    /\ pc[p] = "idle"
    /\ Become(p, "boot")
    /\ tok' = [tok EXCEPT ![p] = p]
    /\ UNCHANGED <<lvars, frozen, todo, got, at, ret, att, child, dvars, ages, stolen>>

(* The legacy locks are chosen before the canonical lock is asked for.      *)
FreezeTargets(p) ==
    /\ pc[p] = "boot"
    /\ Become(p, "acquire")
    /\ frozen' = [frozen EXCEPT ![p] = aliased]
    /\ att' = [att EXCEPT ![p] = 0]
    /\ UNCHANGED <<lvars, tok, todo, got, at, ret, child, dvars, ages, stolen>>

(* Mutant of CreateCanonical: O_CREAT without O_EXCL.                       *)
CreateCanonicalNotExclusive(p) ==
    /\ pc[p] = "acquire"
    /\ file' = [file EXCEPT ![Canonical] = Empty(p)]
    /\ Become(p, "write")
    /\ UNCHANGED <<stale, aliased, tok, frozen, todo, got, at, ret, att, child,
                   dvars, ages, stolen>>

CreateCanonical(p) ==
    /\ pc[p] = "acquire"
    /\ file[Canonical] = NoFile
    /\ file' = [file EXCEPT ![Canonical] = Empty(p)]
    /\ Become(p, "write")
    /\ UNCHANGED <<stale, aliased, tok, frozen, todo, got, at, ret, att, child,
                   dvars, ages, stolen>>

(* The record goes to the inode p created: nowhere if the path moved on.    *)
WriteCanonical(p) ==
    /\ pc[p] = "write"
    /\ file' = IF file[Canonical] = Empty(p)
               THEN [file EXCEPT ![Canonical] = Record(p, tok[p], frozen[p])]
               ELSE file
    /\ stale' = IF file[Canonical] = Empty(p) THEN stale \ {Canonical} ELSE stale
    /\ Become(p, "compat")
    /\ todo' = [todo EXCEPT ![p] = frozen[p]]
    /\ got' = [got EXCEPT ![p] = {}]
    /\ att' = [att EXCEPT ![p] = 0]
    /\ UNCHANGED <<aliased, tok, frozen, at, ret, child, dvars, ages, stolen>>

WriteCanonicalFails(p) ==
    /\ pc[p] = "write"
    /\ RemoveIf(file[Canonical] = Empty(p), p, Canonical, "denied")
    /\ UNCHANGED <<lvars, tok, frozen, todo, got, att, child, dvars, ages, stolen>>

(* Somebody else's live (or freshly created) reservation.                   *)
CanonicalBusy(p) ==
    /\ pc[p] = "acquire"
    /\ file[Canonical] # NoFile
    /\ ~Abandoned(Canonical)
    /\ ~Reserved(p)
    /\ Become(p, "denied")
    /\ UNCHANGED <<lvars, tok, frozen, todo, got, at, ret, att, child, dvars,
                   ages, stolen>>

(* Mutant of CreateCompat: O_CREAT without O_EXCL.                          *)
CreateCompatNotExclusive(p, k) ==
    /\ pc[p] = "compat"
    /\ k \in todo[p]
    /\ file' = [file EXCEPT ![k] = Empty(p)]
    /\ Become(p, "writec")
    /\ at' = [at EXCEPT ![p] = k]
    /\ UNCHANGED <<stale, aliased, tok, frozen, todo, got, ret, att, child,
                   dvars, ages, stolen>>

(* _acquire_desktop_compat_locks, one legacy lock at a time.                *)
CreateCompat(p, k) ==
    /\ pc[p] = "compat"
    /\ k \in todo[p]
    /\ file[k] = NoFile
    /\ file' = [file EXCEPT ![k] = Empty(p)]
    /\ Become(p, "writec")
    /\ at' = [at EXCEPT ![p] = k]
    /\ UNCHANGED <<stale, aliased, tok, frozen, todo, got, ret, att, child,
                   dvars, ages, stolen>>

WriteCompat(p) ==
    LET k == at[p] IN
    /\ pc[p] = "writec"
    /\ file' = IF file[k] = Empty(p)
               THEN [file EXCEPT ![k] = Record(p, tok[p], frozen[p])] ELSE file
    /\ stale' = IF file[k] = Empty(p) THEN stale \ {k} ELSE stale
    /\ todo' = [todo EXCEPT ![p] = @ \ {k}]
    /\ got' = [got EXCEPT ![p] = @ \cup {k}]
    /\ att' = [att EXCEPT ![p] = 0]
    /\ Become(p, "compat")
    /\ UNCHANGED <<aliased, tok, frozen, at, ret, child, dvars, ages, stolen>>

(* A short write: the half-written legacy lock is not in `acquired`, so the *)
(* clean-up leaves it on disk.                                              *)
WriteCompatFails(p) ==
    /\ pc[p] = "writec"
    /\ Become(p, "undo")
    /\ UNCHANGED <<lvars, tok, frozen, todo, got, at, ret, att, child, dvars,
                   ages, stolen>>

CompatBusy(p, k) ==
    /\ pc[p] = "compat"
    /\ k \in todo[p]
    /\ file[k] # NoFile
    /\ ~Abandoned(k)
    /\ Become(p, "undo")
    /\ UNCHANGED <<lvars, tok, frozen, todo, got, at, ret, att, child, dvars,
                   ages, stolen>>

CompatComplete(p) ==
    /\ pc[p] = "compat"
    /\ todo[p] = {}
    /\ Become(p, "owner")
    /\ UNCHANGED <<lvars, tok, frozen, todo, got, at, ret, att, child, dvars,
                   ages, stolen>>

(* Roll back: the legacy locks with p's token, then the canonical one.      *)
UndoCompat(p, k) ==
    /\ pc[p] = "undo"
    /\ k \in got[p]
    /\ got' = [got EXCEPT ![p] = @ \ {k}]
    /\ RemoveIf(file[k].tok = tok[p], p, k, "undo")
    /\ UNCHANGED <<lvars, tok, frozen, todo, att, child, dvars, ages, stolen>>

UndoCanonical(p) ==
    /\ pc[p] = "undo"
    /\ got[p] = {}
    /\ RemoveIf(file[Canonical].tok = tok[p], p, Canonical, "denied")
    /\ UNCHANGED <<lvars, tok, frozen, todo, got, att, child, dvars, ages, stolen>>

(* The callers: most exit; the ready path asks again until its deadline     *)
(* (_acquire_provision_lock_with_wait).  A detached child never does.       *)
GiveUp(p) ==
    /\ pc[p] = "denied"
    /\ Become(p, "done")
    /\ UNCHANGED <<lvars, tok, frozen, todo, got, at, ret, att, child, dvars,
                   ages, stolen>>

Retry(p) ==
    /\ pc[p] = "denied"
    /\ tok[p] = p
    /\ Become(p, "boot")
    /\ stolen' = Forget(p)
    /\ UNCHANGED <<lvars, tok, frozen, todo, got, at, ret, att, child, dvars,
                   ages>>

----------------------------------------------------------------------------
(* The handoff to a detached child (_spawn_detached_provisioning) and the   *)
(* child's adoption of the bundle, legacy locks first.                      *)

Spawn(p, c) ==
    /\ pc[p] = "owner"
    /\ tok[p] = p
    /\ pc[c] = "idle"
    /\ pc' = [pc EXCEPT ![p] = "await", ![c] = "boot"]
    /\ child' = [child EXCEPT ![p] = c]
    /\ tok' = [tok EXCEPT ![c] = p]
    /\ UNCHANGED <<lvars, frozen, todo, got, at, ret, att, dvars, ages, stolen>>

SpawnFails(p) ==
    /\ pc[p] = "owner"
    /\ tok[p] = p
    /\ Become(p, "release")
    /\ UNCHANGED <<lvars, tok, frozen, todo, got, at, ret, att, child, dvars,
                   ages, stolen>>

(* The child takes over the bundle its parent froze, not its own choice.    *)
AdoptBegin(c) ==
    /\ pc[c] = "acquire"
    /\ Reserved(c)
    /\ frozen' = [frozen EXCEPT ![c] = file[Canonical].targets]
    /\ todo' = [todo EXCEPT ![c] = file[Canonical].targets]
    /\ Become(c, "adopt")
    /\ UNCHANGED <<lvars, tok, got, at, ret, att, child, dvars, ages, stolen>>

(* Mutant of AdoptCheck: the canonical lock may be taken over first.        *)
AdoptInAnyOrder(c, x) ==
    /\ pc[c] = "adopt"
    /\ x \in todo[c] \cup {Canonical}
    /\ Become(c, IF file[x].tok = tok[c] THEN "swap" ELSE "denied")
    /\ at' = [at EXCEPT ![c] = x]
    /\ UNCHANGED <<lvars, tok, frozen, todo, got, ret, att, child, dvars,
                   ages, stolen>>

(* The last ownership check before os.replace; the canonical lock is last.  *)
AdoptCheck(c, x) ==
    /\ pc[c] = "adopt"
    /\ IF todo[c] = {} THEN x = Canonical ELSE x \in todo[c]
    /\ Become(c, IF file[x].tok = tok[c] THEN "swap" ELSE "denied")
    /\ at' = [at EXCEPT ![c] = x]
    /\ UNCHANGED <<lvars, tok, frozen, todo, got, ret, att, child, dvars,
                   ages, stolen>>

(* os.replace puts the child's record at the path whatever is there by now. *)
AdoptSwap(c) ==
    LET x == at[c] IN
    /\ pc[c] = "swap"
    /\ file' = [file EXCEPT ![x] = Record(c, tok[c], frozen[c])]
    /\ stale' = stale \ {x}
    /\ stolen' = IF file[x].tok = tok[c] THEN stolen ELSE stolen \cup Robbed(c, x)
    /\ todo' = [todo EXCEPT ![c] = @ \ {x}]
    /\ Become(c, IF x = Canonical THEN "owner" ELSE "adopt")
    /\ UNCHANGED <<aliased, tok, frozen, got, at, ret, att, child, dvars, ages>>

AdoptFails(c) ==
    /\ pc[c] = "swap"
    /\ Become(c, "denied")
    /\ UNCHANGED <<lvars, tok, frozen, todo, got, at, ret, att, child, dvars,
                   ages, stolen>>

HandoffSeen(p) ==
    /\ pc[p] = "await"
    /\ file[Canonical].tok = tok[p]
    /\ file[Canonical].pid = child[p]
    /\ Become(p, "done")
    /\ UNCHANGED <<lvars, tok, frozen, todo, got, at, ret, att, child, dvars,
                   ages, stolen>>

(* Five seconds passed, or the child exited: it is killed if it still runs, *)
(* even when it adopted the lock after the parent's last look.              *)
HandoffFails(p) ==
    LET c == child[p] IN
    /\ pc[p] = "await"
    /\ pc' = [pc EXCEPT ![p] = "release",
                        ![c] = IF Alive(c) THEN "crashed" ELSE @]
    /\ UNCHANGED <<lvars, tok, frozen, todo, got, at, ret, att, child, dvars,
                   ages, stolen>>

----------------------------------------------------------------------------
(* The work under the lock.  _assert_provision_lock_owned runs a refresh of *)
(* the bundle before every mutation of the venv.                            *)

(* stable_owned and refresh_owned on every legacy lock ...                  *)
RefreshCompat(p) ==
    /\ pc[p] \in {"owner", "inside"}
    /\ Become(p, IF OwnsBundle(p) THEN "commit" ELSE "release")
    /\ UNCHANGED <<lvars, tok, frozen, todo, got, at, ret, att, child, dvars,
                   ages, stolen>>

(* Mutant of RefreshCanonical: only the legacy locks are checked.           *)
RefreshWithoutCheck(p) ==
    /\ pc[p] = "commit"
    /\ Become(p, "writing")
    /\ UNCHANGED <<lvars, tok, frozen, todo, got, at, ret, att, child, dvars,
                   ages, stolen>>

(* ... then on the canonical one, which commits the refresh.                *)
RefreshCanonical(p) ==
    /\ pc[p] = "commit"
    /\ Become(p, IF Owns(p, Canonical) THEN "writing" ELSE "release")
    /\ UNCHANGED <<lvars, tok, frozen, todo, got, at, ret, att, child, dvars,
                   ages, stolen>>

EndMutation(p) ==
    /\ pc[p] = "writing"
    /\ Become(p, "inside")
    /\ UNCHANGED <<lvars, tok, frozen, todo, got, at, ret, att, child, dvars,
                   ages, stolen>>

(* The heartbeat thread finds the bundle lost: bounded_proc stops pip.      *)
HeartbeatAborts(p) ==
    /\ pc[p] = "writing"
    /\ ~OwnsBundle(p)
    /\ Become(p, "release")
    /\ UNCHANGED <<lvars, tok, frozen, todo, got, at, ret, att, child, dvars,
                   ages, stolen>>

FinishWork(p) ==
    /\ pc[p] = "inside"
    /\ Become(p, "release")
    /\ UNCHANGED <<lvars, tok, frozen, todo, got, at, ret, att, child, dvars,
                   ages, stolen>>

(* _ensure_plugin_data_venv_alias: the last mutation of a start makes a      *)
(* private legacy venv an alias, under the lock that guards that venv.      *)
BeginAlias(p) ==
    /\ pc[p] = "writing"
    /\ Become(p, "prealias")
    /\ UNCHANGED <<lvars, tok, frozen, todo, got, at, ret, att, child, dvars,
                   ages, stolen>>

TakeMigrationLock(p, k) ==
    /\ pc[p] = "prealias"
    /\ k \in Compat \ aliased
    /\ file[k] = NoFile
    /\ file' = [file EXCEPT ![k] = Record(p, "migration", {})]
    /\ at' = [at EXCEPT ![p] = k]
    /\ Become(p, "migrate")
    /\ UNCHANGED <<stale, aliased, tok, frozen, todo, got, ret, att, child,
                   dvars, ages, stolen>>

(* That venv is in use: its migration is left to a later start.             *)
DeferAlias(p) ==
    /\ pc[p] = "prealias"
    /\ Become(p, "release")
    /\ UNCHANGED <<lvars, tok, frozen, todo, got, at, ret, att, child, dvars,
                   ages, stolen>>

(* Nothing to do any more, or the bundle is lost: straight to the release.  *)
CheckBeforeAlias(p) ==
    /\ pc[p] = "migrate"
    /\ Become(p, IF at[p] \notin aliased /\ OwnsBundle(p)
                 THEN "aliasing" ELSE "unmigrate")
    /\ UNCHANGED <<lvars, tok, frozen, todo, got, at, ret, att, child, dvars,
                   ages, stolen>>

MakeAlias(p) ==
    /\ pc[p] = "aliasing"
    /\ aliased' = aliased \cup {at[p]}
    /\ Become(p, "unmigrate")
    /\ UNCHANGED <<file, stale, tok, frozen, todo, got, at, ret, att, child,
                   dvars, ages, stolen>>

AliasFails(p) ==
    /\ pc[p] = "aliasing"
    /\ Become(p, "unmigrate")
    /\ UNCHANGED <<lvars, tok, frozen, todo, got, at, ret, att, child, dvars,
                   ages, stolen>>

ReleaseMigrationLock(p) ==
    LET k == at[p] IN
    /\ pc[p] = "unmigrate"
    /\ RemoveIf(file[k] = Record(p, "migration", {}), p, k, "release")
    /\ UNCHANGED <<lvars, tok, frozen, todo, got, att, child, dvars, ages, stolen>>

----------------------------------------------------------------------------
(* _release_provision_lock: the canonical lock names the legacy ones.       *)

(* Mutant of ReleaseCanonical: the legacy locks are forgotten.              *)
ReleaseCanonicalOnly(p) ==
    /\ pc[p] = "release"
    /\ todo' = [todo EXCEPT ![p] = {}]
    /\ RemoveIf(Owns(p, Canonical), p, Canonical, "releasec")
    /\ UNCHANGED <<lvars, tok, frozen, got, att, child, dvars, ages, stolen>>

(* With no canonical lock there is no list; an unreadable one falls back to *)
(* the aliases of the moment (_compat_locks_from_record).                   *)
ReleaseCanonical(p) ==
    LET f == file[Canonical] IN
    /\ pc[p] = "release"
    /\ todo' = [todo EXCEPT ![p] = CASE f = NoFile -> {}
                                     [] f.tok = "unwritten" -> aliased
                                     [] OTHER -> f.targets]
    /\ RemoveIf(Owns(p, Canonical), p, Canonical, "releasec")
    /\ UNCHANGED <<lvars, tok, frozen, got, att, child, dvars, ages, stolen>>

ReleaseCompat(p, k) ==
    /\ pc[p] = "releasec"
    /\ k \in todo[p]
    /\ todo' = [todo EXCEPT ![p] = @ \ {k}]
    /\ RemoveIf(Owns(p, k), p, k, "releasec")
    /\ UNCHANGED <<lvars, tok, frozen, got, att, child, dvars, ages, stolen>>

ReleaseComplete(p) ==
    /\ pc[p] = "releasec"
    /\ todo[p] = {}
    /\ Become(p, "done")
    /\ UNCHANGED <<lvars, tok, frozen, todo, got, at, ret, att, child, dvars,
                   ages, stolen>>

Exit(p) ==
    /\ pc[p] = "done"
    /\ Become(p, "exited")
    /\ UNCHANGED <<lvars, tok, frozen, todo, got, at, ret, att, child, dvars,
                   ages, stolen>>

----------------------------------------------------------------------------
(* The environment: kills, the passing of PROVISION_LOCK_STALE_S, and the   *)
(* older Desktop, which locks the path beside whatever venv it was given.   *)

Crashed == {p \in Proc : pc[p] = "crashed"} \cup {d \in Desktop : dpc[d] = "crashed"}

Crash(p) ==
    /\ pc[p] \notin {"idle", "done", "exited", "crashed"}
    /\ Cardinality(Crashed) < MaxCrash
    /\ Become(p, "crashed")
    /\ UNCHANGED <<lvars, tok, frozen, todo, got, at, ret, att, child, dvars,
                   ages, stolen>>

Age(x) ==
    /\ file[x].tok = "unwritten"
    /\ x \notin stale
    /\ ages < MaxAge
    /\ stale' = stale \cup {x}
    /\ ages' = ages + 1
    /\ UNCHANGED <<file, aliased, pvars, dvars, stolen>>

DesktopEnter(d, k) ==
    /\ dpc[d] = "out"
    /\ file[k] = NoFile
    /\ file' = [file EXCEPT ![k] = Record(d, "legacy", {})]
    /\ dpc' = [dpc EXCEPT ![d] = IF k \in aliased THEN "shared" ELSE "private"]
    /\ dat' = [dat EXCEPT ![d] = k]
    /\ UNCHANGED <<stale, aliased, pvars, ages, stolen>>

DesktopLeave(d) ==
    /\ dpc[d] \in {"shared", "private"}
    /\ file' = IF file[dat[d]] = Record(d, "legacy", {})
               THEN [file EXCEPT ![dat[d]] = NoFile] ELSE file
    /\ dpc' = [dpc EXCEPT ![d] = "out"]
    /\ dat' = [dat EXCEPT ![d] = None]
    /\ stolen' = Forget(d)
    /\ UNCHANGED <<stale, aliased, pvars, ages>>

DesktopCrash(d) ==
    /\ dpc[d] \in {"shared", "private"}
    /\ Cardinality(Crashed) < MaxCrash
    /\ dpc' = [dpc EXCEPT ![d] = "crashed"]
    /\ UNCHANGED <<lvars, pvars, dat, ages, stolen>>

Sweep(p) == (\E x \in Path : Judge(p, x)) \/ Unlink(p)

Acquire(p) ==
    \/ FreezeTargets(p) \/ CreateCanonical(p) \/ WriteCanonical(p)
    \/ CanonicalBusy(p) \/ CompatComplete(p) \/ UndoCanonical(p)
    \/ GiveUp(p) \/ Retry(p) \/ WriteCompat(p)
    \/ \E k \in Compat : CreateCompat(p, k) \/ CompatBusy(p, k) \/ UndoCompat(p, k)

Handoff(p) ==
    \/ \E c \in Proc \ {p} : Spawn(p, c)
    \/ AdoptBegin(p) \/ AdoptSwap(p) \/ HandoffSeen(p)
    \/ \E x \in Path : AdoptCheck(p, x)

Work(p) ==
    \/ RefreshCompat(p) \/ RefreshCanonical(p) \/ EndMutation(p)
    \/ FinishWork(p) \/ BeginAlias(p) \/ DeferAlias(p)
    \/ CheckBeforeAlias(p) \/ MakeAlias(p)
    \/ ReleaseMigrationLock(p) \/ HeartbeatAborts(p)
    \/ \E k \in Compat : TakeMigrationLock(p, k)

Release(p) ==
    \/ ReleaseCanonical(p) \/ ReleaseComplete(p)
    \/ \E k \in Compat : ReleaseCompat(p, k)

(* Steps a launcher takes by itself.                                        *)
Step(p) == Sweep(p) \/ Acquire(p) \/ Handoff(p) \/ Work(p) \/ Release(p)

(* A system call fails.                                                     *)
Failure(p) ==
    \/ WriteCanonicalFails(p) \/ WriteCompatFails(p) \/ AdoptFails(p)
    \/ SpawnFails(p) \/ HandoffFails(p) \/ AliasFails(p)

Environment ==
    \/ \E p \in Proc : Launch(p) \/ Exit(p) \/ Crash(p)
    \/ \E x \in Path : Age(x)
    \/ \E d \in Desktop :
          \/ DesktopLeave(d) \/ DesktopCrash(d)
          \/ \E k \in Compat : DesktopEnter(d, k)

Next == (\E p \in Proc : Step(p) \/ Failure(p)) \/ Environment

Spec == Init /\ [][Next]_vars

(* A launcher that runs is scheduled: its own steps are not put off for ever. *)
FairSpec == Spec /\ \A p \in Proc : WF_vars(Step(p))

----------------------------------------------------------------------------
(* Properties                                                               *)

(* The states in which p changes the shared venv or an alias of it.         *)
Mutating(p) == pc[p] \in {"writing", "aliasing"}

(* Provisioning "MUST NOT run twice at once" (_provision_in_progress).      *)
OneProvisioner == \A p, q \in Proc : Mutating(p) /\ Mutating(q) => p = q

(* What the protocol does guarantee: two processes are in the venv only if  *)
(* one of them lost the canonical lock to a removal or a replacement that   *)
(* came between a check and its system call.                                *)
OneUnrobbedProvisioner ==
    \A p, q \in Proc :
        /\ Mutating(p) /\ <<p, Canonical>> \notin stolen
        /\ Mutating(q) /\ <<q, Canonical>> \notin stolen
        => p = q

(* A live process loses the canonical lock only in a history with a killed  *)
(* process or a half-written lock that went stale: without those, neither   *)
(* age nor absence licenses a removal (_remove_abandoned_lock).             *)
RobberyNeedsAFault ==
    \A p \in Proc : <<p, Canonical>> \in stolen => Crashed # {} \/ ages > 0

(* The legacy locks that a provisioner listed keep an older Desktop out of  *)
(* the shared venv (_acquire_desktop_compat_locks), unless one was robbed.  *)
(* An alias that another launcher makes after the list was frozen is not on *)
(* it, and a Desktop that comes through that alias meets no lock: nothing   *)
(* is claimed of it.                                                        *)
ListKeepsDesktopOut ==
    \A p \in Proc, d \in Desktop :
        Mutating(p) /\ dpc[d] = "shared"
        => \/ dat[d] \notin frozen[p]
           \/ {<<p, dat[d]>>, <<d, dat[d]>>} \cap stolen # {}

(* No alias is put in the place of a private venv a Desktop works in,       *)
(* unless the migration lock between the two was robbed.                    *)
PrivateVenvIdle ==
    \A d \in Desktop :
        dpc[d] = "private" /\ dat[d] \in aliased
        => \E q \in Proc \cup {d} : <<q, dat[d]>> \in stolen

(* Where there is a lock between an older Desktop and the plugins, it keeps *)
(* them out of one venv unless it was robbed: the locks on the list of a    *)
(* provisioner, and the one under which an alias is made.  It is not said   *)
(* that the two never meet: the list is frozen before the canonical lock is *)
(* created, and an alias made in between lets a Desktop in with no robbery. *)
LocksKeepDesktopApart == ListKeepsDesktopOut /\ PrivateVenvIdle

(* "adopted=True there guarantees the whole frozen bundle was already       *)
(* transferred to this child" (_acquire_provision_lock): the parent reads   *)
(* the canonical record as the acknowledgement of all locks.                *)
HandoffIsComplete ==
    \A c \in Proc :
        /\ pc[c] \in {"owner", "inside", "commit", "writing"}
        /\ tok[c] # c
        /\ Owns(c, Canonical)
        => \A k \in frozen[c] : Owns(c, k) \/ <<c, k>> \in stolen

(* A launcher that goes on to serve for hours leaves no readable lock with  *)
(* its own live pid behind, which nobody could remove.  (A detached child   *)
(* exits; a half-written lock expires.)                                     *)
NothingLeftBehind ==
    \A p \in Proc, x \in Path :
        pc[p] = "done" /\ tok[p] = p /\ file[x].pid = p
        => file[x].tok = "unwritten" \/ <<p, Canonical>> \in stolen

(* A lock is lost to a fault only, and left behind by none.                 *)
LocksAreHonoured == RobberyNeedsAFault /\ NothingLeftBehind

(* Once the canonical lock is lost, the mutation under way is the last one: *)
(* no later refresh succeeds (_assert_provision_lock_owned).                *)
RobbedNeverMutatesAgain ==
    [][\A p \in Proc :
          <<p, Canonical>> \in stolen /\ ~Mutating(p) => ~Mutating(p)']_vars

(* A provisioner killed mid-install "must not lock the venv out             *)
(* permanently" (_provision_in_progress): a launcher that asks for the lock *)
(* while a dead owner's record holds it gets rid of that record.  (A        *)
(* detached child that cannot adopt it only exits.)                         *)
DeadOwnerIsSwept ==
    \A p, q \in Proc :
        /\ pc[p] = "acquire" /\ tok[p] = p /\ pc[q] = "crashed"
        /\ file[Canonical].pid = q /\ file[Canonical].tok # "unwritten"
        ~> file[Canonical].pid # q \/ pc[p] = "crashed"

=============================================================================
