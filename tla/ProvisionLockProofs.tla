------------------------- MODULE ProvisionLockProofs -------------------------
(***************************************************************************)
(* What ProvisionLock guarantees for every number of launchers, Desktops   *)
(* and legacy locks: type correctness, and that two launchers are in the   *)
(* shared venv together only after one of them was robbed of the canonical *)
(* lock.  And what it guarantees of the records themselves: a robbed       *)
(* launcher never mutates the venv again, a live one is robbed only after  *)
(* a fault, an acknowledged handoff has passed on the whole bundle, no     *)
(* lock is left behind, and an older Desktop is never in a venv with a     *)
(* launcher.                                                               *)
(***************************************************************************)
EXTENDS ProvisionLock, TLAPS

(* The stage of the protocol p is at, or goes on to once it has unlinked an *)
(* abandoned lock, or its own.                                              *)
Stage(p) == IF pc[p] = "unlink" THEN ret[p] ELSE pc[p]

(* From the written canonical record to the release.                        *)
HolderStages ==
    {"compat", "writec", "owner", "commit", "inside", "writing", "prealias",
     "migrate", "aliasing", "unmigrate"}

(* Where a process is that has handed its token to a child.                 *)
Gone == {"await", "release", "releasec", "done", "exited", "crashed"}

(* Pending system calls go to lock paths; a holder's go to legacy ones.     *)
PendingOK ==
    \A p \in Proc :
        /\ pc[p] \in {"unlink", "swap"} => at[p] \in Path
        /\ pc[p] = "unlink" => ret[p] \in {"idle", "acquire", "compat", "prealias",
                                             "undo", "denied", "release", "releasec"}
        /\ pc[p] \in {"writec", "migrate", "aliasing", "unmigrate"} => at[p] \in Compat
        /\ pc[p] = "unlink" /\ ret[p] \in {"compat", "prealias"} => at[p] \in Compat

(* A process that has left the start works with a token; who adopts works   *)
(* with its parent's.                                                       *)
TokenOK ==
    \A p \in Proc :
        /\ Stage(p) = "idle" => tok[p] = None
        /\ Stage(p) \notin {"idle", "crashed"} => tok[p] \in Proc
        /\ pc[p] \in {"adopt", "swap"} => tok[p] # p

(* A token passes on once, from a parent that does not come back to it.     *)
ParentOK ==
    \A p, c \in Proc :
        tok[c] = p /\ c # p => Stage(p) \in Gone /\ child[p] = c

(* The canonical lock is never a migration lock nor a Desktop's.            *)
CanonicalOK == file[Canonical].tok \in Proc \cup {"unwritten", None}

Kept(p) == <<p, Canonical>> \in stolen \/ Owns(p, Canonical)

(* Who holds the canonical lock still owns its record, unless robbed.       *)
HolderOwns == \A p \in Proc : Stage(p) \in HolderStages => Kept(p)

(* Who is about to write that record still has its empty file there.        *)
WriterOwns ==
    \A p \in Proc :
        pc[p] = "write" =>
            <<p, Canonical>> \in stolen \/ file[Canonical] = Empty(p)

IInv ==
    /\ TypeOK /\ PendingOK /\ TokenOK /\ ParentOK /\ CanonicalOK
    /\ HolderOwns /\ WriterOwns

----------------------------------------------------------------------------
(* The initial states satisfy the invariant: nobody holds anything.          *)
LEMMA InitIInv ==
    ASSUME Init
    PROVE  IInv
  BY NamesDistinct, BoundsNat
  DEF Init, IInv, TypeOK, PendingOK, TokenOK, ParentOK, CanonicalOK, HolderOwns,
      WriterOwns, Stage, HolderStages, NoFile, LockRecord, Token, Path, PC

(* Types are kept; that a pending system call has a path is needed.         *)
LEMMA TypeNext ==
    ASSUME IInv, Next
    PROVE  TypeOK'
<1>. USE NamesDistinct, BoundsNat DEF IInv
<1>1. ASSUME NEW p \in Proc, Sweep(p) PROVE TypeOK'
  BY <1>1, SMTT(60) DEF Sweep, Judge, Unlink, TypeOK, PendingOK, PC, Become,
        lvars, pvars, dvars, Path, Token, LockRecord, NoFile, Empty, Record,
        MayJudge, Robbed, LoopExhausted
<1>2. ASSUME NEW p \in Proc, Acquire(p) PROVE TypeOK'
  BY <1>2, SMTT(60) DEF Acquire, FreezeTargets, CreateCanonical,
        WriteCanonical, CanonicalBusy, CompatComplete, UndoCanonical, GiveUp,
        Retry, WriteCompat, CreateCompat, CompatBusy, UndoCompat, RemoveIf, TypeOK,
        PendingOK, PC, Become, lvars, pvars, dvars, Path, Token, LockRecord,
        NoFile, Empty, Record, Forget, Reserved
<1>3. ASSUME NEW p \in Proc, Handoff(p) PROVE TypeOK'
  BY <1>3, SMTT(120) DEF Handoff, Spawn, AdoptBegin, AdoptSwap, HandoffSeen,
        AdoptCheck, TypeOK, PendingOK, PC, Become, lvars, pvars, dvars, Path,
        Token, LockRecord, NoFile, Empty, Record, Robbed, Alive, Reserved
<1>4. ASSUME NEW p \in Proc, Work(p) PROVE TypeOK'
  BY <1>4, SMTT(60) DEF Work, RefreshCompat, RefreshCanonical, EndMutation,
        FinishWork, BeginAlias, DeferAlias, CheckBeforeAlias, MakeAlias,
        ReleaseMigrationLock, RemoveIf, HeartbeatAborts, TakeMigrationLock, TypeOK,
        PendingOK, PC, Become, lvars, pvars, dvars, Path, Token, LockRecord,
        NoFile, Empty, Record
<1>5. ASSUME NEW p \in Proc, Release(p) PROVE TypeOK'
  BY <1>5, SMTT(60) DEF Release, ReleaseCanonical, ReleaseComplete,
        ReleaseCompat, RemoveIf, TypeOK, PendingOK, PC, Become, lvars, pvars, dvars,
        Path, Token, LockRecord, NoFile, Empty, Record, Owns
<1>6. ASSUME NEW p \in Proc, Failure(p) PROVE TypeOK'
  BY <1>6, SMTT(60) DEF Failure, WriteCanonicalFails, RemoveIf, WriteCompatFails,
        AdoptFails, SpawnFails, HandoffFails, AliasFails, TypeOK, PendingOK,
        PC, Become, lvars, pvars, dvars, Path, Token, LockRecord, NoFile,
        Empty, Record, Alive
<1>7. ASSUME NEW p \in Proc, Launch(p) \/ Exit(p) PROVE TypeOK'
  BY <1>7, SMTT(60) DEF Launch, Exit, TypeOK, PendingOK, PC, Become, lvars,
        pvars, dvars, Path, Token, LockRecord, NoFile, Empty, Record
<1>8. ASSUME NEW p \in Proc, Crash(p) PROVE TypeOK'
  BY <1>8, SMTT(60) DEF Crash, TypeOK, PendingOK, PC, Become, lvars, pvars,
        dvars, Path, Token, LockRecord, NoFile, Empty, Record
<1>9. ASSUME NEW x \in Path, Age(x) PROVE TypeOK'
  BY <1>9, SMTT(60) DEF Age, TypeOK, PendingOK, PC, Become, lvars, pvars,
        dvars, Path, Token, LockRecord, NoFile, Empty, Record
<1>10. ASSUME NEW d \in Desktop, DesktopLeave(d) PROVE TypeOK'
  <2>1. stolen' \subseteq stolen
    BY <1>10 DEF DesktopLeave, Forget
  <2>2. file' \in [Path -> LockRecord]
    BY <1>10 DEF DesktopLeave, TypeOK, NoFile, LockRecord, Token
  <2>3. /\ dpc' \in [Desktop -> {"out", "shared", "private", "crashed"}]
        /\ dat' \in [Desktop -> Compat \cup {None}]
    BY <1>10 DEF DesktopLeave, TypeOK
  <2>. QED
    BY <1>10, <2>1, <2>2, <2>3 DEF DesktopLeave, TypeOK, pvars
<1>11. ASSUME NEW d \in Desktop, DesktopCrash(d) PROVE TypeOK'
  BY <1>11, SMTT(60) DEF DesktopCrash, TypeOK, PendingOK, PC, Become, lvars,
        pvars, dvars, Path, Token, LockRecord, NoFile, Empty, Record
<1>12. ASSUME NEW d \in Desktop, NEW k \in Compat, DesktopEnter(d, k) PROVE TypeOK'
  BY <1>12, SMTT(60) DEF DesktopEnter, TypeOK, PendingOK, PC, Become, lvars,
        pvars, dvars, Path, Token, LockRecord, NoFile, Empty, Record
<1>. QED
  BY <1>1, <1>2, <1>3, <1>4, <1>5, <1>6, <1>7, <1>8, <1>9, <1>10, <1>11, <1>12 DEF
        Next, Step, Environment

(* The path of a pending call, and where an unlink returns to.               *)
LEMMA PendingNext ==
    ASSUME IInv, Next
    PROVE  PendingOK'
<1>. USE NamesDistinct, BoundsNat DEF IInv
<1>1. ASSUME NEW p \in Proc, Sweep(p) PROVE PendingOK'
  BY <1>1, SMTT(60) DEF Sweep, Judge, Unlink, TypeOK, PendingOK, Become,
        lvars, pvars, dvars, Path, Token, LockRecord, NoFile, Empty, Record,
        MayJudge, Robbed, LoopExhausted
<1>2. ASSUME NEW p \in Proc, Acquire(p) PROVE PendingOK'
  BY <1>2, SMTT(60) DEF Acquire, FreezeTargets, CreateCanonical,
        WriteCanonical, CanonicalBusy, CompatComplete, UndoCanonical, GiveUp,
        Retry, WriteCompat, CreateCompat, CompatBusy, UndoCompat, RemoveIf, TypeOK,
        PendingOK, Become, lvars, pvars, dvars, Path, Token, LockRecord,
        NoFile, Empty, Record, Forget, Reserved
<1>3. ASSUME NEW p \in Proc, Handoff(p) PROVE PendingOK'
  BY <1>3, SMTT(60) DEF Handoff, Spawn, AdoptBegin, AdoptSwap, HandoffSeen,
        AdoptCheck, TypeOK, PendingOK, Become, lvars, pvars, dvars, Path,
        Token, LockRecord, NoFile, Empty, Record, Robbed, Alive, Reserved
<1>4. ASSUME NEW p \in Proc, Work(p) PROVE PendingOK'
  BY <1>4, SMTT(60) DEF Work, RefreshCompat, RefreshCanonical, EndMutation,
        FinishWork, BeginAlias, DeferAlias, CheckBeforeAlias, MakeAlias,
        ReleaseMigrationLock, RemoveIf, HeartbeatAborts, TakeMigrationLock, TypeOK,
        PendingOK, Become, lvars, pvars, dvars, Path, Token, LockRecord,
        NoFile, Empty, Record
<1>5. ASSUME NEW p \in Proc, Release(p) PROVE PendingOK'
  BY <1>5, SMTT(60) DEF Release, ReleaseCanonical, ReleaseComplete,
        ReleaseCompat, RemoveIf, TypeOK, PendingOK, Become, lvars, pvars, dvars, Path,
        Token, LockRecord, NoFile, Empty, Record, Owns
<1>6. ASSUME NEW p \in Proc, Failure(p) PROVE PendingOK'
  BY <1>6, SMTT(60) DEF Failure, WriteCanonicalFails, RemoveIf, WriteCompatFails,
        AdoptFails, SpawnFails, HandoffFails, AliasFails, TypeOK, PendingOK,
        Become, lvars, pvars, dvars, Path, Token, LockRecord, NoFile, Empty,
        Record, Alive
<1>7. ASSUME NEW p \in Proc, Launch(p) \/ Exit(p) PROVE PendingOK'
  BY <1>7, SMTT(60) DEF Launch, Exit, TypeOK, PendingOK, Become, lvars, pvars,
        dvars, Path, Token, LockRecord, NoFile, Empty, Record
<1>8. ASSUME NEW p \in Proc, Crash(p) PROVE PendingOK'
  BY <1>8, SMTT(60) DEF Crash, TypeOK, PendingOK, Become, lvars, pvars, dvars,
        Path, Token, LockRecord, NoFile, Empty, Record
<1>9. ASSUME NEW x \in Path, Age(x) PROVE PendingOK'
  BY <1>9, SMTT(60) DEF Age, TypeOK, PendingOK, Become, lvars, pvars, dvars,
        Path, Token, LockRecord, NoFile, Empty, Record
<1>10. ASSUME NEW d \in Desktop, DesktopLeave(d) PROVE PendingOK'
  BY <1>10, SMTT(60) DEF DesktopLeave, Forget, TypeOK, PendingOK, Become,
        lvars, pvars, dvars, Path, Token, LockRecord, NoFile, Empty, Record
<1>11. ASSUME NEW d \in Desktop, DesktopCrash(d) PROVE PendingOK'
  BY <1>11, SMTT(60) DEF DesktopCrash, TypeOK, PendingOK, Become, lvars,
        pvars, dvars, Path, Token, LockRecord, NoFile, Empty, Record
<1>12. ASSUME NEW d \in Desktop, NEW k \in Compat, DesktopEnter(d, k) PROVE PendingOK'
  BY <1>12, SMTT(60) DEF DesktopEnter, TypeOK, PendingOK, Become, lvars,
        pvars, dvars, Path, Token, LockRecord, NoFile, Empty, Record
<1>. QED
  BY <1>1, <1>2, <1>3, <1>4, <1>5, <1>6, <1>7, <1>8, <1>9, <1>10, <1>11, <1>12 DEF
        Next, Step, Environment

(* Tokens are handed on once, by a parent that only waits and releases.      *)
LEMMA TokenNext ==
    ASSUME IInv, Next
    PROVE  (TokenOK /\ ParentOK)'
<1>. USE NamesDistinct, BoundsNat DEF IInv
<1>1. ASSUME NEW p \in Proc, Sweep(p) PROVE (TokenOK /\ ParentOK)'
  BY <1>1, SMTT(60) DEF Sweep, Judge, Unlink, TypeOK, PendingOK, TokenOK,
        ParentOK, Stage, Gone, Become, lvars, pvars, dvars, Path, Token,
        LockRecord, NoFile, Empty, Record, MayJudge, Robbed, LoopExhausted
<1>2. ASSUME NEW p \in Proc, Acquire(p) PROVE (TokenOK /\ ParentOK)'
  BY <1>2, SMTT(60) DEF Acquire, FreezeTargets, CreateCanonical,
        WriteCanonical, CanonicalBusy, CompatComplete, UndoCanonical, GiveUp,
        Retry, WriteCompat, CreateCompat, CompatBusy, UndoCompat, RemoveIf, TypeOK,
        PendingOK, TokenOK, ParentOK, Stage, Gone, Become, lvars, pvars,
        dvars, Path, Token, LockRecord, NoFile, Empty, Record, Forget,
        Reserved
<1>3. ASSUME NEW p \in Proc, Handoff(p) PROVE (TokenOK /\ ParentOK)'
  BY <1>3, SMTT(60) DEF Handoff, Spawn, AdoptBegin, AdoptSwap, HandoffSeen,
        AdoptCheck, TypeOK, PendingOK, TokenOK, ParentOK, Stage, Gone, Become,
        lvars, pvars, dvars, Path, Token, LockRecord, NoFile, Empty, Record,
        Robbed, Alive, Reserved
<1>4. ASSUME NEW p \in Proc, Work(p) PROVE (TokenOK /\ ParentOK)'
  BY <1>4, SMTT(60) DEF Work, RefreshCompat, RefreshCanonical, EndMutation,
        FinishWork, BeginAlias, DeferAlias, CheckBeforeAlias, MakeAlias,
        ReleaseMigrationLock, RemoveIf, HeartbeatAborts, TakeMigrationLock, TypeOK,
        PendingOK, TokenOK, ParentOK, Stage, Gone, Become, lvars, pvars,
        dvars, Path, Token, LockRecord, NoFile, Empty, Record
<1>5. ASSUME NEW p \in Proc, Release(p) PROVE (TokenOK /\ ParentOK)'
  BY <1>5, SMTT(60) DEF Release, ReleaseCanonical, ReleaseComplete,
        ReleaseCompat, RemoveIf, TypeOK, PendingOK, TokenOK, ParentOK, Stage, Gone,
        Become, lvars, pvars, dvars, Path, Token, LockRecord, NoFile, Empty,
        Record, Owns
<1>6. ASSUME NEW p \in Proc, Failure(p) PROVE (TokenOK /\ ParentOK)'
  BY <1>6, SMTT(60) DEF Failure, WriteCanonicalFails, RemoveIf, WriteCompatFails,
        AdoptFails, SpawnFails, HandoffFails, AliasFails, TypeOK, PendingOK,
        TokenOK, ParentOK, Stage, Gone, Become, lvars, pvars, dvars, Path,
        Token, LockRecord, NoFile, Empty, Record, Alive
<1>7. ASSUME NEW p \in Proc, Launch(p) \/ Exit(p) PROVE (TokenOK /\ ParentOK)'
  BY <1>7, SMTT(60) DEF Launch, Exit, TypeOK, PendingOK, TokenOK, ParentOK,
        Stage, Gone, Become, lvars, pvars, dvars, Path, Token, LockRecord,
        NoFile, Empty, Record
<1>8. ASSUME NEW p \in Proc, Crash(p) PROVE (TokenOK /\ ParentOK)'
  BY <1>8, SMTT(60) DEF Crash, TypeOK, PendingOK, TokenOK, ParentOK, Stage,
        Gone, Become, lvars, pvars, dvars, Path, Token, LockRecord, NoFile,
        Empty, Record
<1>9. ASSUME NEW x \in Path, Age(x) PROVE (TokenOK /\ ParentOK)'
  BY <1>9, SMTT(60) DEF Age, TypeOK, PendingOK, TokenOK, ParentOK, Stage,
        Gone, Become, lvars, pvars, dvars, Path, Token, LockRecord, NoFile,
        Empty, Record
<1>10. ASSUME NEW d \in Desktop, DesktopLeave(d) PROVE (TokenOK /\ ParentOK)'
  BY <1>10, SMTT(60) DEF DesktopLeave, Forget, TypeOK, PendingOK, TokenOK,
        ParentOK, Stage, Gone, Become, lvars, pvars, dvars, Path, Token,
        LockRecord, NoFile, Empty, Record
<1>11. ASSUME NEW d \in Desktop, DesktopCrash(d) PROVE (TokenOK /\ ParentOK)'
  BY <1>11, SMTT(60) DEF DesktopCrash, TypeOK, PendingOK, TokenOK, ParentOK,
        Stage, Gone, Become, lvars, pvars, dvars, Path, Token, LockRecord,
        NoFile, Empty, Record
<1>12. ASSUME NEW d \in Desktop, NEW k \in Compat, DesktopEnter(d, k) PROVE (TokenOK /\ ParentOK)'
  BY <1>12, SMTT(60) DEF DesktopEnter, TypeOK, PendingOK, TokenOK, ParentOK,
        Stage, Gone, Become, lvars, pvars, dvars, Path, Token, LockRecord,
        NoFile, Empty, Record
<1>. QED
  BY <1>1, <1>2, <1>3, <1>4, <1>5, <1>6, <1>7, <1>8, <1>9, <1>10, <1>11, <1>12 DEF
        Next, Step, Environment

(* Only records of launchers come to the canonical path.                     *)
LEMMA CanonicalNext ==
    ASSUME IInv, Next
    PROVE  CanonicalOK'
<1>. USE NamesDistinct, BoundsNat DEF IInv
<1>1. ASSUME NEW p \in Proc, Sweep(p) PROVE CanonicalOK'
  BY <1>1, SMTT(60) DEF Sweep, Judge, Unlink, TypeOK, PendingOK, TokenOK,
        CanonicalOK, Stage, Become, lvars, pvars, dvars, Path, Token,
        LockRecord, NoFile, Empty, Record, MayJudge, Robbed, LoopExhausted
<1>2. ASSUME NEW p \in Proc, Acquire(p) PROVE CanonicalOK'
  BY <1>2, SMTT(60) DEF Acquire, FreezeTargets, CreateCanonical,
        WriteCanonical, CanonicalBusy, CompatComplete, UndoCanonical, GiveUp,
        Retry, WriteCompat, CreateCompat, CompatBusy, UndoCompat, RemoveIf, TypeOK,
        PendingOK, TokenOK, CanonicalOK, Stage, Become, lvars, pvars, dvars,
        Path, Token, LockRecord, NoFile, Empty, Record, Forget, Reserved
<1>3. ASSUME NEW p \in Proc, Handoff(p) PROVE CanonicalOK'
  BY <1>3, SMTT(60) DEF Handoff, Spawn, AdoptBegin, AdoptSwap, HandoffSeen,
        AdoptCheck, TypeOK, PendingOK, TokenOK, CanonicalOK, Stage, Become,
        lvars, pvars, dvars, Path, Token, LockRecord, NoFile, Empty, Record,
        Robbed, Alive, Reserved
<1>4. ASSUME NEW p \in Proc, Work(p) PROVE CanonicalOK'
  BY <1>4, SMTT(60) DEF Work, RefreshCompat, RefreshCanonical, EndMutation,
        FinishWork, BeginAlias, DeferAlias, CheckBeforeAlias, MakeAlias,
        ReleaseMigrationLock, RemoveIf, HeartbeatAborts, TakeMigrationLock, TypeOK,
        PendingOK, TokenOK, CanonicalOK, Stage, Become, lvars, pvars, dvars,
        Path, Token, LockRecord, NoFile, Empty, Record
<1>5. ASSUME NEW p \in Proc, Release(p) PROVE CanonicalOK'
  BY <1>5, SMTT(60) DEF Release, ReleaseCanonical, ReleaseComplete,
        ReleaseCompat, RemoveIf, TypeOK, PendingOK, TokenOK, CanonicalOK, Stage, Become,
        lvars, pvars, dvars, Path, Token, LockRecord, NoFile, Empty, Record,
        Owns
<1>6. ASSUME NEW p \in Proc, Failure(p) PROVE CanonicalOK'
  BY <1>6, SMTT(60) DEF Failure, WriteCanonicalFails, RemoveIf, WriteCompatFails,
        AdoptFails, SpawnFails, HandoffFails, AliasFails, TypeOK, PendingOK,
        TokenOK, CanonicalOK, Stage, Become, lvars, pvars, dvars, Path, Token,
        LockRecord, NoFile, Empty, Record, Alive
<1>7. ASSUME NEW p \in Proc, Launch(p) \/ Exit(p) PROVE CanonicalOK'
  BY <1>7, SMTT(60) DEF Launch, Exit, TypeOK, PendingOK, TokenOK, CanonicalOK,
        Stage, Become, lvars, pvars, dvars, Path, Token, LockRecord, NoFile,
        Empty, Record
<1>8. ASSUME NEW p \in Proc, Crash(p) PROVE CanonicalOK'
  BY <1>8, SMTT(60) DEF Crash, TypeOK, PendingOK, TokenOK, CanonicalOK, Stage,
        Become, lvars, pvars, dvars, Path, Token, LockRecord, NoFile, Empty,
        Record
<1>9. ASSUME NEW x \in Path, Age(x) PROVE CanonicalOK'
  BY <1>9, SMTT(60) DEF Age, TypeOK, PendingOK, TokenOK, CanonicalOK, Stage,
        Become, lvars, pvars, dvars, Path, Token, LockRecord, NoFile, Empty,
        Record
<1>10. ASSUME NEW d \in Desktop, DesktopLeave(d) PROVE CanonicalOK'
  BY <1>10, SMTT(60) DEF DesktopLeave, Forget, TypeOK, PendingOK, TokenOK,
        CanonicalOK, Stage, Become, lvars, pvars, dvars, Path, Token,
        LockRecord, NoFile, Empty, Record
<1>11. ASSUME NEW d \in Desktop, DesktopCrash(d) PROVE CanonicalOK'
  BY <1>11, SMTT(60) DEF DesktopCrash, TypeOK, PendingOK, TokenOK,
        CanonicalOK, Stage, Become, lvars, pvars, dvars, Path, Token,
        LockRecord, NoFile, Empty, Record
<1>12. ASSUME NEW d \in Desktop, NEW k \in Compat, DesktopEnter(d, k) PROVE CanonicalOK'
  BY <1>12, SMTT(60) DEF DesktopEnter, TypeOK, PendingOK, TokenOK,
        CanonicalOK, Stage, Become, lvars, pvars, dvars, Path, Token,
        LockRecord, NoFile, Empty, Record
<1>. QED
  BY <1>1, <1>2, <1>3, <1>4, <1>5, <1>6, <1>7, <1>8, <1>9, <1>10, <1>11, <1>12 DEF
        Next, Step, Environment

----------------------------------------------------------------------------
(* From the created canonical file on, p takes itself for its owner.         *)
Claims(q) == Stage(q) \in HolderStages \/ pc[q] = "write"

(* An unrobbed claimant is alive and is the process the record names.       *)
LEMMA ClaimantRecorded ==
    ASSUME IInv, NEW q \in Proc, Claims(q), <<q, Canonical>> \notin stolen
    PROVE  /\ file[Canonical].pid = q
           /\ file[Canonical] # NoFile
           /\ file[Canonical].tok \in {tok[q], "unwritten"}
           /\ Alive(q)
           /\ Stage(q) \notin Gone
           /\ tok[q] \in Proc
<1>. USE NamesDistinct
<1>1. Stage(q) \notin {"idle", "crashed"} /\ Stage(q) \notin Gone /\ pc[q]
    \notin Gone
  BY DEF IInv, TypeOK, Claims, Stage, HolderStages, Gone
<1>2. tok[q] \in Proc
  BY <1>1 DEF IInv, TokenOK
<1>3. CASE Stage(q) \in HolderStages
  <2>1. file[Canonical].pid = q /\ file[Canonical].tok = tok[q]
    BY <1>3 DEF IInv, HolderOwns, Kept, Owns
  <2>. QED BY <1>1, <1>2, <2>1 DEF NoFile, Alive, Gone
<1>4. CASE pc[q] = "write"
  <2>1. file[Canonical] = Empty(q)
    BY <1>4 DEF IInv, WriterOwns
  <2>. QED BY <1>1, <1>2, <2>1 DEF NoFile, Empty, Alive, Gone
<1>. QED BY <1>3, <1>4 DEF Claims

(* A step of p keeps all claims if it leaves the record of the others alone, *)
(* or robs them, and p itself has one only with the record.                 *)
LEMMA MoveKeeps ==
    ASSUME IInv, NEW p \in Proc \cup Desktop,
            \A q \in Proc \ {p} : Stage(q)' = Stage(q) /\ pc'[q] = pc[q] /\
               tok'[q] = tok[q],
            \A q \in Proc : <<q, Canonical>> \in stolen => <<q, Canonical>>
               \in stolen',
           \A q \in Proc \ {p} :
               Claims(q) => \/ file'[Canonical] = file[Canonical]
                            \/ <<q, Canonical>> \in stolen',
           p \in Proc => (Stage(p)' \in HolderStages => Kept(p)'),
           p \in Proc => (pc'[p] = "write" =>
               <<p, Canonical>> \in stolen' \/ file'[Canonical] = Empty(p))
    PROVE  (HolderOwns /\ WriterOwns)'
<1>1. ASSUME NEW q \in Proc, Stage(q)' \in HolderStages PROVE Kept(q)'
  BY <1>1 DEF IInv, HolderOwns, Kept, Owns, Claims
<1>2. ASSUME NEW q \in Proc, pc'[q] = "write"
      PROVE  <<q, Canonical>> \in stolen' \/ file'[Canonical] = Empty(q)
  BY <1>2 DEF IInv, WriterOwns, Claims
<1>. QED BY <1>1, <1>2 DEF HolderOwns, WriterOwns, Empty

(* The claims survive every step.                                            *)
LEMMA HolderNext ==
    ASSUME IInv, Next
    PROVE  (HolderOwns /\ WriterOwns)'
<1>. USE NamesDistinct
<1>1. ASSUME NEW p \in Proc, Unlink(p) PROVE (HolderOwns /\ WriterOwns)'
  <2>1. \A q \in Proc \ {p} : Claims(q) => \/ file'[Canonical] = file[Canonical]
                                        \/ <<q, Canonical>> \in stolen'
     <3>1. SUFFICES ASSUME NEW q \in Proc \ {p}, Claims(q), <<q, Canonical>>
        \notin stolen, at[p] = Canonical
                   PROVE <<q, Canonical>> \in stolen'
      BY <1>1 DEF Unlink, IInv, TypeOK, Path
    <3>2. file[Canonical].pid = q /\ Alive(q)
      BY <3>1, ClaimantRecorded
    <3>. QED BY <1>1, <3>1, <3>2 DEF Unlink, Robbed
  <2>2. Stage(p)' \in HolderStages => Kept(p)'
     BY <1>1 DEF Unlink, Become, Stage, HolderStages, Kept, Owns, IInv,
        TypeOK, HolderOwns, PendingOK, LoopExhausted, Path, lvars
   <2>. QED BY <1>1, <2>1, <2>2, MoveKeeps DEF Unlink, Become, Stage, IInv,
      TypeOK, PendingOK, LoopExhausted
<1>2. ASSUME NEW p \in Proc, CreateCanonical(p) PROVE (HolderOwns /\
    WriterOwns)'
  <2>1. \A q \in Proc : Claims(q) => <<q, Canonical>> \in stolen
    BY <1>2, ClaimantRecorded DEF CreateCanonical
   <2>. QED BY <1>2, <2>1, MoveKeeps DEF CreateCanonical, Become, Stage, IInv,
      TypeOK, HolderStages, Path
<1>3. ASSUME NEW p \in Proc, WriteCanonical(p) PROVE (HolderOwns /\
    WriterOwns)'
   <2>1. ASSUME NEW q \in Proc \ {p}, Claims(q), file[Canonical] = Empty(p)
      PROVE <<q, Canonical>> \in stolen
    BY <2>1, ClaimantRecorded DEF Empty
  <2>2. Kept(p)'
     BY <1>3 DEF WriteCanonical, Kept, Owns, Record, IInv, WriterOwns, TypeOK,
        Path, Become
   <2>. QED BY <1>3, <2>1, <2>2, MoveKeeps DEF WriteCanonical, Become, Stage,
      IInv, TypeOK, HolderStages, Path
<1>4. ASSUME NEW p \in Proc,
             \/ WriteCanonicalFails(p) \/ UndoCanonical(p)
             \/ ReleaseCanonical(p) \/ ReleaseMigrationLock(p)
             \/ \E k \in Compat : UndoCompat(p, k) \/ ReleaseCompat(p, k)
      PROVE  (HolderOwns /\ WriterOwns)'
  <2>1. Stage(p)' \in {"denied", "undo", "release", "releasec"}
    BY <1>4 DEF WriteCanonicalFails, UndoCanonical, ReleaseCanonical,
        ReleaseMigrationLock, UndoCompat, ReleaseCompat, RemoveIf, Become,
        Stage, IInv, TypeOK
  <2>2. /\ UNCHANGED <<lvars, tok, stolen>>
        /\ pc'[p] # "write"
        /\ \A q \in Proc \ {p} : pc'[q] = pc[q] /\ ret'[q] = ret[q]
    BY <1>4 DEF WriteCanonicalFails, UndoCanonical, ReleaseCanonical,
        ReleaseMigrationLock, UndoCompat, ReleaseCompat, RemoveIf, Become,
        IInv, TypeOK
  <2>. QED
    BY <2>1, <2>2, MoveKeeps DEF Stage, HolderStages, lvars
<1>5. ASSUME NEW p \in Proc, AdoptSwap(p) PROVE (HolderOwns /\ WriterOwns)'
   <2>1. ASSUME NEW q \in Proc \ {p}, Claims(q), <<q, Canonical>> \notin
      stolen, at[p] = Canonical PROVE <<q, Canonical>> \in stolen'
    <3>1. pc[p] = "swap" /\ tok[p] \in Proc /\ tok[p] # p
      BY <1>5 DEF AdoptSwap, IInv, TokenOK, Stage
    <3>2. tok[p] # tok[q]
      BY <2>1, <3>1, ClaimantRecorded DEF IInv, ParentOK, Gone
    <3>3. file[Canonical].tok # tok[p]
      BY <2>1, <3>1, <3>2, ClaimantRecorded
    <3>. QED BY <1>5, <2>1, <3>3, ClaimantRecorded DEF AdoptSwap, Robbed
  <2>2. at[p] # Canonical => file'[Canonical] = file[Canonical]
    BY <1>5 DEF AdoptSwap, IInv, TypeOK, Path
  <2>3. Stage(p)' \in HolderStages => Kept(p)'
     BY <1>5 DEF AdoptSwap, Become, Stage, HolderStages, Kept, Owns, Record,
        IInv, TypeOK, Path
   <2>. QED BY <1>5, <2>1, <2>2, <2>3, MoveKeeps DEF AdoptSwap, Become, Stage,
      IInv, TypeOK
<1>6. ASSUME NEW p \in Proc, NEW k \in Compat, CreateCompat(p, k) PROVE
    (HolderOwns /\ WriterOwns)'
  <2>1. file'[Canonical] = file[Canonical]
    BY <1>6 DEF CreateCompat
  <2>2. Kept(p)'
     BY <1>6, <2>1 DEF CreateCompat, Stage, HolderStages, IInv, HolderOwns,
        Kept, Owns
   <2>. QED BY <1>6, <2>1, <2>2, MoveKeeps DEF CreateCompat, Become, Stage,
      IInv, TypeOK, HolderStages
<1>7. ASSUME NEW p \in Proc, WriteCompat(p) PROVE (HolderOwns /\ WriterOwns)'
  <2>1. file'[Canonical] = file[Canonical]
    BY <1>7 DEF WriteCompat, IInv, PendingOK
  <2>2. Kept(p)'
     BY <1>7, <2>1 DEF WriteCompat, Stage, HolderStages, IInv, HolderOwns,
        Kept, Owns
   <2>. QED BY <1>7, <2>1, <2>2, MoveKeeps DEF WriteCompat, Become, Stage,
      IInv, TypeOK, HolderStages
<1>8. ASSUME NEW p \in Proc, NEW k \in Compat, TakeMigrationLock(p, k) PROVE
    (HolderOwns /\ WriterOwns)'
  <2>1. file'[Canonical] = file[Canonical]
    BY <1>8 DEF TakeMigrationLock
  <2>2. Kept(p)'
     BY <1>8, <2>1 DEF TakeMigrationLock, Stage, HolderStages, IInv,
        HolderOwns, Kept, Owns
   <2>. QED BY <1>8, <2>1, <2>2, MoveKeeps DEF TakeMigrationLock, Become,
      Stage, IInv, TypeOK, HolderStages
<1>9. ASSUME NEW d \in Desktop, NEW k \in Compat, DesktopEnter(d, k) PROVE
    (HolderOwns /\ WriterOwns)'
  <2>1. file'[Canonical] = file[Canonical]
    BY <1>9 DEF DesktopEnter
  <2>. QED BY <1>9, <2>1, MoveKeeps DEF DesktopEnter, pvars, Stage
<1>10. ASSUME NEW d \in Desktop, DesktopLeave(d) PROVE (HolderOwns /\
    WriterOwns)'
  <2>1. file'[Canonical] = file[Canonical]
    BY <1>10 DEF DesktopLeave, IInv, CanonicalOK, Record
   <2>2. \A q \in Proc : <<q, Canonical>> \in stolen => <<q, Canonical>> \in
      stolen'
    BY <1>10 DEF DesktopLeave, Forget
  <2>3. UNCHANGED pvars
    BY <1>10 DEF DesktopLeave
  <2>4. d \notin Proc
    OBVIOUS
  <2>. QED BY <2>1, <2>2, <2>3, <2>4, MoveKeeps DEF pvars, Stage
<1>11. ASSUME NEW p \in Proc,
             \/ \E x \in Path : Judge(p, x)
             \/ FreezeTargets(p) \/ CanonicalBusy(p) \/ CompatComplete(p)
             \/ GiveUp(p) \/ Retry(p)
             \/ \E k \in Compat : CompatBusy(p, k)
      PROVE  (HolderOwns /\ WriterOwns)'
  BY <1>11, SMTT(60) DEF Judge, FreezeTargets, CanonicalBusy, CompatComplete,
        GiveUp, Retry, CompatBusy, IInv, TypeOK, PendingOK, TokenOK,
        HolderOwns, WriterOwns, Kept, Owns, Stage, HolderStages, Become,
        lvars, MayJudge, Forget
<1>12. ASSUME NEW p \in Proc,
             \/ AdoptBegin(p) \/ HandoffSeen(p)
             \/ \E c \in Proc \ {p} : Spawn(p, c)
             \/ \E x \in Path : AdoptCheck(p, x)
      PROVE  (HolderOwns /\ WriterOwns)'
  BY <1>12, SMTT(60) DEF AdoptBegin, HandoffSeen, Spawn, AdoptCheck, IInv,
        TypeOK, PendingOK, TokenOK, HolderOwns, WriterOwns, Kept, Owns, Stage,
        HolderStages, Become, lvars
<1>13. ASSUME NEW p \in Proc,
             \/ RefreshCompat(p) \/ RefreshCanonical(p) \/ EndMutation(p)
             \/ FinishWork(p) \/ BeginAlias(p) \/ DeferAlias(p)
             \/ CheckBeforeAlias(p) \/ MakeAlias(p) \/ HeartbeatAborts(p)
             \/ ReleaseComplete(p)
      PROVE  (HolderOwns /\ WriterOwns)'
  BY <1>13, SMTT(60) DEF RefreshCompat, RefreshCanonical, EndMutation,
        FinishWork, BeginAlias, DeferAlias, CheckBeforeAlias, MakeAlias,
        HeartbeatAborts, ReleaseComplete, IInv, TypeOK, PendingOK, TokenOK,
        HolderOwns, WriterOwns, Kept, Owns, Stage, HolderStages, Become, lvars
<1>14. ASSUME NEW p \in Proc,
             \/ WriteCompatFails(p) \/ AdoptFails(p) \/ SpawnFails(p)
             \/ HandoffFails(p) \/ AliasFails(p)
      PROVE  (HolderOwns /\ WriterOwns)'
  BY <1>14, SMTT(60) DEF WriteCompatFails, AdoptFails, SpawnFails,
        HandoffFails, AliasFails, IInv, TypeOK, PendingOK, TokenOK,
        HolderOwns, WriterOwns, Kept, Owns, Stage, HolderStages, Become,
        lvars, Alive
<1>15. ASSUME NEW p \in Proc,
             Launch(p) \/ Exit(p)
      PROVE  (HolderOwns /\ WriterOwns)'
  BY <1>15, SMTT(60) DEF Launch, Exit, IInv, TypeOK, PendingOK, TokenOK,
        HolderOwns, WriterOwns, Kept, Owns, Stage, HolderStages, Become, lvars
<1>16. ASSUME NEW p \in Proc,
             Crash(p)
      PROVE  (HolderOwns /\ WriterOwns)'
  BY <1>16, SMTT(60) DEF Crash, IInv, TypeOK, PendingOK, TokenOK, HolderOwns,
        WriterOwns, Kept, Owns, Stage, HolderStages, Become, lvars
<1>17. ASSUME NEW x \in Path,
             Age(x)
      PROVE  (HolderOwns /\ WriterOwns)'
  BY <1>17, SMTT(60) DEF Age, IInv, TypeOK, PendingOK, TokenOK, HolderOwns,
        WriterOwns, Kept, Owns, Stage, HolderStages, Become, lvars, pvars
<1>18. ASSUME NEW d \in Desktop,
             DesktopCrash(d)
      PROVE  (HolderOwns /\ WriterOwns)'
  BY <1>18, SMTT(60) DEF DesktopCrash, IInv, TypeOK, PendingOK, TokenOK,
        HolderOwns, WriterOwns, Kept, Owns, Stage, HolderStages, Become,
        lvars, pvars
<1>. QED
   BY <1>1, <1>2, <1>3, <1>4, <1>5, <1>6, <1>7, <1>8, <1>9, <1>10, <1>11, <1>12, <1>13, <1>14, <1>15, <1>16,
      <1>17, <1>18
  DEF Next, Step, Failure, Environment, Sweep, Acquire, Handoff, Work, Release

----------------------------------------------------------------------------
LEMMA StepIInv ==
    ASSUME IInv, [Next]_vars
    PROVE  IInv'
<1>1. CASE Next
  <2>1. TypeOK' /\ PendingOK' /\ (TokenOK /\ ParentOK)' /\ CanonicalOK'
    BY <1>1, TypeNext, PendingNext, TokenNext, CanonicalNext
  <2>2. (HolderOwns /\ WriterOwns)'
    BY <1>1, HolderNext
  <2>. QED BY <2>1, <2>2 DEF IInv
<1>2. CASE UNCHANGED vars
  BY <1>2 DEF vars, lvars, pvars, dvars, IInv, TypeOK, PendingOK, TokenOK,
      ParentOK, CanonicalOK, HolderOwns, WriterOwns, Kept, Owns, Stage
<1>. QED BY <1>1, <1>2

(* The inductive invariant holds in every reachable state of Spec.          *)
THEOREM Invariance == Spec => []IInv
<1>1. Init => IInv
  BY InitIInv
<1>2. IInv /\ [Next]_vars => IInv'
  BY StepIInv
<1>. QED BY <1>1, <1>2, PTL DEF Spec

(* Every variable of the lock protocol keeps its type, whatever processes   *)
(* are killed and whatever locks go stale (run_kumiho_mcp.py 1450-2290).    *)
THEOREM TypeCorrect == Spec => []TypeOK
<1>1. IInv => TypeOK
  BY DEF IInv
<1>. QED BY <1>1, Invariance, PTL

(* Of two processes inside the venv together, one was robbed of the         *)
(* canonical lock by a remover that came between a check and its unlink     *)
(* (_remove_abandoned_lock) or an os.replace (_adopt_provision_lock).       *)
THEOREM MutualExclusionUnlessRobbed == Spec => []OneUnrobbedProvisioner
<1>1. ASSUME IInv PROVE OneUnrobbedProvisioner
  <2>1. SUFFICES ASSUME NEW p \in Proc, NEW q \in Proc,
                        Mutating(p), <<p, Canonical>> \notin stolen,
                        Mutating(q), <<q, Canonical>> \notin stolen
                 PROVE  p = q
    BY DEF OneUnrobbedProvisioner
  <2>2. Kept(p) /\ Kept(q)
    BY <1>1, <2>1 DEF IInv, HolderOwns, Mutating, Stage, HolderStages
  <2>. QED BY <2>1, <2>2 DEF Kept, Owns
<1>. QED BY <1>1, Invariance, PTL

(***************************************************************************)
(* The records of the locks                                                *)
(***************************************************************************)

(* Before p has written a canonical record of its own.                       *)
Early == {"idle", "boot", "acquire", "adopt", "swap"}
(* Where p has given its canonical record up, or is about to unlink it.      *)
Over == {"denied", "releasec", "done", "exited"}

(* What the canonical record says of the process it names: how far it has    *)
(* come, its token and the legacy locks it froze; whoever was robbed of the *)
(* record never gets it back.                                               *)
RecordOf(p) ==
    /\ file[Canonical].pid = p =>
        /\ Stage(p) \notin Early
        /\ Stage(p) \in Over => pc[p] = "unlink" /\ at[p] = Canonical
        /\ file[Canonical].tok = "unwritten" =>
              pc[p] \in {"write", "crashed"} \/ (pc[p] = "unlink" /\ ret[p] = "denied")
        /\ file[Canonical].tok # "unwritten" =>
              file[Canonical].tok = tok[p] /\ file[Canonical].targets = frozen[p]
    /\ <<p, Canonical>> \in stolen => Stage(p) \notin Early /\ file[Canonical].pid # p
    /\ Stage(p) = "undo" => Kept(p)
    /\ pc[p] = "await" => child[p] # p /\ tok[p] = p
    /\ pc[p] = "unlink" /\ ret[p] = "undo" => at[p] # Canonical

(* Only launchers hold the canonical lock.                                  *)
CanonicalPid ==
    /\ file[Canonical].pid \in Proc \cup {None}
    /\ file[Canonical].pid = None => file[Canonical] = NoFile

RecordInv == IInv /\ CanonicalPid /\ \A p \in Proc : RecordOf(p)

(* The step of another process leaves q and its claims alone.               *)
Same(q) ==
    /\ pc'[q] = pc[q] /\ ret'[q] = ret[q] /\ at'[q] = at[q]
    /\ tok'[q] = tok[q] /\ frozen'[q] = frozen[q] /\ child'[q] = child[q]
    /\ <<q, Canonical>> \in stolen' <=> <<q, Canonical>> \in stolen

(* A step of p that does not touch the canonical record only has to keep    *)
(* what the record says of p.                                               *)
LEMMA RecordFrame ==
    ASSUME RecordInv, NEW p \in Proc, file'[Canonical] = file[Canonical],
           \A q \in Proc \ {p} : Same(q), RecordOf(p)'
    PROVE  (CanonicalPid /\ \A q \in Proc : RecordOf(q))'
<1>1. CanonicalPid'
  BY DEF RecordInv, CanonicalPid, NoFile
<1>2. ASSUME NEW q \in Proc \ {p} PROVE RecordOf(q)'
  BY <1>2 DEF RecordInv, RecordOf, Same, Stage, Kept, Owns
<1>. QED BY <1>1, <1>2

(* What the record says of every process is kept by every step.             *)
LEMMA RecordNext ==
    ASSUME RecordInv, Next
    PROVE  (CanonicalPid /\ \A q \in Proc : RecordOf(q))'
<1>. USE NamesDistinct
<1>1. ASSUME NEW p \in Proc, NEW x \in Path, Judge(p, x)
      PROVE  (CanonicalPid /\ \A q \in Proc : RecordOf(q))'
  BY <1>1, SMTT(40) DEF Judge, MayJudge, RecordInv, IInv, TypeOK, PendingOK,
        TokenOK, ParentOK, CanonicalOK, HolderOwns, WriterOwns, Kept, Owns,
        HolderStages, Gone, RecordOf, CanonicalPid, Stage, Early, Over,
        Become, lvars, Path, NoFile, Empty, Record
<1>2. ASSUME NEW p \in Proc, Unlink(p)
      PROVE  (CanonicalPid /\ \A q \in Proc : RecordOf(q))'
  <2>1. file'[Canonical] \in {file[Canonical], NoFile} /\ CanonicalPid'
    BY <1>2 DEF Unlink, RecordInv, IInv, TypeOK, PendingOK, CanonicalPid, Path, NoFile
  <2>2. ASSUME NEW q \in Proc \ {p} PROVE RecordOf(q)'
    <3>1. <<q, Canonical>> \in stolen' => file'[Canonical].pid # q /\ Stage(q) \notin Early
      BY <1>2, NamesDistinct DEF Unlink, Robbed, NoFile, RecordInv, IInv, TypeOK,
           PendingOK, RecordOf, Path
    <3>2. file'[Canonical].pid = q => file'[Canonical] = file[Canonical]
      BY <1>2, <2>1, NamesDistinct DEF NoFile
    <3>3. Kept(q) /\ Stage(q) = "undo" => Kept(q)'
      BY <1>2 DEF Unlink, Robbed, Alive, Kept, Owns, Stage, RecordInv, IInv, TypeOK,
           PendingOK, Path
    <3>. QED BY <1>2, <3>1, <3>2, <3>3 DEF Unlink, RecordInv, RecordOf, Stage, Become,
         IInv, TypeOK
  <2>3. RecordOf(p)'
    <3>1. /\ pc'[p] \in {ret[p], LoopExhausted(ret[p])} /\ at[p] \in Path
          /\ ret[p] \in {"idle", "acquire", "compat", "prealias", "undo", "denied", "release", "releasec"}
          /\ tok'[p] = tok[p] /\ frozen'[p] = frozen[p] /\ Stage(p) = ret[p]
          /\ <<p, Canonical>> \in stolen' <=> <<p, Canonical>> \in stolen
      BY <1>2 DEF Unlink, Robbed, RecordInv, IInv, TypeOK, PendingOK, Become, Stage
    <3>2. CASE at[p] = Canonical
      <4>1. file'[Canonical] = NoFile
        BY <1>2, <3>2 DEF Unlink, RecordInv, IInv, TypeOK, Path
      <4>2. ret[p] \notin {"compat", "prealias"}
        BY <1>2, <3>2, NamesDistinct DEF Unlink, RecordInv, IInv, PendingOK
      <4>3. pc'[p] \in {"idle", "acquire", "denied", "release", "releasec"} /\ pc'[p] \in {ret[p], "denied"} /\ RecordOf(p)
        BY <3>1, <3>2, <4>2, <1>2 DEF Unlink, LoopExhausted, RecordInv, RecordOf
      <4>. QED BY <3>1, <4>1, <4>3, NamesDistinct DEF RecordOf, NoFile, Stage, Early
    <3>3. CASE at[p] # Canonical
      <4>1. file'[Canonical] = file[Canonical] /\ RecordOf(p) /\ HolderOwns /\ pc[p] = "unlink"
        BY <1>2, <3>3 DEF Unlink, RecordInv, IInv
      <4>2. pc'[p] = "undo" => Kept(p)'
        BY <3>1, <4>1 DEF LoopExhausted, RecordOf, HolderOwns, HolderStages, Kept, Owns
      <4>3. pc'[p] = ret[p] \/ (ret[p] = "acquire" /\ pc'[p] = "denied") \/ (ret[p] = "compat" /\ pc'[p] = "undo")
        BY <3>1 DEF LoopExhausted
      <4>4. file[Canonical].pid = p /\ file[Canonical].tok = "unwritten" => FALSE
        BY <3>1, <3>3, <4>1 DEF RecordOf, Over
      <4>. QED BY <3>1, <3>3, <4>1, <4>2, <4>3, <4>4 DEF RecordOf, Stage, Early, Over
    <3>. QED BY <3>2, <3>3
  <2>. QED BY <2>1, <2>2, <2>3
<1>3. ASSUME NEW p \in Proc, FreezeTargets(p)
      PROVE  (CanonicalPid /\ \A q \in Proc : RecordOf(q))'
  BY <1>3, SMTT(40) DEF FreezeTargets, RecordInv, IInv, TypeOK, PendingOK, TokenOK,
        ParentOK, CanonicalOK, HolderOwns, WriterOwns, Kept, Owns,
        HolderStages, Gone, RecordOf, CanonicalPid, Stage, Early, Over,
        Become, lvars, Path, NoFile, Empty, Record
<1>4. ASSUME NEW p \in Proc, CreateCanonical(p)
      PROVE  (CanonicalPid /\ \A q \in Proc : RecordOf(q))'
  BY <1>4, SMTT(40) DEF CreateCanonical, RecordInv, IInv, TypeOK, PendingOK,
        TokenOK, ParentOK, CanonicalOK, HolderOwns, WriterOwns, Kept, Owns,
        HolderStages, Gone, RecordOf, CanonicalPid, Stage, Early, Over,
        Become, lvars, Path, NoFile, Empty, Record
<1>5. ASSUME NEW p \in Proc, WriteCanonical(p)
      PROVE  (CanonicalPid /\ \A q \in Proc : RecordOf(q))'
  <2>1. CanonicalPid'
    BY <1>5 DEF WriteCanonical, RecordInv, IInv, TypeOK, CanonicalPid, Path, Record,
         Empty, NoFile
  <2>2. RecordOf(p)'
    BY <1>5, SMTT(20) DEF WriteCanonical, RecordInv, IInv, TypeOK, WriterOwns,
         RecordOf, Stage, Early, Over, Become, Path, Empty, Record
  <2>3. ASSUME NEW q \in Proc \ {p} PROVE RecordOf(q)'
    BY <1>5, SMTT(20) DEF WriteCanonical, RecordInv, IInv, TypeOK, RecordOf, Stage,
         Become, Path, Empty, Record, Kept, Owns
  <2>. QED BY <2>1, <2>2, <2>3
<1>6. ASSUME NEW p \in Proc, CanonicalBusy(p)
      PROVE  (CanonicalPid /\ \A q \in Proc : RecordOf(q))'
  BY <1>6, SMTT(40) DEF CanonicalBusy, RecordInv, IInv, TypeOK, PendingOK, TokenOK,
        ParentOK, CanonicalOK, HolderOwns, WriterOwns, Kept, Owns,
        HolderStages, Gone, RecordOf, CanonicalPid, Stage, Early, Over,
        Become, lvars, Path, NoFile, Empty, Record
<1>7. ASSUME NEW p \in Proc, CompatComplete(p)
      PROVE  (CanonicalPid /\ \A q \in Proc : RecordOf(q))'
  BY <1>7, SMTT(40) DEF CompatComplete, RecordInv, IInv, TypeOK, PendingOK,
        TokenOK, ParentOK, CanonicalOK, HolderOwns, WriterOwns, Kept, Owns,
        HolderStages, Gone, RecordOf, CanonicalPid, Stage, Early, Over,
        Become, lvars, Path, NoFile, Empty, Record
<1>8. ASSUME NEW p \in Proc, UndoCanonical(p)
      PROVE  (CanonicalPid /\ \A q \in Proc : RecordOf(q))'
  BY <1>8, SMTT(40) DEF UndoCanonical, RemoveIf, RecordInv, IInv, TypeOK,
        PendingOK, TokenOK, ParentOK, CanonicalOK, HolderOwns, WriterOwns,
        Kept, Owns, HolderStages, Gone, RecordOf, CanonicalPid, Stage, Early,
        Over, Become, lvars, Path, NoFile, Empty, Record
<1>9. ASSUME NEW p \in Proc, GiveUp(p)
      PROVE  (CanonicalPid /\ \A q \in Proc : RecordOf(q))'
  BY <1>9, SMTT(40) DEF GiveUp, RecordInv, IInv, TypeOK, PendingOK, TokenOK,
        ParentOK, CanonicalOK, HolderOwns, WriterOwns, Kept, Owns,
        HolderStages, Gone, RecordOf, CanonicalPid, Stage, Early, Over,
        Become, lvars, Path, NoFile, Empty, Record
<1>10. ASSUME NEW p \in Proc, Retry(p)
      PROVE  (CanonicalPid /\ \A q \in Proc : RecordOf(q))'
  BY <1>10, SMTT(40) DEF Retry, Forget, RecordInv, IInv, TypeOK, PendingOK,
        TokenOK, ParentOK, CanonicalOK, HolderOwns, WriterOwns, Kept, Owns,
        HolderStages, Gone, RecordOf, CanonicalPid, Stage, Early, Over,
        Become, lvars, Path, NoFile, Empty, Record
<1>11. ASSUME NEW p \in Proc, WriteCompat(p)
      PROVE  (CanonicalPid /\ \A q \in Proc : RecordOf(q))'
  <2>1. file'[Canonical] = file[Canonical] /\ \A q \in Proc \ {p} : Same(q)
    BY <1>11 DEF WriteCompat, Same, Become, RecordInv, IInv, TypeOK, PendingOK,
        lvars, Empty, Record, Path
  <2>2. RecordOf(p)'
    BY <1>11, <2>1, SMTT(20) DEF WriteCompat, RecordInv, IInv, TypeOK, PendingOK,
        TokenOK, CanonicalOK, HolderOwns, WriterOwns, Kept, Owns,
        HolderStages, RecordOf, CanonicalPid, Stage, Early, Over, Become,
        lvars, Path, NoFile, Empty, Record
  <2>. QED BY <2>1, <2>2, RecordFrame
<1>12. ASSUME NEW p \in Proc, NEW k \in Compat, CreateCompat(p, k)
      PROVE  (CanonicalPid /\ \A q \in Proc : RecordOf(q))'
  <2>1. file'[Canonical] = file[Canonical] /\ \A q \in Proc \ {p} : Same(q)
    BY <1>12 DEF CreateCompat, Same, Become, RecordInv, IInv, TypeOK, PendingOK,
        lvars, Empty, Record, Path
  <2>2. RecordOf(p)'
    BY <1>12, <2>1, SMTT(20) DEF CreateCompat, RecordInv, IInv, TypeOK, PendingOK,
        TokenOK, CanonicalOK, HolderOwns, WriterOwns, Kept, Owns,
        HolderStages, RecordOf, CanonicalPid, Stage, Early, Over, Become,
        lvars, Path, NoFile, Empty, Record
  <2>. QED BY <2>1, <2>2, RecordFrame
<1>13. ASSUME NEW p \in Proc, NEW k \in Compat, CompatBusy(p, k)
      PROVE  (CanonicalPid /\ \A q \in Proc : RecordOf(q))'
  BY <1>13, SMTT(40) DEF CompatBusy, RecordInv, IInv, TypeOK, PendingOK, TokenOK,
        ParentOK, CanonicalOK, HolderOwns, WriterOwns, Kept, Owns,
        HolderStages, Gone, RecordOf, CanonicalPid, Stage, Early, Over,
        Become, lvars, Path, NoFile, Empty, Record
<1>14. ASSUME NEW p \in Proc, NEW k \in Compat, UndoCompat(p, k)
      PROVE  (CanonicalPid /\ \A q \in Proc : RecordOf(q))'
  BY <1>14, SMTT(40) DEF UndoCompat, RemoveIf, RecordInv, IInv, TypeOK, PendingOK,
        TokenOK, ParentOK, CanonicalOK, HolderOwns, WriterOwns, Kept, Owns,
        HolderStages, Gone, RecordOf, CanonicalPid, Stage, Early, Over,
        Become, lvars, Path, NoFile, Empty, Record
<1>15. ASSUME NEW p \in Proc, NEW c \in Proc \ {p}, Spawn(p, c)
      PROVE  (CanonicalPid /\ \A q \in Proc : RecordOf(q))'
  BY <1>15, SMTT(40) DEF Spawn, RecordInv, IInv, TypeOK, PendingOK, TokenOK,
        ParentOK, CanonicalOK, HolderOwns, WriterOwns, Kept, Owns,
        HolderStages, Gone, RecordOf, CanonicalPid, Stage, Early, Over,
        Become, lvars, Path, NoFile, Empty, Record
<1>16. ASSUME NEW p \in Proc, AdoptBegin(p)
      PROVE  (CanonicalPid /\ \A q \in Proc : RecordOf(q))'
  BY <1>16, SMTT(40) DEF AdoptBegin, Reserved, RecordInv, IInv, TypeOK, PendingOK,
        TokenOK, ParentOK, CanonicalOK, HolderOwns, WriterOwns, Kept, Owns,
        HolderStages, Gone, RecordOf, CanonicalPid, Stage, Early, Over,
        Become, lvars, Path, NoFile, Empty, Record
<1>17. ASSUME NEW p \in Proc, AdoptSwap(p)
      PROVE  (CanonicalPid /\ \A q \in Proc : RecordOf(q))'
  <2>1. CanonicalPid'
    BY <1>17 DEF AdoptSwap, RecordInv, IInv, TypeOK, PendingOK, CanonicalPid, Path,
         Record, NoFile
  <2>2. RecordOf(p)'
    BY <1>17, SMTT(20) DEF AdoptSwap, Robbed, RecordInv, IInv, TypeOK, PendingOK,
         TokenOK, RecordOf, Stage, Early, Over, Become, Path, Record
  <2>3. ASSUME NEW q \in Proc \ {p} PROVE RecordOf(q)'
    <3>1. CASE at[p] = Canonical
      <4>1. file'[Canonical].pid # q
        BY <1>17, <3>1 DEF AdoptSwap, RecordInv, IInv, TypeOK, Path, Record
      <4>2. <<q, Canonical>> \in stolen' => Stage(q) \notin Early
        BY <1>17, <3>1 DEF AdoptSwap, Robbed, RecordInv, RecordOf
      <4>3. Stage(q) = "undo" => Kept(q)'
        <5>0. SUFFICES ASSUME Stage(q) = "undo", ~Kept(q)' PROVE FALSE
          OBVIOUS
        <5>1. Stage(q) = "undo" /\ <<q, Canonical>> \notin stolen /\ <<q, Canonical>> \notin stolen'
          BY <1>17, <5>0 DEF Kept, AdoptSwap
        <5>2. file[Canonical].pid = q /\ file[Canonical].tok = tok[q] /\ Alive(q) /\ Stage(q) \notin Gone
          BY <5>1 DEF RecordInv, RecordOf, Kept, Owns, Alive, Stage, Gone, IInv,
               TypeOK, TokenOK
        <5>3. tok[p] = tok[q]
          BY <1>17, <3>1, <5>1, <5>2 DEF AdoptSwap, Robbed
        <5>4. pc[p] = "swap" /\ tok[p] # p /\ tok[p] \in Proc
          BY <1>17 DEF AdoptSwap, RecordInv, IInv, TokenOK, Stage
        <5>. QED BY <5>2, <5>3, <5>4 DEF RecordInv, IInv, ParentOK, Gone
      <4>. QED BY <1>17, <4>1, <4>2, <4>3 DEF AdoptSwap, RecordInv, RecordOf, Stage,
           Become, IInv, TypeOK
    <3>2. CASE at[p] # Canonical
      BY <1>17, <3>2 DEF AdoptSwap, Robbed, RecordInv, IInv, TypeOK, RecordOf,
           Stage, Become, Path, Kept, Owns
    <3>. QED BY <3>1, <3>2
  <2>. QED BY <2>1, <2>2, <2>3
<1>18. ASSUME NEW p \in Proc, HandoffSeen(p)
      PROVE  (CanonicalPid /\ \A q \in Proc : RecordOf(q))'
  <2>1. file'[Canonical] = file[Canonical] /\ \A q \in Proc \ {p} : Same(q)
    BY <1>18 DEF HandoffSeen, Same, Become, RecordInv, IInv, TypeOK, PendingOK,
        lvars, Empty, Record, Path
  <2>2. RecordOf(p)'
    BY <1>18, <2>1, SMTT(20) DEF HandoffSeen, RecordInv, IInv, TypeOK, PendingOK,
        TokenOK, CanonicalOK, HolderOwns, WriterOwns, Kept, Owns,
        HolderStages, RecordOf, CanonicalPid, Stage, Early, Over, Become,
        lvars, Path, NoFile, Empty, Record
  <2>. QED BY <2>1, <2>2, RecordFrame
<1>19. ASSUME NEW p \in Proc, NEW x \in Path, AdoptCheck(p, x)
      PROVE  (CanonicalPid /\ \A q \in Proc : RecordOf(q))'
  BY <1>19, SMTT(40) DEF AdoptCheck, RecordInv, IInv, TypeOK, PendingOK, TokenOK,
        ParentOK, CanonicalOK, HolderOwns, WriterOwns, Kept, Owns,
        HolderStages, Gone, RecordOf, CanonicalPid, Stage, Early, Over,
        Become, lvars, Path, NoFile, Empty, Record
<1>20. ASSUME NEW p \in Proc, RefreshCompat(p)
      PROVE  (CanonicalPid /\ \A q \in Proc : RecordOf(q))'
  BY <1>20, SMTT(40) DEF RefreshCompat, RecordInv, IInv, TypeOK, PendingOK,
        TokenOK, ParentOK, CanonicalOK, HolderOwns, WriterOwns, Kept, Owns,
        HolderStages, Gone, RecordOf, CanonicalPid, Stage, Early, Over,
        Become, lvars, Path, NoFile, Empty, Record
<1>21. ASSUME NEW p \in Proc, RefreshCanonical(p)
      PROVE  (CanonicalPid /\ \A q \in Proc : RecordOf(q))'
  BY <1>21, SMTT(40) DEF RefreshCanonical, RecordInv, IInv, TypeOK, PendingOK,
        TokenOK, ParentOK, CanonicalOK, HolderOwns, WriterOwns, Kept, Owns,
        HolderStages, Gone, RecordOf, CanonicalPid, Stage, Early, Over,
        Become, lvars, Path, NoFile, Empty, Record
<1>22. ASSUME NEW p \in Proc, EndMutation(p) \/ FinishWork(p) \/ HeartbeatAborts(p)
      PROVE  (CanonicalPid /\ \A q \in Proc : RecordOf(q))'
  <2>1. file'[Canonical] = file[Canonical] /\ \A q \in Proc \ {p} : Same(q)
    BY <1>22 DEF EndMutation, FinishWork, HeartbeatAborts, Same, Become, RecordInv,
        IInv, TypeOK, PendingOK, lvars, Empty, Record, Path
  <2>2. RecordOf(p)'
    BY <1>22, <2>1, SMTT(20) DEF EndMutation, FinishWork, HeartbeatAborts, RecordInv,
        IInv, TypeOK, PendingOK, TokenOK, CanonicalOK, HolderOwns, WriterOwns,
        Kept, Owns, HolderStages, RecordOf, CanonicalPid, Stage, Early, Over,
        Become, lvars, Path, NoFile, Empty, Record
  <2>. QED BY <2>1, <2>2, RecordFrame
<1>23. ASSUME NEW p \in Proc, BeginAlias(p) \/ DeferAlias(p) \/ AliasFails(p)
      PROVE  (CanonicalPid /\ \A q \in Proc : RecordOf(q))'
  <2>1. file'[Canonical] = file[Canonical] /\ \A q \in Proc \ {p} : Same(q)
    BY <1>23 DEF BeginAlias, DeferAlias, AliasFails, Same, Become, RecordInv, IInv,
        TypeOK, PendingOK, lvars, Empty, Record, Path
  <2>2. RecordOf(p)'
    BY <1>23, <2>1, SMTT(20) DEF BeginAlias, DeferAlias, AliasFails, RecordInv, IInv,
        TypeOK, PendingOK, TokenOK, CanonicalOK, HolderOwns, WriterOwns, Kept,
        Owns, HolderStages, RecordOf, CanonicalPid, Stage, Early, Over,
        Become, lvars, Path, NoFile, Empty, Record
  <2>. QED BY <2>1, <2>2, RecordFrame
<1>24. ASSUME NEW p \in Proc, CheckBeforeAlias(p)
      PROVE  (CanonicalPid /\ \A q \in Proc : RecordOf(q))'
  BY <1>24, SMTT(40) DEF CheckBeforeAlias, RecordInv, IInv, TypeOK, PendingOK,
        TokenOK, ParentOK, CanonicalOK, HolderOwns, WriterOwns, Kept, Owns,
        HolderStages, Gone, RecordOf, CanonicalPid, Stage, Early, Over,
        Become, lvars, Path, NoFile, Empty, Record
<1>25. ASSUME NEW p \in Proc, MakeAlias(p)
      PROVE  (CanonicalPid /\ \A q \in Proc : RecordOf(q))'
  BY <1>25, SMTT(40) DEF MakeAlias, RecordInv, IInv, TypeOK, PendingOK, TokenOK,
        ParentOK, CanonicalOK, HolderOwns, WriterOwns, Kept, Owns,
        HolderStages, Gone, RecordOf, CanonicalPid, Stage, Early, Over,
        Become, lvars, Path, NoFile, Empty, Record
<1>26. ASSUME NEW p \in Proc, ReleaseMigrationLock(p)
      PROVE  (CanonicalPid /\ \A q \in Proc : RecordOf(q))'
  BY <1>26, SMTT(40) DEF ReleaseMigrationLock, RemoveIf, RecordInv, IInv, TypeOK,
        PendingOK, TokenOK, ParentOK, CanonicalOK, HolderOwns, WriterOwns,
        Kept, Owns, HolderStages, Gone, RecordOf, CanonicalPid, Stage, Early,
        Over, Become, lvars, Path, NoFile, Empty, Record
<1>27. ASSUME NEW p \in Proc, NEW k \in Compat, TakeMigrationLock(p, k)
      PROVE  (CanonicalPid /\ \A q \in Proc : RecordOf(q))'
  <2>1. file'[Canonical] = file[Canonical] /\ \A q \in Proc \ {p} : Same(q)
    BY <1>27 DEF TakeMigrationLock, Same, Become, RecordInv, IInv, TypeOK, PendingOK,
        lvars, Empty, Record, Path
  <2>2. RecordOf(p)'
    BY <1>27, <2>1, SMTT(20) DEF TakeMigrationLock, RecordInv, IInv, TypeOK,
        PendingOK, TokenOK, CanonicalOK, HolderOwns, WriterOwns, Kept, Owns,
        HolderStages, RecordOf, CanonicalPid, Stage, Early, Over, Become,
        lvars, Path, NoFile, Empty, Record
  <2>. QED BY <2>1, <2>2, RecordFrame
<1>28. ASSUME NEW p \in Proc, ReleaseCanonical(p)
      PROVE  (CanonicalPid /\ \A q \in Proc : RecordOf(q))'
  BY <1>28, SMTT(40) DEF ReleaseCanonical, RemoveIf, RecordInv, IInv, TypeOK,
        PendingOK, TokenOK, ParentOK, CanonicalOK, HolderOwns, WriterOwns,
        Kept, Owns, HolderStages, Gone, RecordOf, CanonicalPid, Stage, Early,
        Over, Become, lvars, Path, NoFile, Empty, Record
<1>29. ASSUME NEW p \in Proc, ReleaseComplete(p)
      PROVE  (CanonicalPid /\ \A q \in Proc : RecordOf(q))'
  BY <1>29, SMTT(40) DEF ReleaseComplete, RecordInv, IInv, TypeOK, PendingOK,
        TokenOK, ParentOK, CanonicalOK, HolderOwns, WriterOwns, Kept, Owns,
        HolderStages, Gone, RecordOf, CanonicalPid, Stage, Early, Over,
        Become, lvars, Path, NoFile, Empty, Record
<1>30. ASSUME NEW p \in Proc, NEW k \in Compat, ReleaseCompat(p, k)
      PROVE  (CanonicalPid /\ \A q \in Proc : RecordOf(q))'
  BY <1>30, SMTT(40) DEF ReleaseCompat, RemoveIf, RecordInv, IInv, TypeOK,
        PendingOK, TokenOK, ParentOK, CanonicalOK, HolderOwns, WriterOwns,
        Kept, Owns, HolderStages, Gone, RecordOf, CanonicalPid, Stage, Early,
        Over, Become, lvars, Path, NoFile, Empty, Record
<1>31. ASSUME NEW p \in Proc, WriteCanonicalFails(p)
      PROVE  (CanonicalPid /\ \A q \in Proc : RecordOf(q))'
  <2>1. file'[Canonical] = file[Canonical] /\ \A q \in Proc \ {p} : Same(q)
    BY <1>31 DEF WriteCanonicalFails, RemoveIf, Same, Become, RecordInv, IInv,
        TypeOK, PendingOK, lvars, Empty, Record, Path
  <2>2. RecordOf(p)'
    BY <1>31, <2>1, SMTT(20) DEF WriteCanonicalFails, RemoveIf, RecordInv, IInv,
        TypeOK, PendingOK, TokenOK, CanonicalOK, HolderOwns, WriterOwns, Kept,
        Owns, HolderStages, RecordOf, CanonicalPid, Stage, Early, Over,
        Become, lvars, Path, NoFile, Empty, Record
  <2>. QED BY <2>1, <2>2, RecordFrame
<1>32. ASSUME NEW p \in Proc, WriteCompatFails(p) \/ AdoptFails(p) \/ SpawnFails(p)
      PROVE  (CanonicalPid /\ \A q \in Proc : RecordOf(q))'
  <2>1. file'[Canonical] = file[Canonical] /\ \A q \in Proc \ {p} : Same(q)
    BY <1>32 DEF WriteCompatFails, AdoptFails, SpawnFails, Same, Become, RecordInv,
        IInv, TypeOK, PendingOK, lvars, Empty, Record, Path
  <2>2. RecordOf(p)'
    BY <1>32, <2>1, SMTT(20) DEF WriteCompatFails, AdoptFails, SpawnFails, RecordInv,
        IInv, TypeOK, PendingOK, TokenOK, CanonicalOK, HolderOwns, WriterOwns,
        Kept, Owns, HolderStages, RecordOf, CanonicalPid, Stage, Early, Over,
        Become, lvars, Path, NoFile, Empty, Record
  <2>. QED BY <2>1, <2>2, RecordFrame
<1>33. ASSUME NEW p \in Proc, HandoffFails(p)
      PROVE  (CanonicalPid /\ \A q \in Proc : RecordOf(q))'
  BY <1>33, SMTT(40) DEF HandoffFails, Alive, RecordInv, IInv, TypeOK, PendingOK,
        TokenOK, ParentOK, CanonicalOK, HolderOwns, WriterOwns, Kept, Owns,
        HolderStages, Gone, RecordOf, CanonicalPid, Stage, Early, Over,
        Become, lvars, Path, NoFile, Empty, Record
<1>34. ASSUME NEW p \in Proc, Launch(p) \/ Exit(p)
      PROVE  (CanonicalPid /\ \A q \in Proc : RecordOf(q))'
  <2>1. file'[Canonical] = file[Canonical] /\ \A q \in Proc \ {p} : Same(q)
    BY <1>34 DEF Launch, Exit, Same, Become, RecordInv, IInv, TypeOK, PendingOK,
        lvars, Empty, Record, Path
  <2>2. RecordOf(p)'
    BY <1>34, <2>1, SMTT(20) DEF Launch, Exit, RecordInv, IInv, TypeOK, PendingOK,
        TokenOK, CanonicalOK, HolderOwns, WriterOwns, Kept, Owns,
        HolderStages, RecordOf, CanonicalPid, Stage, Early, Over, Become,
        lvars, Path, NoFile, Empty, Record
  <2>. QED BY <2>1, <2>2, RecordFrame
<1>35. ASSUME NEW p \in Proc, Crash(p)
      PROVE  (CanonicalPid /\ \A q \in Proc : RecordOf(q))'
  BY <1>35, SMTT(40) DEF Crash, Crashed, RecordInv, IInv, TypeOK, PendingOK,
        TokenOK, ParentOK, CanonicalOK, HolderOwns, WriterOwns, Kept, Owns,
        HolderStages, Gone, RecordOf, CanonicalPid, Stage, Early, Over,
        Become, lvars, Path, NoFile, Empty, Record
<1>36. ASSUME NEW x \in Path, Age(x)
      PROVE  (CanonicalPid /\ \A q \in Proc : RecordOf(q))'
  BY <1>36, SMTT(40) DEF Age, pvars, dvars, RecordInv, IInv, TypeOK, PendingOK,
        TokenOK, ParentOK, CanonicalOK, HolderOwns, WriterOwns, Kept, Owns,
        HolderStages, Gone, RecordOf, CanonicalPid, Stage, Early, Over,
        Become, lvars, Path, NoFile, Empty, Record
<1>37. ASSUME NEW d \in Desktop, DesktopLeave(d)
      PROVE  (CanonicalPid /\ \A q \in Proc : RecordOf(q))'
  <2>1. file'[Canonical] = file[Canonical]
    BY <1>37 DEF DesktopLeave, RecordInv, IInv, CanonicalOK, Record
  <2>2. \A q \in Proc : Same(q)
    BY <1>37 DEF DesktopLeave, Same, Forget, pvars
  <2>. QED BY <2>1, <2>2 DEF RecordInv, RecordOf, CanonicalPid, Same, Stage, Kept, Owns,
       NoFile
<1>38. ASSUME NEW d \in Desktop, DesktopCrash(d)
      PROVE  (CanonicalPid /\ \A q \in Proc : RecordOf(q))'
  BY <1>38, SMTT(40) DEF DesktopCrash, pvars, Crashed, RecordInv, IInv, TypeOK,
        PendingOK, TokenOK, ParentOK, CanonicalOK, HolderOwns, WriterOwns,
        Kept, Owns, HolderStages, Gone, RecordOf, CanonicalPid, Stage, Early,
        Over, Become, lvars, Path, NoFile, Empty, Record
<1>39. ASSUME NEW d \in Desktop, NEW k \in Compat, DesktopEnter(d, k)
      PROVE  (CanonicalPid /\ \A q \in Proc : RecordOf(q))'
  <2>1. file'[Canonical] = file[Canonical] /\ \A q \in Proc : Same(q)
    BY <1>39 DEF DesktopEnter, Same, pvars
  <2>. QED BY <2>1 DEF RecordInv, RecordOf, CanonicalPid, Same, Stage, Kept, Owns, NoFile
<1>. QED
  BY <1>1, <1>2, <1>3, <1>4, <1>5, <1>6, <1>7, <1>8, <1>9, <1>10, <1>11,
     <1>12, <1>13, <1>14, <1>15, <1>16, <1>17, <1>18, <1>19, <1>20, <1>21,
     <1>22, <1>23, <1>24, <1>25, <1>26, <1>27, <1>28, <1>29, <1>30, <1>31,
     <1>32, <1>33, <1>34, <1>35, <1>36, <1>37, <1>38, <1>39
  DEF Next, Step, Failure, Environment, Sweep, Acquire, Handoff, Work, Release

(* Nobody is named by a record at first.                                    *)
LEMMA InitRecordInv ==
    ASSUME Init
    PROVE  RecordInv
<1>1. IInv
  BY InitIInv
<1>2. CanonicalPid
  BY NamesDistinct DEF Init, CanonicalPid, NoFile, Path
<1>3. ASSUME NEW p \in Proc PROVE RecordOf(p)
  BY NamesDistinct DEF Init, RecordOf, Stage, NoFile, Path
<1>. QED BY <1>1, <1>2, <1>3 DEF RecordInv

(* The record invariant is inductive.                                       *)
LEMMA StepRecordInv ==
    ASSUME RecordInv, [Next]_vars
    PROVE  RecordInv'
<1>1. IInv'
  BY StepIInv DEF RecordInv
<1>2. CASE Next
  BY <1>1, <1>2, RecordNext DEF RecordInv
<1>3. CASE UNCHANGED vars
  BY <1>1, <1>3 DEF vars, lvars, pvars, dvars, RecordInv, RecordOf, CanonicalPid, Stage,
     Kept, Owns, NoFile
<1>. QED BY <1>2, <1>3

(* What the canonical record says holds in every reachable state.           *)
THEOREM RecordInvariance == Spec => []RecordInv
<1>. QED BY InitRecordInv, StepRecordInv, PTL DEF Spec

----------------------------------------------------------------------------
(* Who was robbed enters no mutation: both of the checks before one look    *)
(* for the canonical record.                                                *)
LEMMA RobbedStops ==
    ASSUME RecordInv, [Next]_vars
    PROVE  \A p \in Proc :
              <<p, Canonical>> \in stolen /\ ~Mutating(p) => ~Mutating(p)'
<1>1. SUFFICES ASSUME NEW p \in Proc, <<p, Canonical>> \in stolen, ~Mutating(p), Mutating(p)'
               PROVE  FALSE
  OBVIOUS
<1>2. file[Canonical].pid # p
  BY <1>1 DEF RecordInv, RecordOf
<1>3. ~Owns(p, Canonical) /\ ~OwnsBundle(p)
  BY <1>2 DEF Owns, OwnsBundle
<1>4. CASE UNCHANGED vars
  BY <1>1, <1>4 DEF vars, pvars, Mutating
<1>5. ASSUME NEW q \in Proc, Sweep(q) PROVE FALSE
  BY <1>1, <1>5 DEF Sweep, Judge, Unlink, LoopExhausted, Become, Mutating, RecordInv,
       IInv, TypeOK, PendingOK
<1>6. ASSUME NEW q \in Proc, Acquire(q) PROVE FALSE
  BY <1>1, <1>6 DEF Acquire, FreezeTargets, CreateCanonical, WriteCanonical,
       CanonicalBusy, CompatComplete,
     UndoCanonical, GiveUp, Retry, WriteCompat, CreateCompat, CompatBusy, UndoCompat, RemoveIf, Become, Mutating, RecordInv, IInv, TypeOK
<1>7. ASSUME NEW q \in Proc, Handoff(q) PROVE FALSE
  BY <1>1, <1>7 DEF Handoff, Spawn, AdoptBegin, AdoptSwap, HandoffSeen, AdoptCheck,
       Become, Mutating, RecordInv, IInv, TypeOK
<1>8. ASSUME NEW q \in Proc, Work(q) PROVE FALSE
  BY <1>1, <1>3, <1>8 DEF Work, RefreshCompat, RefreshCanonical, EndMutation,
       FinishWork, BeginAlias, DeferAlias,
     CheckBeforeAlias, MakeAlias, ReleaseMigrationLock, RemoveIf, HeartbeatAborts, TakeMigrationLock, Become, Mutating, RecordInv, IInv, TypeOK
<1>9. ASSUME NEW q \in Proc, Release(q) PROVE FALSE
  BY <1>1, <1>9 DEF Release, ReleaseCanonical, ReleaseComplete, ReleaseCompat, RemoveIf,
       Become, Mutating, RecordInv, IInv, TypeOK
<1>10. ASSUME NEW q \in Proc, Failure(q) PROVE FALSE
  BY <1>1, <1>10 DEF Failure, WriteCanonicalFails, RemoveIf, WriteCompatFails,
       AdoptFails, SpawnFails, HandoffFails,
     AliasFails, Become, Mutating, RecordInv, IInv, TypeOK
<1>11. CASE Environment
  BY <1>1, <1>11 DEF Environment, Launch, Exit, Crash, Age, DesktopLeave, DesktopCrash,
       DesktopEnter, pvars, Become, Mutating, RecordInv, IInv, TypeOK
<1>. QED
  BY <1>4, <1>5, <1>6, <1>7, <1>8, <1>9, <1>10, <1>11 DEF Next, Step

(* Once the canonical lock is lost, the mutation under way is the last one: *)
(* _assert_provision_lock_owned and the check before the alias see to it.   *)
THEOREM RobbedIsStopped == Spec => RobbedNeverMutatesAgain
<1>1. RecordInv /\ [Next]_vars =>
        [\A p \in Proc :
            <<p, Canonical>> \in stolen /\ ~Mutating(p) => ~Mutating(p)']_vars
  BY RobbedStops
<1>. QED BY <1>1, RecordInvariance, PTL DEF Spec, RobbedNeverMutatesAgain

----------------------------------------------------------------------------
(* A process was killed, or a half-written lock went stale.                 *)
Faulty == Crashed # {} \/ ages > 0

(* Without a fault nobody is robbed, a pending unlink of the canonical lock  *)
(* is its owner's, and a child finds its parent waiting with the lock.      *)
FaultOf(p) ==
    ~Faulty =>
      /\ <<p, Canonical>> \notin stolen
      /\ pc[p] = "unlink" /\ at[p] = Canonical => file[Canonical].pid = p
      /\ tok[p] # p /\ Stage(p) \in Early \ {"idle"} => pc[tok[p]] = "await" /\ Owns(tok[p], Canonical)

(* Only a fault of this kind makes a lock stale.                            *)
StaleOK == stale # {} => ages > 0

FaultInv == RecordInv /\ StaleOK /\ \A p \in Proc : FaultOf(p)

(* A fault stays a fault.                                                   *)
LEMMA FaultStays ==
    ASSUME RecordInv, Next, Faulty
    PROVE  Faulty'
<1>. USE DEF Faulty, Crashed, RecordInv, IInv, TypeOK, PendingOK
<1>1. ASSUME NEW q \in Proc, Step(q) \/ Failure(q) PROVE Faulty'
  <2>1. ages' = ages /\ dpc' = dpc
    BY <1>1 DEF Step, Failure, Sweep, Judge, Unlink, Acquire, FreezeTargets,
         CreateCanonical, WriteCanonical, CanonicalBusy, CompatComplete,
     UndoCanonical, GiveUp, Retry, WriteCompat, CreateCompat, CompatBusy, UndoCompat, Handoff, Spawn, AdoptBegin, AdoptSwap, HandoffSeen, AdoptCheck,
     Work, RefreshCompat, RefreshCanonical, EndMutation, FinishWork, BeginAlias, DeferAlias,
     CheckBeforeAlias, MakeAlias, ReleaseMigrationLock, HeartbeatAborts, TakeMigrationLock, Release, ReleaseCanonical, ReleaseComplete, ReleaseCompat,
     WriteCanonicalFails, WriteCompatFails, AdoptFails, SpawnFails, HandoffFails,
     AliasFails, dvars
  <2>2. \A p \in Proc : pc[p] = "crashed" => pc'[p] = "crashed"
    <3>1. CASE Sweep(q) \/ Acquire(q)
      BY <3>1 DEF Sweep, Judge, MayJudge, Unlink, Acquire, FreezeTargets,
           CreateCanonical, WriteCanonical, CanonicalBusy, CompatComplete,
         UndoCanonical, GiveUp, Retry, WriteCompat, CreateCompat, CompatBusy, UndoCompat, RemoveIf, Become
    <3>2. CASE Handoff(q) \/ Failure(q)
      BY <3>2 DEF Handoff, Spawn, AdoptBegin, AdoptSwap, HandoffSeen, AdoptCheck, Failure,
         WriteCanonicalFails, WriteCompatFails, AdoptFails, SpawnFails, HandoffFails, AliasFails, Alive, RemoveIf, Become
    <3>3. CASE Work(q) \/ Release(q)
      BY <3>3 DEF Work, RefreshCompat, RefreshCanonical, EndMutation, FinishWork,
           BeginAlias, DeferAlias,
         CheckBeforeAlias, MakeAlias, ReleaseMigrationLock, HeartbeatAborts, TakeMigrationLock, Release, ReleaseCanonical, ReleaseComplete, ReleaseCompat, RemoveIf, Become
    <3>. QED BY <1>1, <3>1, <3>2, <3>3 DEF Step
  <2>. QED BY <2>1, <2>2
<1>2. CASE Environment
  <2>0. ages \in Nat
    BY BoundsNat
  <2>1. ages' = ages \/ ages' = ages + 1
    BY <1>2 DEF Environment, Launch, Exit, Crash, Age, DesktopLeave, DesktopCrash,
         DesktopEnter
  <2>2. /\ \A q \in Proc : pc[q] = "crashed" => pc'[q] = "crashed"
        /\ \A d \in Desktop : dpc[d] = "crashed" => dpc'[d] = "crashed"
    BY <1>2 DEF Environment, Launch, Exit, Crash, Age, DesktopLeave, DesktopCrash,
         DesktopEnter, pvars, dvars, Become
  <2>. QED BY <2>0, <2>1, <2>2
<1>. QED BY <1>1, <1>2 DEF Next

(* As long as there was no fault, no step robs anybody.                     *)
LEMMA FaultNext ==
    ASSUME FaultInv, Next, ~Faulty'
    PROVE  (\A q \in Proc : FaultOf(q))'
<1>. USE NamesDistinct
<1>0. ~Faulty
  BY FaultStays DEF FaultInv
<1>1. ASSUME NEW p \in Proc, NEW x \in Path, Judge(p, x)
      PROVE  (\A q \in Proc : FaultOf(q))'
  <2>1. ~Abandoned(Canonical)
    <3>1. SUFFICES ASSUME file[Canonical].tok # "unwritten", file[Canonical] # NoFile, ~Alive(file[Canonical].pid) PROVE FALSE
      BY <1>0 DEF Abandoned, FaultInv, RecordInv, IInv, TypeOK, FaultOf, StaleOK, Faulty
    <3>2. PICK q \in Proc : file[Canonical].pid = q
      BY <3>1 DEF FaultInv, RecordInv, CanonicalPid
    <3>3. pc[q] \in {"exited", "crashed"}
      BY <3>1, <3>2 DEF Alive
    <3>. QED BY <1>0, <3>2, <3>3 DEF FaultInv, RecordInv, RecordOf, Stage, Over,
         Faulty, Crashed
  <2>2. x # Canonical
    BY <1>1, <2>1 DEF Judge
  <2>. QED BY <1>0, <1>1, <2>2 DEF Judge, MayJudge, FaultInv, RecordInv, IInv, TypeOK,
       FaultOf, Owns, Stage, Early, Become, lvars, PendingOK
<1>2. ASSUME NEW p \in Proc, Unlink(p) PROVE (\A q \in Proc : FaultOf(q))'
  <2>1. at[p] = Canonical => file[Canonical].pid = p
    BY <1>0, <1>2 DEF Unlink, FaultInv, FaultOf
  <2>2. \A q \in Proc : <<q, Canonical>> \notin stolen'
    BY <1>0, <1>2, <2>1 DEF Unlink, Robbed, FaultInv, FaultOf
  <2>3. at[p] # Canonical => file'[Canonical] = file[Canonical]
    BY <1>2 DEF Unlink, FaultInv, RecordInv, IInv, TypeOK, FaultOf, PendingOK
  <2>. QED BY <1>0, <1>2, <2>1, <2>2, <2>3 DEF Unlink, LoopExhausted, FaultInv,
       RecordInv, IInv, TypeOK, FaultOf, PendingOK, TokenOK, Owns, Stage, Early, Become
<1>3. ASSUME NEW p \in Proc,
             FreezeTargets(p) \/ CreateCanonical(p) \/ WriteCanonical(p) \/
             CanonicalBusy(p) \/ CompatComplete(p)
      PROVE  (\A q \in Proc : FaultOf(q))'
  BY <1>3, <1>0, SMTT(15) DEF FreezeTargets, CreateCanonical, WriteCanonical,
        CanonicalBusy, CompatComplete, FaultInv, RecordInv, IInv, StaleOK, FaultOf,
        TypeOK, PendingOK, TokenOK, ParentOK, HolderOwns, WriterOwns, Kept,
        Owns, HolderStages, Gone, RecordOf, CanonicalPid, Stage, Early, Over,
        Become, lvars, Path, NoFile, Empty, Record
<1>4. ASSUME NEW p \in Proc,
             UndoCanonical(p) \/ GiveUp(p) \/ Retry(p) \/ WriteCompat(p) \/
             (\E k \in Compat : CreateCompat(p, k))
      PROVE  (\A q \in Proc : FaultOf(q))'
  BY <1>4, <1>0, SMTT(15) DEF UndoCanonical, RemoveIf, GiveUp, Retry, Forget,
        WriteCompat, CreateCompat, FaultInv, RecordInv, IInv, StaleOK, FaultOf, TypeOK,
        PendingOK, TokenOK, ParentOK, HolderOwns, WriterOwns, Kept, Owns,
        HolderStages, Gone, RecordOf, CanonicalPid, Stage, Early, Over,
        Become, lvars, Path, NoFile, Empty, Record
<1>5. ASSUME NEW p \in Proc, NEW c \in Proc \ {p}, Spawn(p, c)
      PROVE  (\A q \in Proc : FaultOf(q))'
  <2>1. Owns(p, Canonical)
    BY <1>0, <1>5 DEF Spawn, FaultInv, RecordInv, IInv, TypeOK, FaultOf, HolderOwns,
         HolderStages, Stage, Kept
  <2>2. tok[c] = None /\ None \notin Proc
    BY <1>5, NamesDistinct DEF Spawn, FaultInv, RecordInv, IInv, TypeOK, FaultOf,
         TokenOK, Stage
  <2>. QED BY <1>0, <1>5, <2>1, <2>2 DEF Spawn, FaultInv, RecordInv, IInv, TypeOK,
       FaultOf, TokenOK, Owns, Stage, Early, lvars
<1>6. ASSUME NEW p \in Proc, AdoptSwap(p) PROVE (\A q \in Proc : FaultOf(q))'
  <2>1. tok[p] \in Proc /\ tok[p] # p /\ pc[tok[p]] = "await" /\ Owns(tok[p], Canonical) /\ tok[tok[p]] = tok[p]
    BY <1>0, <1>6 DEF AdoptSwap, FaultInv, RecordInv, IInv, TypeOK, FaultOf, TokenOK,
         Stage, Early, RecordOf
  <2>2. at[p] = Canonical => stolen' = stolen
    BY <1>6, <2>1 DEF AdoptSwap, Owns
  <2>3. \A q \in Proc : <<q, Canonical>> \notin stolen'
    BY <1>0, <1>6, <2>2 DEF AdoptSwap, Robbed, FaultInv, FaultOf
  <2>4. ASSUME NEW q \in Proc \ {p}, tok[q] # q, Stage(q) \in Early \ {"idle"}
        PROVE  at[p] # Canonical /\ pc[tok[q]] = "await" /\ Owns(tok[q], Canonical) /\ tok[q] \in Proc
    <3>1. tok[q] \in Proc /\ pc[tok[q]] = "await" /\ Owns(tok[q], Canonical)
      BY <1>0, <2>4 DEF FaultInv, RecordInv, IInv, TypeOK, FaultOf, TokenOK, Early
    <3>2. tok[q] = tok[p]
      BY <2>1, <3>1 DEF Owns
    <3>. QED BY <2>1, <2>4, <3>1, <3>2 DEF FaultInv, RecordInv, IInv, TypeOK, FaultOf,
         ParentOK
  <2>5. \A q \in Proc : pc[q] = "unlink" /\ at[q] = Canonical => at[p] # Canonical
    BY <1>0, <2>1 DEF FaultInv, RecordInv, IInv, TypeOK, FaultOf, Owns
  <2>. QED BY <1>0, <1>6, <2>1, <2>3, <2>4, <2>5 DEF AdoptSwap, FaultInv, RecordInv,
       IInv, TypeOK, FaultOf, PendingOK, Owns, Stage, Early, Become
<1>7. ASSUME NEW p \in Proc,
             (\E k \in Compat : CompatBusy(p, k)) \/
             (\E k \in Compat : UndoCompat(p, k)) \/ AdoptBegin(p) \/
             HandoffSeen(p) \/ (\E x \in Path : AdoptCheck(p, x))
      PROVE  (\A q \in Proc : FaultOf(q))'
  BY <1>7, <1>0, SMTT(15) DEF CompatBusy, UndoCompat, RemoveIf, AdoptBegin,
        Reserved, HandoffSeen, AdoptCheck, FaultInv, RecordInv, IInv, StaleOK, FaultOf,
        TypeOK, PendingOK, TokenOK, ParentOK, HolderOwns, WriterOwns, Kept,
        Owns, HolderStages, Gone, RecordOf, CanonicalPid, Stage, Early, Over,
        Become, lvars, Path, NoFile, Empty, Record
<1>8. ASSUME NEW p \in Proc,
             RefreshCompat(p) \/ RefreshCanonical(p) \/ EndMutation(p) \/
             FinishWork(p) \/ HeartbeatAborts(p) \/ BeginAlias(p) \/
             DeferAlias(p) \/ AliasFails(p) \/ CheckBeforeAlias(p)
      PROVE  (\A q \in Proc : FaultOf(q))'
  BY <1>8, <1>0, SMTT(15) DEF RefreshCompat, RefreshCanonical, EndMutation,
        FinishWork, HeartbeatAborts, BeginAlias, DeferAlias, AliasFails,
        CheckBeforeAlias, FaultInv, RecordInv, IInv, StaleOK, FaultOf, TypeOK,
        PendingOK, TokenOK, ParentOK, HolderOwns, WriterOwns, Kept, Owns,
        HolderStages, Gone, RecordOf, CanonicalPid, Stage, Early, Over,
        Become, lvars, Path, NoFile, Empty, Record
<1>9. ASSUME NEW p \in Proc,
             MakeAlias(p) \/ ReleaseMigrationLock(p) \/
             (\E k \in Compat : TakeMigrationLock(p, k)) \/ ReleaseCanonical(p)
             \/ ReleaseComplete(p)
      PROVE  (\A q \in Proc : FaultOf(q))'
  BY <1>9, <1>0, SMTT(15) DEF MakeAlias, ReleaseMigrationLock, RemoveIf,
        TakeMigrationLock, ReleaseCanonical, ReleaseComplete, FaultInv, RecordInv,
        IInv, StaleOK, FaultOf, TypeOK, PendingOK, TokenOK, ParentOK,
        HolderOwns, WriterOwns, Kept, Owns, HolderStages, Gone, RecordOf,
        CanonicalPid, Stage, Early, Over, Become, lvars, Path, NoFile, Empty,
        Record
<1>10. ASSUME NEW p \in Proc, HandoffFails(p)
      PROVE  (\A q \in Proc : FaultOf(q))'
  <2>1. \A q \in Proc : tok[q] = p /\ q # p => child[p] = q
    BY DEF FaultInv, RecordInv, IInv, TypeOK, FaultOf, ParentOK
  <2>2. \A q \in Proc : pc'[q] # "crashed"
    BY DEF Faulty, Crashed
  <2>3. \A q \in Proc : tok[q] = p /\ q # p => pc[q] = "exited"
    BY <1>10, <2>1, <2>2 DEF HandoffFails, Alive, FaultInv, RecordInv, IInv, TypeOK, FaultOf
  <2>4. pc'[p] = "release" /\ \A q \in Proc \ {p} : pc'[q] = pc[q]
    <3>1. child[p] # p /\ child[p] \in Proc \cup {None}
      BY <1>10 DEF HandoffFails, FaultInv, RecordInv, IInv, TypeOK, FaultOf, RecordOf
    <3>2. pc \in [Proc -> PC]
      BY DEF FaultInv, RecordInv, IInv, TypeOK, FaultOf
    <3>3. child[p] \in Proc => ~Alive(child[p])
      BY <1>10, <2>2, <3>1, <3>2 DEF HandoffFails
    <3>. QED BY <1>10, <3>1, <3>2, <3>3 DEF HandoffFails
  <2>5. UNCHANGED <<file, stolen, tok, at, ret>> /\ pc[p] = "await"
    BY <1>10 DEF HandoffFails, lvars
  <2>6. ASSUME NEW q \in Proc PROVE FaultOf(q)'
    <3>1. FaultOf(q) /\ TokenOK
      BY DEF FaultInv, RecordInv, IInv, TypeOK, FaultOf
    <3>2. CASE q = p
      BY <1>0, <2>4, <2>5, <3>1, <3>2 DEF FaultOf, FaultInv, RecordInv, IInv,
           TypeOK, FaultOf, Stage, Early
    <3>3. CASE q # p /\ tok[q] # q /\ Stage(q) \in Early \ {"idle"}
      <4>1. tok[q] \in Proc /\ tok[q] # p
        BY <2>3, <3>1, <3>3 DEF TokenOK, Stage, Early
      <4>. QED BY <1>0, <2>4, <2>5, <3>1, <3>3, <4>1 DEF FaultOf, Owns, FaultInv,
           RecordInv, IInv, TypeOK, FaultOf, Stage
    <3>4. CASE q # p /\ ~(tok[q] # q /\ Stage(q) \in Early \ {"idle"})
      BY <1>0, <2>4, <2>5, <3>1, <3>4 DEF FaultOf, FaultInv, RecordInv, IInv,
           TypeOK, FaultOf, Stage
    <3>. QED BY <3>2, <3>3, <3>4
  <2>. QED BY <2>6
<1>11. ASSUME NEW p \in Proc, Crash(p) PROVE (\A q \in Proc : FaultOf(q))'
  BY <1>11 DEF Crash, Faulty, Crashed, Become, FaultInv, RecordInv, IInv, TypeOK, FaultOf
<1>12. ASSUME NEW x \in Path, Age(x) PROVE (\A q \in Proc : FaultOf(q))'
  BY <1>12, <1>0, SMTT(15) DEF Age, pvars, dvars, FaultInv, RecordInv, IInv, StaleOK,
        FaultOf, TypeOK, PendingOK, TokenOK, ParentOK, HolderOwns, WriterOwns,
        Kept, Owns, HolderStages, Gone, RecordOf, CanonicalPid, Stage, Early,
        Over, Become, lvars, Path, NoFile, Empty, Record
<1>13. ASSUME NEW d \in Desktop, DesktopLeave(d)
      PROVE  (\A q \in Proc : FaultOf(q))'
  BY <1>13, <1>0, SMTT(15) DEF DesktopLeave, Forget, pvars, FaultInv, RecordInv, IInv,
        StaleOK, FaultOf, TypeOK, PendingOK, TokenOK, ParentOK, HolderOwns,
        WriterOwns, Kept, Owns, HolderStages, Gone, RecordOf, CanonicalPid,
        Stage, Early, Over, Become, lvars, Path, NoFile, Empty, Record
<1>14. ASSUME NEW d \in Desktop, DesktopCrash(d)
      PROVE  (\A q \in Proc : FaultOf(q))'
  BY <1>14, <1>0, SMTT(15) DEF DesktopCrash, pvars, Crashed, FaultInv, RecordInv, IInv,
        StaleOK, FaultOf, TypeOK, PendingOK, TokenOK, ParentOK, HolderOwns,
        WriterOwns, Kept, Owns, HolderStages, Gone, RecordOf, CanonicalPid,
        Stage, Early, Over, Become, lvars, Path, NoFile, Empty, Record
<1>15. ASSUME NEW d \in Desktop, NEW k \in Compat, DesktopEnter(d, k)
      PROVE  (\A q \in Proc : FaultOf(q))'
  BY <1>15, <1>0, SMTT(15) DEF DesktopEnter, pvars, FaultInv, RecordInv, IInv, StaleOK,
        FaultOf, TypeOK, PendingOK, TokenOK, ParentOK, HolderOwns, WriterOwns,
        Kept, Owns, HolderStages, Gone, RecordOf, CanonicalPid, Stage, Early,
        Over, Become, lvars, Path, NoFile, Empty, Record
<1>16. ASSUME NEW p \in Proc,
             (\E k \in Compat : ReleaseCompat(p, k)) \/ WriteCanonicalFails(p) \/
             WriteCompatFails(p) \/ AdoptFails(p) \/ SpawnFails(p) \/ Launch(p)
             \/ Exit(p)
      PROVE  (\A q \in Proc : FaultOf(q))'
  BY <1>16, <1>0, SMTT(15) DEF ReleaseCompat, RemoveIf, WriteCanonicalFails,
        WriteCompatFails, AdoptFails, SpawnFails, Launch, Exit, FaultInv, RecordInv,
        IInv, StaleOK, FaultOf, TypeOK, PendingOK, TokenOK, ParentOK,
        HolderOwns, WriterOwns, Kept, Owns, HolderStages, Gone, RecordOf,
        CanonicalPid, Stage, Early, Over, Become, lvars, Path, NoFile, Empty,
        Record
<1>. QED
  BY <1>1, <1>2, <1>3, <1>4, <1>5, <1>6, <1>7, <1>8, <1>9, <1>10, <1>11,
     <1>12, <1>13, <1>14, <1>15, <1>16
  DEF Next, Step, Failure, Environment, Sweep, Acquire, Handoff, Work, Release

(* A lock goes stale by ageing only.                                        *)
LEMMA StaleNext ==
    ASSUME FaultInv, Next
    PROVE  StaleOK'
<1>1. ages \in Nat
  BY BoundsNat DEF FaultInv, RecordInv, IInv, TypeOK
<1>2. (stale' \subseteq stale /\ ages' = ages) \/ ages' = ages + 1
  <2>1. ASSUME NEW p \in Proc, Sweep(p) \/ Acquire(p)
        PROVE  stale' \subseteq stale /\ ages' = ages
    BY <2>1 DEF Sweep, Judge, Unlink, Acquire, FreezeTargets, CreateCanonical,
        WriteCanonical, CanonicalBusy, CompatComplete, UndoCanonical, GiveUp,
        Retry, WriteCompat, CreateCompat, CompatBusy, UndoCompat, lvars
  <2>2. ASSUME NEW p \in Proc, Handoff(p) \/ Release(p) \/ Failure(p)
        PROVE  stale' \subseteq stale /\ ages' = ages
    BY <2>2 DEF Handoff, Spawn, AdoptBegin, AdoptSwap, HandoffSeen, AdoptCheck,
        Release, ReleaseCanonical, ReleaseComplete, ReleaseCompat, Failure,
        WriteCanonicalFails, WriteCompatFails, AdoptFails, SpawnFails,
        HandoffFails, AliasFails, lvars
  <2>3. ASSUME NEW p \in Proc, Work(p) PROVE stale' \subseteq stale /\ ages' = ages
    BY <2>3 DEF Work, RefreshCompat, RefreshCanonical, EndMutation, FinishWork,
        BeginAlias, DeferAlias, CheckBeforeAlias, MakeAlias, ReleaseMigrationLock,
        HeartbeatAborts, TakeMigrationLock, lvars
  <2>4. CASE Environment
    BY <2>4 DEF Environment, Launch, Exit, Crash, Age, DesktopLeave, DesktopCrash,
        DesktopEnter, lvars
  <2>. QED BY <2>1, <2>2, <2>3, <2>4 DEF Next, Step
<1>. QED BY <1>1, <1>2 DEF FaultInv, StaleOK

(* The canonical lock is lost to a fault only.                              *)
THEOREM FaultInvariance == Spec => []FaultInv
<1>1. Init => FaultInv
  <2>1. SUFFICES ASSUME Init PROVE FaultInv
    OBVIOUS
  <2>2. StaleOK /\ \A p \in Proc : FaultOf(p)
    BY <2>1, NamesDistinct DEF Init, StaleOK, FaultOf, Stage, Early
  <2>. QED BY <2>1, <2>2, InitRecordInv DEF FaultInv
<1>2. FaultInv /\ [Next]_vars => FaultInv'
  <2>1. SUFFICES ASSUME FaultInv, [Next]_vars PROVE FaultInv'
    OBVIOUS
  <2>2. RecordInv'
    BY <2>1, StepRecordInv DEF FaultInv
  <2>3. CASE UNCHANGED vars
    BY <2>1, <2>2, <2>3 DEF vars, lvars, pvars, dvars, FaultInv, StaleOK, FaultOf, Faulty,
       Crashed, Stage, Owns
  <2>4. CASE Next
    <3>1. StaleOK'
      BY <2>1, <2>4, StaleNext
    <3>2. (\A q \in Proc : FaultOf(q))'
      <4>1. CASE Faulty'
        BY <4>1 DEF FaultOf
      <4>2. CASE ~Faulty'
        BY <2>1, <2>4, <4>2, FaultNext
      <4>. QED BY <4>1, <4>2
    <3>. QED BY <2>2, <3>1, <3>2 DEF FaultInv
  <2>. QED BY <2>1, <2>3, <2>4
<1>. QED BY <1>1, <1>2, PTL DEF Spec

----------------------------------------------------------------------------
(* What legacy locks are recorded, and frozen, are aliases of the venv.     *)
FrozenOK ==
    /\ \A p \in Proc : frozen[p] \subseteq aliased
    /\ \A x \in Path : file[x].targets \subseteq aliased

(* p has the lock k, unless it was robbed of it.                            *)
Held(p, k) == Owns(p, k) \/ <<p, k>> \in stolen

(* The legacy locks p counts on: those acquired so far, all it froze, or,   *)
(* for a child, those it has taken over.                                    *)
InBundle(p, k) ==
    \/ Stage(p) \in {"compat", "writec"} /\ k \in got[p]
    \/ Stage(p) \in {"owner", "commit", "inside", "writing", "prealias", "migrate", "aliasing"} /\ k \in frozen[p]
    \/ pc[p] \in {"adopt", "swap"} /\ k \in frozen[p] \ todo[p]

(* How the loops over the legacy locks keep their books.                    *)
LoopOf(p) ==
    /\ Stage(p) \in {"compat", "writec"} => frozen[p] = got[p] \cup todo[p] /\ got[p] \cap todo[p] = {}
    /\ pc[p] = "unlink" /\ ret[p] = "compat" => at[p] \in todo[p]
    /\ pc[p] = "writec" => at[p] \in todo[p]
    /\ pc[p] = "unlink" /\ ret[p] = "release" => at[p] # Canonical
    /\ pc[p] = "unlink" /\ ret[p] = "prealias" => at[p] \notin frozen[p]
    /\ pc[p] = "swap" => IF todo[p] = {} THEN at[p] = Canonical ELSE at[p] \in todo[p]

LoopOK == \A p \in Proc : LoopOf(p)

(* Whatever p counts on it has, a lock it is creating and a migration lock  *)
(* included.                                                                *)
BundleOf(p) ==
    /\ \A k \in Compat : InBundle(p, k) => Held(p, k)
    /\ pc[p] = "writec" =>
          \/ file[at[p]].pid = p /\ file[at[p]].tok = "unwritten" /\ file[at[p]].targets = {}
          \/ <<p, at[p]>> \in stolen
    /\ pc[p] \in {"migrate", "aliasing"} =>
          \/ file[at[p]].pid = p /\ file[at[p]].tok = "migration"
          \/ <<p, at[p]>> \in stolen

(* Past the point where a process could forget what it lost.                *)
Past == {"unmigrate", "release", "releasec", "done", "exited", "crashed"}

(* A Desktop in a venv has the lock beside it.                              *)
DesktopOf(d) ==
    dpc[d] \in {"shared", "private"} =>
          /\ dat[d] \in Compat
          /\ \/ file[dat[d]].pid = d /\ file[dat[d]].tok = "legacy" /\ file[dat[d]].targets = {}
             \/ <<d, dat[d]>> \in stolen
(* A private venv is in use while it becomes an alias only if its lock, or  *)
(* the migration lock, was robbed.                                          *)
PrivateOf(d) ==
    dpc[d] = "private" /\ dat[d] \in aliased =>
          \/ <<d, dat[d]>> \in stolen
          \/ \E q \in Proc : <<q, dat[d]>> \in stolen /\ Stage(q) \in Past

(* A legacy lock of a live launcher is on the list the launcher will release.*)
LeftOf(p, k) ==
    /\ Stage(p) = "idle" => file[k].pid # p
    /\ file[k].pid = p /\ file[k].tok # "unwritten" /\ pc[p] # "crashed" =>
        /\ file[k].tok \in {"migration", tok[p]}
        /\ file[k].tok = "migration" =>
              /\ at[p] = k /\ file[k].targets = {}
              /\ pc[p] \in {"migrate", "aliasing", "unmigrate"} \/ (pc[p] = "unlink" /\ ret[p] = "release")
        /\ file[k].tok # "migration" /\ tok[p] = p =>
            /\ Stage(p) \notin {"idle", "boot", "acquire", "write", "denied"}
            /\ Stage(p) \in {"compat", "writec"} => k \in got[p]
            /\ Stage(p) = "undo" => k \in got[p] \/ (pc[p] = "unlink" /\ at[p] = k)
            /\ Stage(p) \in (HolderStages \ {"compat", "writec"}) \cup {"await", "release"} => k \in frozen[p]
            /\ Stage(p) \in {"await", "release"} => Kept(p)
            /\ Stage(p) = "releasec" => k \in todo[p] \/ (pc[p] = "unlink" /\ at[p] = k) \/ <<p, Canonical>> \in stolen
            /\ Stage(p) \in {"done", "exited"} => <<p, Canonical>> \in stolen

(* A child takes over what its parent froze; the parent has none of it left.*)
AdoptOf(c) ==
    pc[c] \in {"adopt", "swap"} =>
        /\ todo[c] \subseteq frozen[c]
        /\ frozen[c] = frozen[tok[c]]
        /\ \A k \in frozen[c] \ todo[c] : file[k].pid # tok[c]

(* The invariant behind the legacy locks.                                   *)
BundleInv ==
    /\ RecordInv /\ FrozenOK /\ LoopOK
    /\ \A p \in Proc : BundleOf(p) /\ AdoptOf(p)
    /\ \A d \in Desktop : DesktopOf(d) /\ PrivateOf(d)
    /\ \A p \in Proc, k \in Compat : LeftOf(p, k)

(* Aliases are never unmade.                                                *)
LEMMA FrozenNext ==
    ASSUME BundleInv, Next
    PROVE  FrozenOK'
<1>. USE NamesDistinct
<1>1. ASSUME NEW p \in Proc,
             (\E x \in Path : Judge(p, x)) \/ Unlink(p) \/ FreezeTargets(p) \/
             CreateCanonical(p) \/ WriteCanonical(p)
      PROVE  FrozenOK'
  BY <1>1, SMTT(30) DEF Judge, MayJudge, Unlink, Robbed, Alive, LoopExhausted,
        FreezeTargets, CreateCanonical, WriteCanonical, BundleInv, FrozenOK, RecordInv,
        IInv, TypeOK, PendingOK, TokenOK, RecordOf, CanonicalPid, Become,
        lvars, Path, NoFile, Empty, Record, LockRecord
<1>2. ASSUME NEW p \in Proc,
             CanonicalBusy(p) \/ CompatComplete(p) \/ UndoCanonical(p) \/
             GiveUp(p) \/ Retry(p)
      PROVE  FrozenOK'
  BY <1>2, SMTT(30) DEF CanonicalBusy, CompatComplete, UndoCanonical,
        RemoveIf, GiveUp, Retry, Forget, BundleInv, FrozenOK, RecordInv, IInv, TypeOK,
        PendingOK, TokenOK, RecordOf, CanonicalPid, Become, lvars, Path,
        NoFile, Empty, Record, LockRecord
<1>3. ASSUME NEW p \in Proc,
             WriteCompat(p) \/ (\E k \in Compat : CreateCompat(p, k)) \/
             (\E k \in Compat : CompatBusy(p, k)) \/
             (\E k \in Compat : UndoCompat(p, k)) \/
             (\E c \in Proc \ {p} : Spawn(p, c))
      PROVE  FrozenOK'
  BY <1>3, SMTT(30) DEF WriteCompat, CreateCompat, CompatBusy, UndoCompat,
        RemoveIf, Spawn, BundleInv, FrozenOK, RecordInv, IInv, TypeOK, PendingOK,
        TokenOK, RecordOf, CanonicalPid, Become, lvars, Path, NoFile, Empty,
        Record, LockRecord
<1>4. ASSUME NEW p \in Proc,
             AdoptBegin(p) \/ AdoptSwap(p) \/ HandoffSeen(p) \/
             (\E x \in Path : AdoptCheck(p, x)) \/ RefreshCompat(p)
      PROVE  FrozenOK'
  BY <1>4, SMTT(30) DEF AdoptBegin, Reserved, AdoptSwap, Robbed, Alive,
        HandoffSeen, AdoptCheck, RefreshCompat, BundleInv, FrozenOK, RecordInv, IInv,
        TypeOK, PendingOK, TokenOK, RecordOf, CanonicalPid, Become, lvars,
        Path, NoFile, Empty, Record, LockRecord
<1>5. ASSUME NEW p \in Proc,
             RefreshCanonical(p) \/ EndMutation(p) \/ FinishWork(p) \/
             HeartbeatAborts(p) \/ BeginAlias(p) \/ DeferAlias(p) \/
             AliasFails(p) \/ CheckBeforeAlias(p) \/ MakeAlias(p)
      PROVE  FrozenOK'
  BY <1>5, SMTT(30) DEF RefreshCanonical, EndMutation, FinishWork,
        HeartbeatAborts, BeginAlias, DeferAlias, AliasFails, CheckBeforeAlias,
        MakeAlias, BundleInv, FrozenOK, RecordInv, IInv, TypeOK, PendingOK, TokenOK,
        RecordOf, CanonicalPid, Become, lvars, Path, NoFile, Empty, Record,
        LockRecord
<1>6. ASSUME NEW p \in Proc,
             ReleaseMigrationLock(p) \/
             (\E k \in Compat : TakeMigrationLock(p, k)) \/ ReleaseCanonical(p)
             \/ ReleaseComplete(p) \/ (\E k \in Compat : ReleaseCompat(p, k))
      PROVE  FrozenOK'
  BY <1>6, SMTT(30) DEF ReleaseMigrationLock, RemoveIf, TakeMigrationLock,
        ReleaseCanonical, ReleaseComplete, ReleaseCompat, BundleInv, FrozenOK,
        RecordInv, IInv, TypeOK, PendingOK, TokenOK, RecordOf, CanonicalPid,
        Become, lvars, Path, NoFile, Empty, Record, LockRecord
<1>7. ASSUME NEW p \in Proc,
             WriteCanonicalFails(p) \/ WriteCompatFails(p) \/ AdoptFails(p) \/
             SpawnFails(p) \/ HandoffFails(p) \/ Launch(p) \/ Exit(p) \/ Crash(p)
      PROVE  FrozenOK'
  BY <1>7, SMTT(30) DEF WriteCanonicalFails, RemoveIf, WriteCompatFails,
        AdoptFails, SpawnFails, HandoffFails, Alive, Launch, Exit, Crash,
        Crashed, BundleInv, FrozenOK, RecordInv, IInv, TypeOK, PendingOK, TokenOK,
        RecordOf, CanonicalPid, Become, lvars, Path, NoFile, Empty, Record,
        LockRecord
<1>8. ASSUME NEW x \in Path, Age(x) PROVE FrozenOK'
  BY <1>8, SMTT(30) DEF Age, pvars, dvars, BundleInv, FrozenOK, RecordInv, IInv, TypeOK,
        PendingOK, TokenOK, RecordOf, CanonicalPid, Become, lvars, Path,
        NoFile, Empty, Record, LockRecord
<1>9. ASSUME NEW d \in Desktop, DesktopLeave(d) PROVE FrozenOK'
  BY <1>9, SMTT(30) DEF DesktopLeave, Forget, pvars, BundleInv, FrozenOK, RecordInv,
        IInv, TypeOK, PendingOK, TokenOK, RecordOf, CanonicalPid, Become,
        lvars, Path, NoFile, Empty, Record, LockRecord
<1>10. ASSUME NEW d \in Desktop, DesktopCrash(d) PROVE FrozenOK'
  BY <1>10, SMTT(30) DEF DesktopCrash, pvars, Crashed, BundleInv, FrozenOK, RecordInv,
        IInv, TypeOK, PendingOK, TokenOK, RecordOf, CanonicalPid, Become,
        lvars, Path, NoFile, Empty, Record, LockRecord
<1>11. ASSUME NEW d \in Desktop, NEW k \in Compat, DesktopEnter(d, k)
      PROVE  FrozenOK'
  BY <1>11, SMTT(30) DEF DesktopEnter, pvars, BundleInv, FrozenOK, RecordInv, IInv,
        TypeOK, PendingOK, TokenOK, RecordOf, CanonicalPid, Become, lvars,
        Path, NoFile, Empty, Record, LockRecord
<1>. QED
  BY <1>1, <1>2, <1>3, <1>4, <1>5, <1>6, <1>7, <1>8, <1>9, <1>10, <1>11
  DEF Next, Step, Failure, Environment, Sweep, Acquire, Handoff, Work, Release

(* The loops keep their books.                                              *)
LEMMA LoopNext ==
    ASSUME BundleInv, Next
    PROVE  LoopOK'
<1>. USE NamesDistinct
<1>1. ASSUME NEW p \in Proc,
             (\E x \in Path : Judge(p, x)) \/ Unlink(p) \/ FreezeTargets(p) \/
             CreateCanonical(p) \/ WriteCanonical(p)
      PROVE  LoopOK'
  BY <1>1, SMTT(30) DEF Judge, MayJudge, Unlink, Robbed, Alive, LoopExhausted,
        FreezeTargets, CreateCanonical, WriteCanonical, BundleInv, FrozenOK,
        LoopOK, LoopOf, RecordInv, IInv, TypeOK, PendingOK, TokenOK, Stage, Become,
        lvars, Path, NoFile, Empty, Record
<1>2. ASSUME NEW p \in Proc,
             CanonicalBusy(p) \/ CompatComplete(p) \/ UndoCanonical(p) \/
             GiveUp(p) \/ Retry(p)
      PROVE  LoopOK'
  BY <1>2, SMTT(30) DEF CanonicalBusy, CompatComplete, UndoCanonical,
        RemoveIf, GiveUp, Retry, Forget, BundleInv, FrozenOK, LoopOK, LoopOf, RecordInv,
        IInv, TypeOK, PendingOK, TokenOK, Stage, Become, lvars, Path, NoFile,
        Empty, Record
<1>3. ASSUME NEW p \in Proc,
             WriteCompat(p) \/ (\E k \in Compat : CreateCompat(p, k)) \/
             (\E k \in Compat : CompatBusy(p, k)) \/
             (\E k \in Compat : UndoCompat(p, k)) \/
             (\E c \in Proc \ {p} : Spawn(p, c))
      PROVE  LoopOK'
  BY <1>3, SMTT(30) DEF WriteCompat, CreateCompat, CompatBusy, UndoCompat,
        RemoveIf, Spawn, BundleInv, FrozenOK, LoopOK, LoopOf, RecordInv, IInv, TypeOK,
        PendingOK, TokenOK, Stage, Become, lvars, Path, NoFile, Empty, Record
<1>4. ASSUME NEW p \in Proc,
             AdoptBegin(p) \/ AdoptSwap(p) \/ HandoffSeen(p) \/
             (\E x \in Path : AdoptCheck(p, x)) \/ RefreshCompat(p)
      PROVE  LoopOK'
  BY <1>4, SMTT(30) DEF AdoptBegin, Reserved, AdoptSwap, Robbed, Alive,
        HandoffSeen, AdoptCheck, RefreshCompat, BundleInv, FrozenOK, LoopOK,
        LoopOf, RecordInv, IInv, TypeOK, PendingOK, TokenOK, Stage, Become, lvars,
        Path, NoFile, Empty, Record
<1>5. ASSUME NEW p \in Proc,
             RefreshCanonical(p) \/ EndMutation(p) \/ FinishWork(p) \/
             HeartbeatAborts(p) \/ BeginAlias(p) \/ DeferAlias(p) \/
             AliasFails(p) \/ CheckBeforeAlias(p) \/ MakeAlias(p)
      PROVE  LoopOK'
  BY <1>5, SMTT(30) DEF RefreshCanonical, EndMutation, FinishWork,
        HeartbeatAborts, BeginAlias, DeferAlias, AliasFails, CheckBeforeAlias,
        MakeAlias, BundleInv, FrozenOK, LoopOK, LoopOf, RecordInv, IInv, TypeOK,
        PendingOK, TokenOK, Stage, Become, lvars, Path, NoFile, Empty, Record
<1>6. ASSUME NEW p \in Proc,
             ReleaseMigrationLock(p) \/
             (\E k \in Compat : TakeMigrationLock(p, k)) \/ ReleaseCanonical(p)
             \/ ReleaseComplete(p) \/ (\E k \in Compat : ReleaseCompat(p, k))
      PROVE  LoopOK'
  BY <1>6, SMTT(30) DEF ReleaseMigrationLock, RemoveIf, TakeMigrationLock,
        ReleaseCanonical, ReleaseComplete, ReleaseCompat, BundleInv, FrozenOK,
        LoopOK, LoopOf, RecordInv, IInv, TypeOK, PendingOK, TokenOK, Stage, Become,
        lvars, Path, NoFile, Empty, Record
<1>7. ASSUME NEW p \in Proc,
             WriteCanonicalFails(p) \/ WriteCompatFails(p) \/ AdoptFails(p) \/
             SpawnFails(p) \/ HandoffFails(p) \/ Launch(p) \/ Exit(p) \/ Crash(p)
      PROVE  LoopOK'
  BY <1>7, SMTT(30) DEF WriteCanonicalFails, RemoveIf, WriteCompatFails,
        AdoptFails, SpawnFails, HandoffFails, Alive, Launch, Exit, Crash,
        Crashed, BundleInv, FrozenOK, LoopOK, LoopOf, RecordInv, IInv, TypeOK,
        PendingOK, TokenOK, Stage, Become, lvars, Path, NoFile, Empty, Record
<1>8. ASSUME NEW x \in Path, Age(x) PROVE LoopOK'
  BY <1>8, SMTT(30) DEF Age, pvars, dvars, BundleInv, FrozenOK, LoopOK, LoopOf,
        RecordInv, IInv, TypeOK, PendingOK, TokenOK, Stage, Become, lvars, Path,
        NoFile, Empty, Record
<1>9. ASSUME NEW d \in Desktop, DesktopLeave(d) PROVE LoopOK'
  BY <1>9, SMTT(30) DEF DesktopLeave, Forget, pvars, BundleInv, FrozenOK, LoopOK,
        LoopOf, RecordInv, IInv, TypeOK, PendingOK, TokenOK, Stage, Become, lvars,
        Path, NoFile, Empty, Record
<1>10. ASSUME NEW d \in Desktop, DesktopCrash(d) PROVE LoopOK'
  BY <1>10, SMTT(30) DEF DesktopCrash, pvars, Crashed, BundleInv, FrozenOK, LoopOK,
        LoopOf, RecordInv, IInv, TypeOK, PendingOK, TokenOK, Stage, Become, lvars,
        Path, NoFile, Empty, Record
<1>11. ASSUME NEW d \in Desktop, NEW k \in Compat, DesktopEnter(d, k)
      PROVE  LoopOK'
  BY <1>11, SMTT(30) DEF DesktopEnter, pvars, BundleInv, FrozenOK, LoopOK, LoopOf,
        RecordInv, IInv, TypeOK, PendingOK, TokenOK, Stage, Become, lvars, Path,
        NoFile, Empty, Record
<1>. QED
  BY <1>1, <1>2, <1>3, <1>4, <1>5, <1>6, <1>7, <1>8, <1>9, <1>10, <1>11
  DEF Next, Step, Failure, Environment, Sweep, Acquire, Handoff, Work, Release

(* Nobody loses a lock it counts on without being robbed of it.             *)
LEMMA BundleNext ==
    ASSUME BundleInv, Next
    PROVE  (\A q \in Proc : BundleOf(q))'
<1>. USE NamesDistinct
<1>1. ASSUME NEW p \in Proc, NEW x \in Path, Judge(p, x)
      PROVE  (\A q \in Proc : BundleOf(q))'
  BY <1>1, SMTT(30) DEF Judge, MayJudge, BundleInv, LoopOK, LoopOf, BundleOf,
        InBundle, Held, Owns, ParentOK, Gone, LockRecord, RecordInv, IInv, TypeOK,
        PendingOK, TokenOK, Stage, Become, lvars, Path, NoFile, Empty, Record
<1>2. ASSUME NEW p \in Proc, Unlink(p) PROVE (\A q \in Proc : BundleOf(q))'
  <2>1. ASSUME NEW q \in Proc \ {p}, NEW k \in Path, pc[q] \notin {"exited", "crashed"},
               file[k].pid = q
        PROVE  file'[k] = file[k] \/ <<q, k>> \in stolen'
    BY <1>2, <2>1 DEF Unlink, Robbed, Alive, BundleInv, RecordInv, IInv, TypeOK, PendingOK
  <2>2. ASSUME NEW q \in Proc \ {p} PROVE BundleOf(q)'
    <3>1. Stage(q)' = Stage(q) /\ pc'[q] = pc[q] /\ UNCHANGED <<got[q], todo[q], frozen[q], tok[q]>> /\ at'[q] = at[q]
      BY <1>2 DEF Unlink, Stage, Become, BundleInv, RecordInv, IInv, TypeOK, PendingOK
    <3>2. BundleOf(q) /\ stolen \subseteq stolen'
      BY <1>2 DEF Unlink, BundleInv
    <3>3. \A k \in Compat : InBundle(q, k) => pc[q] \notin {"exited", "crashed"}
      BY DEF InBundle, Stage
    <3>4. \A k \in Compat : InBundle(q, k)' => Held(q, k)'
      BY <2>1, <3>1, <3>2, <3>3 DEF InBundle, BundleOf, Held, Owns, Path
    <3>. QED BY <2>1, <3>1, <3>2, <3>4 DEF BundleOf, BundleInv, RecordInv, IInv,
         TypeOK, PendingOK, Path
  <2>3. BundleOf(p)'
    <3>1. /\ pc'[p] \in {ret[p], LoopExhausted(ret[p])} /\ at[p] \in Path /\ Stage(p) = ret[p]
          /\ ret[p] \in {"idle", "acquire", "compat", "prealias", "undo", "denied", "release", "releasec"}
          /\ UNCHANGED <<got, todo, frozen, tok>> /\ stolen \subseteq stolen'
          /\ \A k \in Path : k # at[p] => file'[k] = file[k]
      BY <1>2 DEF Unlink, Become, Stage, BundleInv, RecordInv, IInv, TypeOK, PendingOK
    <3>2. LoopOf(p) /\ BundleOf(p) /\ pc[p] = "unlink"
      BY <1>2 DEF Unlink, BundleInv, LoopOK
    <3>3. ASSUME NEW k \in Compat, InBundle(p, k)' PROVE Held(p, k)'
      <4>1. \/ ret[p] = "compat" /\ k \in got[p]
            \/ ret[p] = "prealias" /\ k \in frozen[p]
        BY <3>1, <3>3 DEF InBundle, Stage, LoopExhausted
      <4>2. k # at[p] /\ InBundle(p, k)
        BY <3>1, <3>2, <4>1 DEF LoopOf, InBundle
      <4>. QED BY <3>1, <3>2, <4>2 DEF BundleOf, Held, Owns, Path
    <3>4. pc'[p] \notin {"writec", "migrate", "aliasing"}
      BY <3>1 DEF LoopExhausted
    <3>. QED BY <3>3, <3>4 DEF BundleOf
  <2>. QED BY <2>2, <2>3
<1>3. ASSUME NEW p \in Proc, FreezeTargets(p)
      PROVE  (\A q \in Proc : BundleOf(q))'
  BY <1>3, SMTT(30) DEF FreezeTargets, BundleInv, LoopOK, LoopOf, BundleOf,
        InBundle, Held, Owns, ParentOK, Gone, LockRecord, RecordInv, IInv, TypeOK,
        PendingOK, TokenOK, Stage, Become, lvars, Path, NoFile, Empty, Record
<1>4. ASSUME NEW p \in Proc, CreateCanonical(p)
      PROVE  (\A q \in Proc : BundleOf(q))'
  BY <1>4, SMTT(30) DEF CreateCanonical, BundleInv, LoopOK, LoopOf, BundleOf,
        InBundle, Held, Owns, ParentOK, Gone, LockRecord, RecordInv, IInv, TypeOK,
        PendingOK, TokenOK, Stage, Become, lvars, Path, NoFile, Empty, Record
<1>5. ASSUME NEW p \in Proc, WriteCanonical(p)
      PROVE  (\A q \in Proc : BundleOf(q))'
  BY <1>5, SMTT(30) DEF WriteCanonical, BundleInv, LoopOK, LoopOf, BundleOf,
        InBundle, Held, Owns, ParentOK, Gone, LockRecord, RecordInv, IInv, TypeOK,
        PendingOK, TokenOK, Stage, Become, lvars, Path, NoFile, Empty, Record
<1>6. ASSUME NEW p \in Proc, CanonicalBusy(p)
      PROVE  (\A q \in Proc : BundleOf(q))'
  BY <1>6, SMTT(30) DEF CanonicalBusy, BundleInv, LoopOK, LoopOf, BundleOf,
        InBundle, Held, Owns, ParentOK, Gone, LockRecord, RecordInv, IInv, TypeOK,
        PendingOK, TokenOK, Stage, Become, lvars, Path, NoFile, Empty, Record
<1>7. ASSUME NEW p \in Proc, CompatComplete(p)
      PROVE  (\A q \in Proc : BundleOf(q))'
  BY <1>7, SMTT(30) DEF CompatComplete, BundleInv, LoopOK, LoopOf, BundleOf,
        InBundle, Held, Owns, ParentOK, Gone, LockRecord, RecordInv, IInv, TypeOK,
        PendingOK, TokenOK, Stage, Become, lvars, Path, NoFile, Empty, Record
<1>8. ASSUME NEW p \in Proc, UndoCanonical(p)
      PROVE  (\A q \in Proc : BundleOf(q))'
  BY <1>8, SMTT(30) DEF UndoCanonical, RemoveIf, BundleInv, LoopOK, LoopOf,
        BundleOf, InBundle, Held, Owns, ParentOK, Gone, LockRecord, RecordInv,
        IInv, TypeOK, PendingOK, TokenOK, Stage, Become, lvars, Path, NoFile,
        Empty, Record
<1>9. ASSUME NEW p \in Proc, GiveUp(p) PROVE (\A q \in Proc : BundleOf(q))'
  BY <1>9, SMTT(30) DEF GiveUp, BundleInv, LoopOK, LoopOf, BundleOf, InBundle,
        Held, Owns, ParentOK, Gone, LockRecord, RecordInv, IInv, TypeOK, PendingOK,
        TokenOK, Stage, Become, lvars, Path, NoFile, Empty, Record
<1>10. ASSUME NEW p \in Proc, Retry(p) PROVE (\A q \in Proc : BundleOf(q))'
  BY <1>10, SMTT(30) DEF Retry, Forget, BundleInv, LoopOK, LoopOf, BundleOf,
        InBundle, Held, Owns, ParentOK, Gone, LockRecord, RecordInv, IInv, TypeOK,
        PendingOK, TokenOK, Stage, Become, lvars, Path, NoFile, Empty, Record
<1>11. ASSUME NEW p \in Proc, WriteCompat(p)
      PROVE  (\A q \in Proc : BundleOf(q))'
  <2>1. ASSUME NEW k \in Path, file'[k] # file[k] PROVE file[k].pid = p /\ k = at[p]
    BY <1>11, <2>1 DEF WriteCompat, BundleInv, RecordInv, IInv, TypeOK, PendingOK, Empty
  <2>2. ASSUME NEW q \in Proc \ {p} PROVE BundleOf(q)'
    BY <1>11, <2>1, <2>2 DEF WriteCompat, BundleOf, InBundle, Held, Owns, Stage,
         Become, Path, BundleInv, RecordInv, IInv, TypeOK, PendingOK
  <2>3. ASSUME NEW k \in Compat, InBundle(p, k)' PROVE Held(p, k)'
    <3>1. k \in got[p] \/ k = at[p]
      BY <1>11, <2>3 DEF WriteCompat, InBundle, Stage, Become, BundleInv, RecordInv,
           IInv, TypeOK, PendingOK
    <3>2. CASE k = at[p]
      <4>1. file[k] = Empty(p) \/ <<p, k>> \in stolen
        BY <1>11, <3>2 DEF WriteCompat, BundleOf, BundleInv, RecordInv, IInv,
             TypeOK, PendingOK, LockRecord, Path, Empty
      <4>. QED BY <1>11, <3>2, <4>1 DEF WriteCompat, Held, Owns, Record, BundleInv,
           RecordInv, IInv, TypeOK, PendingOK, Path
    <3>3. CASE k # at[p]
      BY <1>11, <2>1, <3>1, <3>3 DEF WriteCompat, BundleOf, InBundle, Stage, Held,
           Owns, BundleInv, Path
    <3>. QED BY <3>2, <3>3
  <2>4. BundleOf(p)'
    BY <1>11, <2>3 DEF WriteCompat, BundleOf, Become, BundleInv, RecordInv, IInv,
         TypeOK, PendingOK
  <2>. QED BY <2>2, <2>4
<1>12. ASSUME NEW p \in Proc, NEW k \in Compat, CreateCompat(p, k)
      PROVE  (\A q \in Proc : BundleOf(q))'
  BY <1>12, SMTT(30) DEF CreateCompat, BundleInv, LoopOK, LoopOf, BundleOf,
        InBundle, Held, Owns, ParentOK, Gone, LockRecord, RecordInv, IInv, TypeOK,
        PendingOK, TokenOK, Stage, Become, lvars, Path, NoFile, Empty, Record
<1>13. ASSUME NEW p \in Proc, NEW k \in Compat, CompatBusy(p, k)
      PROVE  (\A q \in Proc : BundleOf(q))'
  BY <1>13, SMTT(30) DEF CompatBusy, BundleInv, LoopOK, LoopOf, BundleOf, InBundle,
        Held, Owns, ParentOK, Gone, LockRecord, RecordInv, IInv, TypeOK, PendingOK,
        TokenOK, Stage, Become, lvars, Path, NoFile, Empty, Record
<1>14. ASSUME NEW p \in Proc, NEW k \in Compat, UndoCompat(p, k)
      PROVE  (\A q \in Proc : BundleOf(q))'
  BY <1>14, SMTT(30) DEF UndoCompat, RemoveIf, BundleInv, LoopOK, LoopOf, BundleOf,
        InBundle, Held, Owns, ParentOK, Gone, LockRecord, RecordInv, IInv, TypeOK,
        PendingOK, TokenOK, Stage, Become, lvars, Path, NoFile, Empty, Record
<1>15. ASSUME NEW p \in Proc, NEW c \in Proc \ {p}, Spawn(p, c)
      PROVE  (\A q \in Proc : BundleOf(q))'
  BY <1>15, SMTT(30) DEF Spawn, BundleInv, LoopOK, LoopOf, BundleOf, InBundle,
        Held, Owns, ParentOK, Gone, LockRecord, RecordInv, IInv, TypeOK, PendingOK,
        TokenOK, Stage, Become, lvars, Path, NoFile, Empty, Record
<1>16. ASSUME NEW p \in Proc, AdoptBegin(p)
      PROVE  (\A q \in Proc : BundleOf(q))'
  BY <1>16, SMTT(30) DEF AdoptBegin, Reserved, BundleInv, LoopOK, LoopOf, BundleOf,
        InBundle, Held, Owns, ParentOK, Gone, LockRecord, RecordInv, IInv, TypeOK,
        PendingOK, TokenOK, Stage, Become, lvars, Path, NoFile, Empty, Record
<1>17. ASSUME NEW p \in Proc, AdoptSwap(p)
      PROVE  (\A q \in Proc : BundleOf(q))'
  <2>1. /\ pc[p] = "swap" /\ tok[p] \in Proc /\ tok[p] # p /\ at[p] \in Path
        /\ LoopOf(p) /\ BundleOf(p)
    BY <1>17 DEF AdoptSwap, TokenOK, Stage, BundleInv, RecordInv, IInv, TypeOK,
         PendingOK, LoopOK
  <2>2. ASSUME NEW q \in Proc \ {p}, NEW k \in Path, pc[q] \notin {"exited", "crashed"},
               file[k].pid = q, file[k].tok # tok[p]
        PROVE  file'[k] = file[k] \/ <<q, k>> \in stolen'
    BY <1>17, <2>2 DEF AdoptSwap, Robbed, Alive, BundleInv, RecordInv, IInv, TypeOK,
         PendingOK
  <2>3. ASSUME NEW q \in Proc \ {p} PROVE BundleOf(q)'
    <3>1. Stage(q)' = Stage(q) /\ pc'[q] = pc[q] /\ UNCHANGED <<got[q], todo[q], frozen[q], tok[q]>> /\ at'[q] = at[q]
      BY <1>17 DEF AdoptSwap, Stage, Become, BundleInv, RecordInv, IInv, TypeOK, PendingOK
    <3>2. BundleOf(q) /\ stolen \subseteq stolen'
      BY <1>17 DEF AdoptSwap, BundleInv
    <3>3. ASSUME NEW k \in Compat, InBundle(q, k) PROVE pc[q] \notin {"exited", "crashed"} /\ tok[q] # tok[p]
      <4>1. Stage(q) \notin Gone /\ pc[q] \notin {"exited", "crashed"}
        BY <3>3 DEF InBundle, Stage, Gone
      <4>2. tok[q] = tok[p] => q = tok[p]
        BY <2>1 DEF BundleInv, RecordInv, IInv, TypeOK, PendingOK, ParentOK
      <4>. QED BY <2>1, <4>1, <4>2 DEF BundleInv, RecordInv, IInv, TypeOK,
           PendingOK, ParentOK
    <3>4. \A k \in Compat : InBundle(q, k)' => Held(q, k)'
      BY <2>2, <3>1, <3>2, <3>3 DEF InBundle, BundleOf, Held, Owns, Path
    <3>5. {"unwritten", "migration"} \cap Proc = {}
      BY NamesDistinct
    <3>. QED BY <2>1, <2>2, <3>1, <3>2, <3>4, <3>5 DEF BundleOf, BundleInv, RecordInv,
         IInv, TypeOK, PendingOK, Path
  <2>4. ASSUME NEW k \in Compat, InBundle(p, k)' PROVE Held(p, k)'
    <3>1. CASE k = at[p]
      BY <1>17, <2>1, <3>1 DEF AdoptSwap, Held, Owns, Record, BundleInv, RecordInv,
           IInv, TypeOK, PendingOK, Path
    <3>2. CASE k # at[p]
      <4>1. k \in frozen[p] \ todo[p]
        BY <1>17, <2>1, <2>4, <3>2 DEF AdoptSwap, InBundle, LoopOf, Stage, Become,
             BundleInv, RecordInv, IInv, TypeOK, PendingOK
      <4>2. file'[k] = file[k] /\ stolen \subseteq stolen' /\ tok' = tok
        BY <1>17, <3>2 DEF AdoptSwap, BundleInv, RecordInv, IInv, TypeOK, PendingOK
      <4>. QED BY <2>1, <4>1, <4>2 DEF BundleOf, InBundle, Held, Owns
    <3>. QED BY <3>1, <3>2
  <2>. QED BY <1>17, <2>3, <2>4 DEF AdoptSwap, BundleOf, Become, BundleInv, RecordInv,
       IInv, TypeOK, PendingOK
<1>18. ASSUME NEW p \in Proc, HandoffSeen(p)
      PROVE  (\A q \in Proc : BundleOf(q))'
  BY <1>18, SMTT(30) DEF HandoffSeen, BundleInv, LoopOK, LoopOf, BundleOf,
        InBundle, Held, Owns, ParentOK, Gone, LockRecord, RecordInv, IInv, TypeOK,
        PendingOK, TokenOK, Stage, Become, lvars, Path, NoFile, Empty, Record
<1>19. ASSUME NEW p \in Proc, NEW x \in Path, AdoptCheck(p, x)
      PROVE  (\A q \in Proc : BundleOf(q))'
  BY <1>19, SMTT(30) DEF AdoptCheck, BundleInv, LoopOK, LoopOf, BundleOf, InBundle,
        Held, Owns, ParentOK, Gone, LockRecord, RecordInv, IInv, TypeOK, PendingOK,
        TokenOK, Stage, Become, lvars, Path, NoFile, Empty, Record
<1>20. ASSUME NEW p \in Proc, RefreshCompat(p)
      PROVE  (\A q \in Proc : BundleOf(q))'
  BY <1>20, SMTT(30) DEF RefreshCompat, BundleInv, LoopOK, LoopOf, BundleOf,
        InBundle, Held, Owns, ParentOK, Gone, LockRecord, RecordInv, IInv, TypeOK,
        PendingOK, TokenOK, Stage, Become, lvars, Path, NoFile, Empty, Record
<1>21. ASSUME NEW p \in Proc, RefreshCanonical(p)
      PROVE  (\A q \in Proc : BundleOf(q))'
  BY <1>21, SMTT(30) DEF RefreshCanonical, BundleInv, LoopOK, LoopOf, BundleOf,
        InBundle, Held, Owns, ParentOK, Gone, LockRecord, RecordInv, IInv, TypeOK,
        PendingOK, TokenOK, Stage, Become, lvars, Path, NoFile, Empty, Record
<1>22. ASSUME NEW p \in Proc, EndMutation(p) \/ FinishWork(p) \/ HeartbeatAborts(p)
      PROVE  (\A q \in Proc : BundleOf(q))'
  BY <1>22, SMTT(30) DEF EndMutation, FinishWork, HeartbeatAborts, BundleInv,
        LoopOK, LoopOf, BundleOf, InBundle, Held, Owns, ParentOK, Gone,
        LockRecord, RecordInv, IInv, TypeOK, PendingOK, TokenOK, Stage, Become,
        lvars, Path, NoFile, Empty, Record
<1>23. ASSUME NEW p \in Proc, BeginAlias(p) \/ DeferAlias(p) \/ AliasFails(p)
      PROVE  (\A q \in Proc : BundleOf(q))'
  BY <1>23, SMTT(30) DEF BeginAlias, DeferAlias, AliasFails, BundleInv, LoopOK,
        LoopOf, BundleOf, InBundle, Held, Owns, ParentOK, Gone, LockRecord,
        RecordInv, IInv, TypeOK, PendingOK, TokenOK, Stage, Become, lvars, Path,
        NoFile, Empty, Record
<1>24. ASSUME NEW p \in Proc, CheckBeforeAlias(p)
      PROVE  (\A q \in Proc : BundleOf(q))'
  BY <1>24, SMTT(30) DEF CheckBeforeAlias, BundleInv, LoopOK, LoopOf, BundleOf,
        InBundle, Held, Owns, ParentOK, Gone, LockRecord, RecordInv, IInv, TypeOK,
        PendingOK, TokenOK, Stage, Become, lvars, Path, NoFile, Empty, Record
<1>25. ASSUME NEW p \in Proc, MakeAlias(p)
      PROVE  (\A q \in Proc : BundleOf(q))'
  BY <1>25, SMTT(30) DEF MakeAlias, BundleInv, LoopOK, LoopOf, BundleOf, InBundle,
        Held, Owns, ParentOK, Gone, LockRecord, RecordInv, IInv, TypeOK, PendingOK,
        TokenOK, Stage, Become, lvars, Path, NoFile, Empty, Record
<1>26. ASSUME NEW p \in Proc, ReleaseMigrationLock(p)
      PROVE  (\A q \in Proc : BundleOf(q))'
  BY <1>26, SMTT(30) DEF ReleaseMigrationLock, RemoveIf, BundleInv, LoopOK, LoopOf,
        BundleOf, InBundle, Held, Owns, ParentOK, Gone, LockRecord, RecordInv,
        IInv, TypeOK, PendingOK, TokenOK, Stage, Become, lvars, Path, NoFile,
        Empty, Record
<1>27. ASSUME NEW p \in Proc, NEW k \in Compat, TakeMigrationLock(p, k)
      PROVE  (\A q \in Proc : BundleOf(q))'
  BY <1>27, SMTT(30) DEF TakeMigrationLock, BundleInv, LoopOK, LoopOf, BundleOf,
        InBundle, Held, Owns, ParentOK, Gone, LockRecord, RecordInv, IInv, TypeOK,
        PendingOK, TokenOK, Stage, Become, lvars, Path, NoFile, Empty, Record
<1>28. ASSUME NEW p \in Proc, ReleaseCanonical(p)
      PROVE  (\A q \in Proc : BundleOf(q))'
  BY <1>28, SMTT(30) DEF ReleaseCanonical, RemoveIf, BundleInv, LoopOK, LoopOf,
        BundleOf, InBundle, Held, Owns, ParentOK, Gone, LockRecord, RecordInv,
        IInv, TypeOK, PendingOK, TokenOK, Stage, Become, lvars, Path, NoFile,
        Empty, Record
<1>29. ASSUME NEW p \in Proc, ReleaseComplete(p)
      PROVE  (\A q \in Proc : BundleOf(q))'
  BY <1>29, SMTT(30) DEF ReleaseComplete, BundleInv, LoopOK, LoopOf, BundleOf,
        InBundle, Held, Owns, ParentOK, Gone, LockRecord, RecordInv, IInv, TypeOK,
        PendingOK, TokenOK, Stage, Become, lvars, Path, NoFile, Empty, Record
<1>30. ASSUME NEW p \in Proc, NEW k \in Compat, ReleaseCompat(p, k)
      PROVE  (\A q \in Proc : BundleOf(q))'
  BY <1>30, SMTT(30) DEF ReleaseCompat, RemoveIf, BundleInv, LoopOK, LoopOf,
        BundleOf, InBundle, Held, Owns, ParentOK, Gone, LockRecord, RecordInv,
        IInv, TypeOK, PendingOK, TokenOK, Stage, Become, lvars, Path, NoFile,
        Empty, Record
<1>31. ASSUME NEW p \in Proc, WriteCanonicalFails(p)
      PROVE  (\A q \in Proc : BundleOf(q))'
  BY <1>31, SMTT(30) DEF WriteCanonicalFails, RemoveIf, BundleInv, LoopOK, LoopOf,
        BundleOf, InBundle, Held, Owns, ParentOK, Gone, LockRecord, RecordInv,
        IInv, TypeOK, PendingOK, TokenOK, Stage, Become, lvars, Path, NoFile,
        Empty, Record
<1>32. ASSUME NEW p \in Proc, WriteCompatFails(p) \/ AdoptFails(p) \/ SpawnFails(p)
      PROVE  (\A q \in Proc : BundleOf(q))'
  BY <1>32, SMTT(30) DEF WriteCompatFails, AdoptFails, SpawnFails, BundleInv,
        LoopOK, LoopOf, BundleOf, InBundle, Held, Owns, ParentOK, Gone,
        LockRecord, RecordInv, IInv, TypeOK, PendingOK, TokenOK, Stage, Become,
        lvars, Path, NoFile, Empty, Record
<1>33. ASSUME NEW p \in Proc, HandoffFails(p)
      PROVE  (\A q \in Proc : BundleOf(q))'
  BY <1>33, SMTT(30) DEF HandoffFails, Alive, BundleInv, LoopOK, LoopOf, BundleOf,
        InBundle, Held, Owns, ParentOK, Gone, LockRecord, RecordInv, IInv, TypeOK,
        PendingOK, TokenOK, Stage, Become, lvars, Path, NoFile, Empty, Record
<1>34. ASSUME NEW p \in Proc, Launch(p) \/ Exit(p)
      PROVE  (\A q \in Proc : BundleOf(q))'
  BY <1>34, SMTT(30) DEF Launch, Exit, BundleInv, LoopOK, LoopOf, BundleOf,
        InBundle, Held, Owns, ParentOK, Gone, LockRecord, RecordInv, IInv, TypeOK,
        PendingOK, TokenOK, Stage, Become, lvars, Path, NoFile, Empty, Record
<1>35. ASSUME NEW p \in Proc, Crash(p) PROVE (\A q \in Proc : BundleOf(q))'
  BY <1>35, SMTT(30) DEF Crash, Crashed, BundleInv, LoopOK, LoopOf, BundleOf,
        InBundle, Held, Owns, ParentOK, Gone, LockRecord, RecordInv, IInv, TypeOK,
        PendingOK, TokenOK, Stage, Become, lvars, Path, NoFile, Empty, Record
<1>36. ASSUME NEW x \in Path, Age(x) PROVE (\A q \in Proc : BundleOf(q))'
  BY <1>36, SMTT(30) DEF Age, pvars, dvars, BundleInv, LoopOK, LoopOf, BundleOf,
        InBundle, Held, Owns, ParentOK, Gone, LockRecord, RecordInv, IInv, TypeOK,
        PendingOK, TokenOK, Stage, Become, lvars, Path, NoFile, Empty, Record
<1>37. ASSUME NEW d \in Desktop, DesktopLeave(d)
      PROVE  (\A q \in Proc : BundleOf(q))'
  BY <1>37, SMTT(30) DEF DesktopLeave, Forget, pvars, BundleInv, LoopOK, LoopOf,
        BundleOf, InBundle, Held, Owns, ParentOK, Gone, LockRecord, RecordInv,
        IInv, TypeOK, PendingOK, TokenOK, Stage, Become, lvars, Path, NoFile,
        Empty, Record
<1>38. ASSUME NEW d \in Desktop, DesktopCrash(d)
      PROVE  (\A q \in Proc : BundleOf(q))'
  BY <1>38, SMTT(30) DEF DesktopCrash, pvars, Crashed, BundleInv, LoopOK, LoopOf,
        BundleOf, InBundle, Held, Owns, ParentOK, Gone, LockRecord, RecordInv,
        IInv, TypeOK, PendingOK, TokenOK, Stage, Become, lvars, Path, NoFile,
        Empty, Record
<1>39. ASSUME NEW d \in Desktop, NEW k \in Compat, DesktopEnter(d, k)
      PROVE  (\A q \in Proc : BundleOf(q))'
  BY <1>39, SMTT(30) DEF DesktopEnter, pvars, BundleInv, LoopOK, LoopOf, BundleOf,
        InBundle, Held, Owns, ParentOK, Gone, LockRecord, RecordInv, IInv, TypeOK,
        PendingOK, TokenOK, Stage, Become, lvars, Path, NoFile, Empty, Record
<1>. QED
  BY <1>1, <1>2, <1>3, <1>4, <1>5, <1>6, <1>7, <1>8, <1>9, <1>10, <1>11,
     <1>12, <1>13, <1>14, <1>15, <1>16, <1>17, <1>18, <1>19, <1>20, <1>21,
     <1>22, <1>23, <1>24, <1>25, <1>26, <1>27, <1>28, <1>29, <1>30, <1>31,
     <1>32, <1>33, <1>34, <1>35, <1>36, <1>37, <1>38, <1>39
  DEF Next, Step, Failure, Environment, Sweep, Acquire, Handoff, Work, Release

(* A Desktop's lock is its own, or robbed.                                  *)
LEMMA DesktopNext ==
    ASSUME BundleInv, Next
    PROVE  (\A e \in Desktop : DesktopOf(e))'
<1>. USE NamesDistinct
<1>1. ASSUME NEW p \in Proc,
             (\E x \in Path : Judge(p, x)) \/ Unlink(p) \/ FreezeTargets(p) \/
             CreateCanonical(p) \/ WriteCanonical(p)
      PROVE  (\A e \in Desktop : DesktopOf(e))'
  BY <1>1, SMTT(30) DEF Judge, MayJudge, Unlink, Robbed, Alive, LoopExhausted,
        FreezeTargets, CreateCanonical, WriteCanonical, BundleInv, DesktopOf,
        dvars, LockRecord, RecordInv, IInv, TypeOK, PendingOK, TokenOK, Stage,
        Become, lvars, Path, NoFile, Empty, Record
<1>2. ASSUME NEW p \in Proc,
             CanonicalBusy(p) \/ CompatComplete(p) \/ UndoCanonical(p) \/
             GiveUp(p) \/ Retry(p)
      PROVE  (\A e \in Desktop : DesktopOf(e))'
  BY <1>2, SMTT(30) DEF CanonicalBusy, CompatComplete, UndoCanonical,
        RemoveIf, GiveUp, Retry, Forget, BundleInv, DesktopOf, dvars, LockRecord,
        RecordInv, IInv, TypeOK, PendingOK, TokenOK, Stage, Become, lvars, Path,
        NoFile, Empty, Record
<1>3. ASSUME NEW p \in Proc,
             WriteCompat(p) \/ (\E k \in Compat : CreateCompat(p, k)) \/
             (\E k \in Compat : CompatBusy(p, k)) \/
             (\E k \in Compat : UndoCompat(p, k)) \/
             (\E c \in Proc \ {p} : Spawn(p, c))
      PROVE  (\A e \in Desktop : DesktopOf(e))'
  BY <1>3, SMTT(30) DEF WriteCompat, CreateCompat, CompatBusy, UndoCompat,
        RemoveIf, Spawn, BundleInv, DesktopOf, dvars, LockRecord, RecordInv, IInv,
        TypeOK, PendingOK, TokenOK, Stage, Become, lvars, Path, NoFile, Empty,
        Record
<1>4. ASSUME NEW p \in Proc,
             AdoptBegin(p) \/ AdoptSwap(p) \/ HandoffSeen(p) \/
             (\E x \in Path : AdoptCheck(p, x)) \/ RefreshCompat(p)
      PROVE  (\A e \in Desktop : DesktopOf(e))'
  BY <1>4, SMTT(30) DEF AdoptBegin, Reserved, AdoptSwap, Robbed, Alive,
        HandoffSeen, AdoptCheck, RefreshCompat, BundleInv, DesktopOf, dvars,
        LockRecord, RecordInv, IInv, TypeOK, PendingOK, TokenOK, Stage, Become,
        lvars, Path, NoFile, Empty, Record
<1>5. ASSUME NEW p \in Proc,
             RefreshCanonical(p) \/ EndMutation(p) \/ FinishWork(p) \/
             HeartbeatAborts(p) \/ BeginAlias(p) \/ DeferAlias(p) \/
             AliasFails(p) \/ CheckBeforeAlias(p) \/ MakeAlias(p)
      PROVE  (\A e \in Desktop : DesktopOf(e))'
  BY <1>5, SMTT(30) DEF RefreshCanonical, EndMutation, FinishWork,
        HeartbeatAborts, BeginAlias, DeferAlias, AliasFails, CheckBeforeAlias,
        MakeAlias, BundleInv, DesktopOf, dvars, LockRecord, RecordInv, IInv, TypeOK,
        PendingOK, TokenOK, Stage, Become, lvars, Path, NoFile, Empty, Record
<1>6. ASSUME NEW p \in Proc,
             ReleaseMigrationLock(p) \/
             (\E k \in Compat : TakeMigrationLock(p, k)) \/ ReleaseCanonical(p)
             \/ ReleaseComplete(p) \/ (\E k \in Compat : ReleaseCompat(p, k))
      PROVE  (\A e \in Desktop : DesktopOf(e))'
  BY <1>6, SMTT(30) DEF ReleaseMigrationLock, RemoveIf, TakeMigrationLock,
        ReleaseCanonical, ReleaseComplete, ReleaseCompat, BundleInv, DesktopOf,
        dvars, LockRecord, RecordInv, IInv, TypeOK, PendingOK, TokenOK, Stage,
        Become, lvars, Path, NoFile, Empty, Record
<1>7. ASSUME NEW p \in Proc,
             WriteCanonicalFails(p) \/ WriteCompatFails(p) \/ AdoptFails(p) \/
             SpawnFails(p) \/ HandoffFails(p) \/ Launch(p) \/ Exit(p) \/ Crash(p)
      PROVE  (\A e \in Desktop : DesktopOf(e))'
  BY <1>7, SMTT(30) DEF WriteCanonicalFails, RemoveIf, WriteCompatFails,
        AdoptFails, SpawnFails, HandoffFails, Alive, Launch, Exit, Crash,
        Crashed, BundleInv, DesktopOf, dvars, LockRecord, RecordInv, IInv, TypeOK,
        PendingOK, TokenOK, Stage, Become, lvars, Path, NoFile, Empty, Record
<1>8. ASSUME NEW x \in Path, Age(x) PROVE (\A e \in Desktop : DesktopOf(e))'
  BY <1>8, SMTT(30) DEF Age, pvars, dvars, BundleInv, DesktopOf, LockRecord, RecordInv,
        IInv, TypeOK, PendingOK, TokenOK, Stage, Become, lvars, Path, NoFile,
        Empty, Record
<1>9. ASSUME NEW d \in Desktop, DesktopLeave(d)
      PROVE  (\A e \in Desktop : DesktopOf(e))'
  BY <1>9, SMTT(30) DEF DesktopLeave, Forget, pvars, BundleInv, DesktopOf, dvars,
        LockRecord, RecordInv, IInv, TypeOK, PendingOK, TokenOK, Stage, Become,
        lvars, Path, NoFile, Empty, Record
<1>10. ASSUME NEW d \in Desktop, DesktopCrash(d)
      PROVE  (\A e \in Desktop : DesktopOf(e))'
  BY <1>10, SMTT(30) DEF DesktopCrash, pvars, Crashed, BundleInv, DesktopOf, dvars,
        LockRecord, RecordInv, IInv, TypeOK, PendingOK, TokenOK, Stage, Become,
        lvars, Path, NoFile, Empty, Record
<1>11. ASSUME NEW d \in Desktop, NEW k \in Compat, DesktopEnter(d, k)
      PROVE  (\A e \in Desktop : DesktopOf(e))'
  BY <1>11, SMTT(30) DEF DesktopEnter, pvars, BundleInv, DesktopOf, dvars,
        LockRecord, RecordInv, IInv, TypeOK, PendingOK, TokenOK, Stage, Become,
        lvars, Path, NoFile, Empty, Record
<1>. QED
  BY <1>1, <1>2, <1>3, <1>4, <1>5, <1>6, <1>7, <1>8, <1>9, <1>10, <1>11
  DEF Next, Step, Failure, Environment, Sweep, Acquire, Handoff, Work, Release

(* Past the release there is no way back.                                   *)
LEMMA PastStays ==
    ASSUME BundleInv, Next
    PROVE  \A q \in Proc : Stage(q) \in Past => Stage(q)' \in Past /\ \A j \in Compat : <<q, j>> \in stolen => <<q, j>> \in stolen'
<1>. USE NamesDistinct
<1>1. ASSUME NEW p \in Proc,
             (\E x \in Path : Judge(p, x)) \/ Unlink(p) \/ FreezeTargets(p) \/
             CreateCanonical(p) \/ WriteCanonical(p)
      PROVE  \A q \in Proc : Stage(q) \in Past => Stage(q)' \in Past /\ \A j \in Compat : <<q, j>> \in stolen => <<q, j>> \in stolen'
  BY <1>1, SMTT(30) DEF Judge, MayJudge, Unlink, Robbed, Alive, LoopExhausted,
        FreezeTargets, CreateCanonical, WriteCanonical, BundleInv, Past, RecordInv,
        IInv, TypeOK, PendingOK, TokenOK, Stage, Become, lvars, Path, NoFile,
        Empty, Record
<1>2. ASSUME NEW p \in Proc,
             CanonicalBusy(p) \/ CompatComplete(p) \/ UndoCanonical(p) \/
             GiveUp(p) \/ Retry(p)
      PROVE  \A q \in Proc : Stage(q) \in Past => Stage(q)' \in Past /\ \A j \in Compat : <<q, j>> \in stolen => <<q, j>> \in stolen'
  BY <1>2, SMTT(30) DEF CanonicalBusy, CompatComplete, UndoCanonical,
        RemoveIf, GiveUp, Retry, Forget, BundleInv, Past, RecordInv, IInv, TypeOK,
        PendingOK, TokenOK, Stage, Become, lvars, Path, NoFile, Empty, Record
<1>3. ASSUME NEW p \in Proc,
             WriteCompat(p) \/ (\E k \in Compat : CreateCompat(p, k)) \/
             (\E k \in Compat : CompatBusy(p, k)) \/
             (\E k \in Compat : UndoCompat(p, k)) \/
             (\E c \in Proc \ {p} : Spawn(p, c))
      PROVE  \A q \in Proc : Stage(q) \in Past => Stage(q)' \in Past /\ \A j \in Compat : <<q, j>> \in stolen => <<q, j>> \in stolen'
  BY <1>3, SMTT(30) DEF WriteCompat, CreateCompat, CompatBusy, UndoCompat,
        RemoveIf, Spawn, BundleInv, Past, RecordInv, IInv, TypeOK, PendingOK, TokenOK,
        Stage, Become, lvars, Path, NoFile, Empty, Record
<1>4. ASSUME NEW p \in Proc,
             AdoptBegin(p) \/ AdoptSwap(p) \/ HandoffSeen(p) \/
             (\E x \in Path : AdoptCheck(p, x)) \/ RefreshCompat(p)
      PROVE  \A q \in Proc : Stage(q) \in Past => Stage(q)' \in Past /\ \A j \in Compat : <<q, j>> \in stolen => <<q, j>> \in stolen'
  BY <1>4, SMTT(30) DEF AdoptBegin, Reserved, AdoptSwap, Robbed, Alive,
        HandoffSeen, AdoptCheck, RefreshCompat, BundleInv, Past, RecordInv, IInv,
        TypeOK, PendingOK, TokenOK, Stage, Become, lvars, Path, NoFile, Empty,
        Record
<1>5. ASSUME NEW p \in Proc,
             RefreshCanonical(p) \/ EndMutation(p) \/ FinishWork(p) \/
             HeartbeatAborts(p) \/ BeginAlias(p) \/ DeferAlias(p) \/
             AliasFails(p) \/ CheckBeforeAlias(p) \/ MakeAlias(p)
      PROVE  \A q \in Proc : Stage(q) \in Past => Stage(q)' \in Past /\ \A j \in Compat : <<q, j>> \in stolen => <<q, j>> \in stolen'
  BY <1>5, SMTT(30) DEF RefreshCanonical, EndMutation, FinishWork,
        HeartbeatAborts, BeginAlias, DeferAlias, AliasFails, CheckBeforeAlias,
        MakeAlias, BundleInv, Past, RecordInv, IInv, TypeOK, PendingOK, TokenOK, Stage,
        Become, lvars, Path, NoFile, Empty, Record
<1>6. ASSUME NEW p \in Proc,
             ReleaseMigrationLock(p) \/
             (\E k \in Compat : TakeMigrationLock(p, k)) \/ ReleaseCanonical(p)
             \/ ReleaseComplete(p) \/ (\E k \in Compat : ReleaseCompat(p, k))
      PROVE  \A q \in Proc : Stage(q) \in Past => Stage(q)' \in Past /\ \A j \in Compat : <<q, j>> \in stolen => <<q, j>> \in stolen'
  BY <1>6, SMTT(30) DEF ReleaseMigrationLock, RemoveIf, TakeMigrationLock,
        ReleaseCanonical, ReleaseComplete, ReleaseCompat, BundleInv, Past, RecordInv,
        IInv, TypeOK, PendingOK, TokenOK, Stage, Become, lvars, Path, NoFile,
        Empty, Record
<1>7. ASSUME NEW p \in Proc,
             WriteCanonicalFails(p) \/ WriteCompatFails(p) \/ AdoptFails(p) \/
             SpawnFails(p) \/ HandoffFails(p) \/ Launch(p) \/ Exit(p) \/ Crash(p)
      PROVE  \A q \in Proc : Stage(q) \in Past => Stage(q)' \in Past /\ \A j \in Compat : <<q, j>> \in stolen => <<q, j>> \in stolen'
  BY <1>7, SMTT(30) DEF WriteCanonicalFails, RemoveIf, WriteCompatFails,
        AdoptFails, SpawnFails, HandoffFails, Alive, Launch, Exit, Crash,
        Crashed, BundleInv, Past, RecordInv, IInv, TypeOK, PendingOK, TokenOK, Stage,
        Become, lvars, Path, NoFile, Empty, Record
<1>8. ASSUME NEW x \in Path, Age(x)
      PROVE  \A q \in Proc : Stage(q) \in Past => Stage(q)' \in Past /\ \A j \in Compat : <<q, j>> \in stolen => <<q, j>> \in stolen'
  BY <1>8, SMTT(30) DEF Age, pvars, dvars, BundleInv, Past, RecordInv, IInv, TypeOK,
        PendingOK, TokenOK, Stage, Become, lvars, Path, NoFile, Empty, Record
<1>9. ASSUME NEW d \in Desktop, DesktopLeave(d)
      PROVE  \A q \in Proc : Stage(q) \in Past => Stage(q)' \in Past /\ \A j \in Compat : <<q, j>> \in stolen => <<q, j>> \in stolen'
  BY <1>9, SMTT(30) DEF DesktopLeave, Forget, pvars, BundleInv, Past, RecordInv, IInv,
        TypeOK, PendingOK, TokenOK, Stage, Become, lvars, Path, NoFile, Empty,
        Record
<1>10. ASSUME NEW d \in Desktop, DesktopCrash(d)
      PROVE  \A q \in Proc : Stage(q) \in Past => Stage(q)' \in Past /\ \A j \in Compat : <<q, j>> \in stolen => <<q, j>> \in stolen'
  BY <1>10, SMTT(30) DEF DesktopCrash, pvars, Crashed, BundleInv, Past, RecordInv, IInv,
        TypeOK, PendingOK, TokenOK, Stage, Become, lvars, Path, NoFile, Empty,
        Record
<1>11. ASSUME NEW d \in Desktop, NEW k \in Compat, DesktopEnter(d, k)
      PROVE  \A q \in Proc : Stage(q) \in Past => Stage(q)' \in Past /\ \A j \in Compat : <<q, j>> \in stolen => <<q, j>> \in stolen'
  BY <1>11, SMTT(30) DEF DesktopEnter, pvars, BundleInv, Past, RecordInv, IInv, TypeOK,
        PendingOK, TokenOK, Stage, Become, lvars, Path, NoFile, Empty, Record
<1>. QED
  BY <1>1, <1>2, <1>3, <1>4, <1>5, <1>6, <1>7, <1>8, <1>9, <1>10, <1>11
  DEF Next, Step, Failure, Environment, Sweep, Acquire, Handoff, Work, Release

(* A step that makes no alias, moves no Desktop and robs none back.         *)
LEMMA PrivateFrame ==
    ASSUME BundleInv, Next, aliased' = aliased, UNCHANGED dvars,
           \A d \in Desktop, k \in Compat : <<d, k>> \in stolen => <<d, k>> \in stolen'
    PROVE  (\A e \in Desktop : PrivateOf(e))'
<1>1. SUFFICES ASSUME NEW e \in Desktop, dpc[e] = "private", dat[e] \in aliased
               PROVE  \/ <<e, dat[e]>> \in stolen'
                      \/ \E q \in Proc : <<q, dat[e]>> \in stolen' /\ Stage(q)' \in Past
  BY DEF PrivateOf, dvars
<1>2. dat[e] \in Compat /\ PrivateOf(e)
  BY <1>1 DEF BundleInv, DesktopOf
<1>3. CASE <<e, dat[e]>> \in stolen
  BY <1>2, <1>3
<1>4. ASSUME NEW q \in Proc, <<q, dat[e]>> \in stolen, Stage(q) \in Past
      PROVE  \E r \in Proc : <<r, dat[e]>> \in stolen' /\ Stage(r)' \in Past
  <2>1. <<q, dat[e]>> \in stolen' /\ Stage(q)' \in Past
    BY <1>2, <1>4, PastStays
  <2>. QED BY <2>1 DEF Stage
<1>. QED BY <1>1, <1>2, <1>3, <1>4 DEF PrivateOf

(* No step makes an alias of a private venv in use, unless one was robbed. *)
LEMMA PrivateNext ==
    ASSUME BundleInv, Next
    PROVE  (\A e \in Desktop : PrivateOf(e))'
<1>. USE NamesDistinct
<1>1. ASSUME NEW p \in Proc, Sweep(p) \/ Acquire(p) PROVE (\A e \in Desktop : PrivateOf(e))'
  <2>1. /\ aliased' = aliased /\ UNCHANGED dvars
        /\ \A d \in Desktop, k \in Compat : <<d, k>> \in stolen => <<d, k>> \in stolen'
    BY <1>1 DEF Sweep, Judge, Unlink, Acquire, FreezeTargets, CreateCanonical,
        WriteCanonical, CanonicalBusy, CompatComplete, UndoCanonical, GiveUp,
        Retry, Forget, WriteCompat, CreateCompat, CompatBusy, UndoCompat, lvars, dvars
  <2>. QED BY <2>1, PrivateFrame
<1>2. ASSUME NEW p \in Proc, Handoff(p) \/ Release(p) \/ Failure(p) PROVE (\A e \in Desktop : PrivateOf(e))'
  <2>1. /\ aliased' = aliased /\ UNCHANGED dvars
        /\ \A d \in Desktop, k \in Compat : <<d, k>> \in stolen => <<d, k>> \in stolen'
    BY <1>2 DEF Handoff, Spawn, AdoptBegin, AdoptSwap, HandoffSeen, AdoptCheck,
        Release, ReleaseCanonical, ReleaseComplete, ReleaseCompat, Failure,
        WriteCanonicalFails, WriteCompatFails, AdoptFails, SpawnFails,
        HandoffFails, AliasFails, lvars, dvars
  <2>. QED BY <2>1, PrivateFrame
<1>3. ASSUME NEW p \in Proc, Work(p), ~MakeAlias(p) PROVE (\A e \in Desktop : PrivateOf(e))'
  <2>1. /\ aliased' = aliased /\ UNCHANGED dvars /\ stolen' = stolen
    BY <1>3 DEF Work, RefreshCompat, RefreshCanonical, EndMutation, FinishWork,
        BeginAlias, DeferAlias, CheckBeforeAlias, ReleaseMigrationLock,
        HeartbeatAborts, TakeMigrationLock, lvars, dvars
  <2>. QED BY <2>1, PrivateFrame
<1>4. ASSUME NEW p \in Proc, MakeAlias(p) PROVE (\A e \in Desktop : PrivateOf(e))'
  <2>1. /\ Stage(p)' \in Past /\ UNCHANGED <<file, dpc, dat, stolen>>
        /\ aliased' = aliased \cup {at[p]} /\ \A q \in Proc \ {p} : Stage(q)' = Stage(q)
    BY <1>4 DEF MakeAlias, Become, Stage, Past, dvars, BundleInv, RecordInv, IInv, TypeOK
  <2>2. file[at[p]].pid = p \/ <<p, at[p]>> \in stolen
    BY <1>4 DEF MakeAlias, BundleInv, BundleOf
  <2>3. ASSUME NEW e \in Desktop, dpc[e] = "private", dat[e] \in aliased'
        PROVE  \/ <<e, dat[e]>> \in stolen
               \/ \E q \in Proc : <<q, dat[e]>> \in stolen /\ Stage(q)' \in Past
    <3>1. CASE dat[e] = at[p]
      <4>1. file[at[p]].pid = e \/ <<e, at[p]>> \in stolen
        BY <2>3, <3>1 DEF BundleInv, DesktopOf
      <4>. QED BY <2>1, <2>2, <2>3, <3>1, <4>1 DEF Stage
    <3>2. CASE dat[e] \in aliased
      <4>1. PrivateOf(e)
        BY DEF BundleInv
      <4>2. ASSUME NEW q \in Proc, Stage(q) \in Past PROVE Stage(q)' \in Past
        BY <4>2, <2>1 DEF Stage
      <4>. QED BY <2>3, <3>2, <4>1, <4>2 DEF PrivateOf, Stage
    <3>. QED BY <2>1, <2>3, <3>1, <3>2
  <2>. QED BY <2>1, <2>3 DEF PrivateOf, Stage
<1>5. ASSUME NEW p \in Proc, Launch(p) \/ Exit(p) \/ Crash(p) PROVE (\A e \in Desktop : PrivateOf(e))'
  <2>1. /\ aliased' = aliased /\ UNCHANGED dvars /\ stolen' = stolen
    BY <1>5 DEF Launch, Exit, Crash, lvars, dvars
  <2>. QED BY <2>1, PrivateFrame
<1>6. ASSUME NEW x \in Path, Age(x) PROVE (\A e \in Desktop : PrivateOf(e))'
  <2>1. /\ aliased' = aliased /\ UNCHANGED dvars /\ stolen' = stolen
    BY <1>6 DEF Age, dvars
  <2>. QED BY <2>1, PrivateFrame
<1>7. ASSUME NEW d \in Desktop,
             DesktopLeave(d) \/ DesktopCrash(d) \/ \E k \in Compat : DesktopEnter(d, k)
      PROVE  (\A e \in Desktop : PrivateOf(e))'
  <2>1. /\ UNCHANGED <<pc, ret, aliased>>
        /\ \A e \in Desktop \ {d} : dpc'[e] = dpc[e] /\ dat'[e] = dat[e]
        /\ dpc'[d] = "private" => dat'[d] \notin aliased
        /\ \A s \in stolen : s[1] # d => s \in stolen'
    BY <1>7 DEF DesktopLeave, DesktopCrash, DesktopEnter, Forget, lvars, pvars,
        BundleInv, RecordInv, IInv, TypeOK
  <2>2. ASSUME NEW e \in Desktop \ {d}, dpc[e] = "private", dat[e] \in aliased
        PROVE  \/ <<e, dat[e]>> \in stolen'
               \/ \E q \in Proc : <<q, dat[e]>> \in stolen' /\ Stage(q) \in Past
    BY <2>1, <2>2 DEF BundleInv, PrivateOf
  <2>. QED BY <2>1, <2>2 DEF PrivateOf, Stage
<1>. QED
  BY <1>1, <1>2, <1>3, <1>4, <1>5, <1>6, <1>7 DEF Next, Step, Environment

(* A child's bundle is its parent's.                                        *)
LEMMA AdoptNext ==
    ASSUME BundleInv, Next
    PROVE  (\A q \in Proc : AdoptOf(q))'
<1>. USE NamesDistinct
<1>1. ASSUME NEW p \in Proc, NEW x \in Path, Judge(p, x)
      PROVE  (\A q \in Proc : AdoptOf(q))'
  BY <1>1, SMTT(30) DEF Judge, MayJudge, BundleInv, LoopOK, LoopOf, AdoptOf,
        ParentOK, Gone, RecordOf, CanonicalPid, Early, Reserved, RecordInv, IInv,
        TypeOK, PendingOK, TokenOK, Stage, Become, lvars, Path, NoFile, Empty,
        Record
<1>2. ASSUME NEW p \in Proc, Unlink(p) PROVE (\A q \in Proc : AdoptOf(q))'
  BY <1>2, SMTT(30) DEF Unlink, Robbed, Alive, LoopExhausted, BundleInv, LoopOK,
        LoopOf, AdoptOf, ParentOK, Gone, RecordOf, CanonicalPid, Early,
        Reserved, RecordInv, IInv, TypeOK, PendingOK, TokenOK, Stage, Become,
        lvars, Path, NoFile, Empty, Record
<1>3. ASSUME NEW p \in Proc, FreezeTargets(p)
      PROVE  (\A q \in Proc : AdoptOf(q))'
  BY <1>3, SMTT(30) DEF FreezeTargets, BundleInv, LoopOK, LoopOf, AdoptOf,
        ParentOK, Gone, RecordOf, CanonicalPid, Early, Reserved, RecordInv, IInv,
        TypeOK, PendingOK, TokenOK, Stage, Become, lvars, Path, NoFile, Empty,
        Record
<1>4. ASSUME NEW p \in Proc, CreateCanonical(p)
      PROVE  (\A q \in Proc : AdoptOf(q))'
  BY <1>4, SMTT(30) DEF CreateCanonical, BundleInv, LoopOK, LoopOf, AdoptOf,
        ParentOK, Gone, RecordOf, CanonicalPid, Early, Reserved, RecordInv, IInv,
        TypeOK, PendingOK, TokenOK, Stage, Become, lvars, Path, NoFile, Empty,
        Record
<1>5. ASSUME NEW p \in Proc, WriteCanonical(p)
      PROVE  (\A q \in Proc : AdoptOf(q))'
  BY <1>5, SMTT(30) DEF WriteCanonical, BundleInv, LoopOK, LoopOf, AdoptOf,
        ParentOK, Gone, RecordOf, CanonicalPid, Early, Reserved, RecordInv, IInv,
        TypeOK, PendingOK, TokenOK, Stage, Become, lvars, Path, NoFile, Empty,
        Record
<1>6. ASSUME NEW p \in Proc, CanonicalBusy(p)
      PROVE  (\A q \in Proc : AdoptOf(q))'
  BY <1>6, SMTT(30) DEF CanonicalBusy, BundleInv, LoopOK, LoopOf, AdoptOf,
        ParentOK, Gone, RecordOf, CanonicalPid, Early, Reserved, RecordInv, IInv,
        TypeOK, PendingOK, TokenOK, Stage, Become, lvars, Path, NoFile, Empty,
        Record
<1>7. ASSUME NEW p \in Proc, CompatComplete(p)
      PROVE  (\A q \in Proc : AdoptOf(q))'
  BY <1>7, SMTT(30) DEF CompatComplete, BundleInv, LoopOK, LoopOf, AdoptOf,
        ParentOK, Gone, RecordOf, CanonicalPid, Early, Reserved, RecordInv, IInv,
        TypeOK, PendingOK, TokenOK, Stage, Become, lvars, Path, NoFile, Empty,
        Record
<1>8. ASSUME NEW p \in Proc, UndoCanonical(p)
      PROVE  (\A q \in Proc : AdoptOf(q))'
  BY <1>8, SMTT(30) DEF UndoCanonical, RemoveIf, BundleInv, LoopOK, LoopOf,
        AdoptOf, ParentOK, Gone, RecordOf, CanonicalPid, Early, Reserved,
        RecordInv, IInv, TypeOK, PendingOK, TokenOK, Stage, Become, lvars, Path,
        NoFile, Empty, Record
<1>9. ASSUME NEW p \in Proc, GiveUp(p) PROVE (\A q \in Proc : AdoptOf(q))'
  BY <1>9, SMTT(30) DEF GiveUp, BundleInv, LoopOK, LoopOf, AdoptOf, ParentOK, Gone,
        RecordOf, CanonicalPid, Early, Reserved, RecordInv, IInv, TypeOK,
        PendingOK, TokenOK, Stage, Become, lvars, Path, NoFile, Empty, Record
<1>10. ASSUME NEW p \in Proc, Retry(p) PROVE (\A q \in Proc : AdoptOf(q))'
  BY <1>10, SMTT(30) DEF Retry, Forget, BundleInv, LoopOK, LoopOf, AdoptOf,
        ParentOK, Gone, RecordOf, CanonicalPid, Early, Reserved, RecordInv, IInv,
        TypeOK, PendingOK, TokenOK, Stage, Become, lvars, Path, NoFile, Empty,
        Record
<1>11. ASSUME NEW p \in Proc, WriteCompat(p)
      PROVE  (\A q \in Proc : AdoptOf(q))'
  BY <1>11, SMTT(30) DEF WriteCompat, BundleInv, LoopOK, LoopOf, AdoptOf, ParentOK,
        Gone, RecordOf, CanonicalPid, Early, Reserved, RecordInv, IInv, TypeOK,
        PendingOK, TokenOK, Stage, Become, lvars, Path, NoFile, Empty, Record
<1>12. ASSUME NEW p \in Proc, NEW k \in Compat, CreateCompat(p, k)
      PROVE  (\A q \in Proc : AdoptOf(q))'
  BY <1>12, SMTT(30) DEF CreateCompat, BundleInv, LoopOK, LoopOf, AdoptOf,
        ParentOK, Gone, RecordOf, CanonicalPid, Early, Reserved, RecordInv, IInv,
        TypeOK, PendingOK, TokenOK, Stage, Become, lvars, Path, NoFile, Empty,
        Record
<1>13. ASSUME NEW p \in Proc, NEW k \in Compat, CompatBusy(p, k)
      PROVE  (\A q \in Proc : AdoptOf(q))'
  BY <1>13, SMTT(30) DEF CompatBusy, BundleInv, LoopOK, LoopOf, AdoptOf, ParentOK,
        Gone, RecordOf, CanonicalPid, Early, Reserved, RecordInv, IInv, TypeOK,
        PendingOK, TokenOK, Stage, Become, lvars, Path, NoFile, Empty, Record
<1>14. ASSUME NEW p \in Proc, NEW k \in Compat, UndoCompat(p, k)
      PROVE  (\A q \in Proc : AdoptOf(q))'
  BY <1>14, SMTT(30) DEF UndoCompat, RemoveIf, BundleInv, LoopOK, LoopOf, AdoptOf,
        ParentOK, Gone, RecordOf, CanonicalPid, Early, Reserved, RecordInv, IInv,
        TypeOK, PendingOK, TokenOK, Stage, Become, lvars, Path, NoFile, Empty,
        Record
<1>15. ASSUME NEW p \in Proc, NEW c \in Proc \ {p}, Spawn(p, c)
      PROVE  (\A q \in Proc : AdoptOf(q))'
  BY <1>15, SMTT(30) DEF Spawn, BundleInv, LoopOK, LoopOf, AdoptOf, ParentOK, Gone,
        RecordOf, CanonicalPid, Early, Reserved, RecordInv, IInv, TypeOK,
        PendingOK, TokenOK, Stage, Become, lvars, Path, NoFile, Empty, Record
<1>16. ASSUME NEW p \in Proc, AdoptBegin(p)
      PROVE  (\A q \in Proc : AdoptOf(q))'
  <2>1. tok[p] \in Proc /\ tok[p] # p /\ file[Canonical].tok = tok[p] /\ Stage(p) = "acquire"
    BY <1>16 DEF AdoptBegin, Reserved, TokenOK, Stage, BundleInv, RecordInv, IInv,
         TypeOK, PendingOK
  <2>2. PICK q \in Proc : file[Canonical].pid = q
    BY <2>1 DEF BundleInv, RecordInv, IInv, TypeOK, PendingOK, CanonicalPid, NoFile
  <2>3. tok[q] = tok[p] /\ file[Canonical].targets = frozen[q] /\ q # p
    BY <2>1, <2>2 DEF BundleInv, RecordInv, IInv, TypeOK, PendingOK, RecordOf, Early
  <2>4. q = tok[p]
    BY <2>1, <2>3 DEF BundleInv, RecordInv, IInv, TypeOK, PendingOK, ParentOK
  <2>5. \A r \in Proc : tok[r] = p => r = p
    BY <2>1 DEF BundleInv, RecordInv, IInv, TypeOK, PendingOK, ParentOK, Gone
  <2>6. ASSUME NEW r \in Proc \ {p}, pc[r] \in {"adopt", "swap"} PROVE AdoptOf(r)'
    <3>1. tok[r] \in Proc \ {p}
      BY <2>5, <2>6 DEF BundleInv, RecordInv, IInv, TypeOK, PendingOK, TokenOK, Stage
    <3>2. AdoptOf(r)
      BY <2>6 DEF BundleInv
    <3>. QED BY <1>16, <2>6, <3>1, <3>2 DEF AdoptBegin, AdoptOf, Become, BundleInv,
         RecordInv, IInv, TypeOK, PendingOK, lvars
  <2>7. AdoptOf(p)'
    BY <1>16, <2>1, <2>3, <2>4 DEF AdoptBegin, AdoptOf, Become, BundleInv, RecordInv,
         IInv, TypeOK, PendingOK
  <2>. QED BY <1>16, <2>6, <2>7 DEF AdoptBegin, AdoptOf, Become, BundleInv, RecordInv,
       IInv, TypeOK, PendingOK
<1>17. ASSUME NEW p \in Proc, AdoptSwap(p) PROVE (\A q \in Proc : AdoptOf(q))'
  BY <1>17, SMTT(30) DEF AdoptSwap, Robbed, Alive, BundleInv, LoopOK, LoopOf,
        AdoptOf, ParentOK, Gone, RecordOf, CanonicalPid, Early, Reserved,
        RecordInv, IInv, TypeOK, PendingOK, TokenOK, Stage, Become, lvars, Path,
        NoFile, Empty, Record
<1>18. ASSUME NEW p \in Proc, HandoffSeen(p)
      PROVE  (\A q \in Proc : AdoptOf(q))'
  BY <1>18, SMTT(30) DEF HandoffSeen, BundleInv, LoopOK, LoopOf, AdoptOf, ParentOK,
        Gone, RecordOf, CanonicalPid, Early, Reserved, RecordInv, IInv, TypeOK,
        PendingOK, TokenOK, Stage, Become, lvars, Path, NoFile, Empty, Record
<1>19. ASSUME NEW p \in Proc, NEW x \in Path, AdoptCheck(p, x)
      PROVE  (\A q \in Proc : AdoptOf(q))'
  BY <1>19, SMTT(30) DEF AdoptCheck, BundleInv, LoopOK, LoopOf, AdoptOf, ParentOK,
        Gone, RecordOf, CanonicalPid, Early, Reserved, RecordInv, IInv, TypeOK,
        PendingOK, TokenOK, Stage, Become, lvars, Path, NoFile, Empty, Record
<1>20. ASSUME NEW p \in Proc, RefreshCompat(p)
      PROVE  (\A q \in Proc : AdoptOf(q))'
  BY <1>20, SMTT(30) DEF RefreshCompat, BundleInv, LoopOK, LoopOf, AdoptOf,
        ParentOK, Gone, RecordOf, CanonicalPid, Early, Reserved, RecordInv, IInv,
        TypeOK, PendingOK, TokenOK, Stage, Become, lvars, Path, NoFile, Empty,
        Record
<1>21. ASSUME NEW p \in Proc, RefreshCanonical(p)
      PROVE  (\A q \in Proc : AdoptOf(q))'
  BY <1>21, SMTT(30) DEF RefreshCanonical, BundleInv, LoopOK, LoopOf, AdoptOf,
        ParentOK, Gone, RecordOf, CanonicalPid, Early, Reserved, RecordInv, IInv,
        TypeOK, PendingOK, TokenOK, Stage, Become, lvars, Path, NoFile, Empty,
        Record
<1>22. ASSUME NEW p \in Proc, EndMutation(p) \/ FinishWork(p) \/ HeartbeatAborts(p)
      PROVE  (\A q \in Proc : AdoptOf(q))'
  BY <1>22, SMTT(30) DEF EndMutation, FinishWork, HeartbeatAborts, BundleInv,
        LoopOK, LoopOf, AdoptOf, ParentOK, Gone, RecordOf, CanonicalPid,
        Early, Reserved, RecordInv, IInv, TypeOK, PendingOK, TokenOK, Stage,
        Become, lvars, Path, NoFile, Empty, Record
<1>23. ASSUME NEW p \in Proc, BeginAlias(p) \/ DeferAlias(p) \/ AliasFails(p)
      PROVE  (\A q \in Proc : AdoptOf(q))'
  BY <1>23, SMTT(30) DEF BeginAlias, DeferAlias, AliasFails, BundleInv, LoopOK,
        LoopOf, AdoptOf, ParentOK, Gone, RecordOf, CanonicalPid, Early,
        Reserved, RecordInv, IInv, TypeOK, PendingOK, TokenOK, Stage, Become,
        lvars, Path, NoFile, Empty, Record
<1>24. ASSUME NEW p \in Proc, CheckBeforeAlias(p)
      PROVE  (\A q \in Proc : AdoptOf(q))'
  BY <1>24, SMTT(30) DEF CheckBeforeAlias, BundleInv, LoopOK, LoopOf, AdoptOf,
        ParentOK, Gone, RecordOf, CanonicalPid, Early, Reserved, RecordInv, IInv,
        TypeOK, PendingOK, TokenOK, Stage, Become, lvars, Path, NoFile, Empty,
        Record
<1>25. ASSUME NEW p \in Proc, MakeAlias(p) PROVE (\A q \in Proc : AdoptOf(q))'
  BY <1>25, SMTT(30) DEF MakeAlias, BundleInv, LoopOK, LoopOf, AdoptOf, ParentOK,
        Gone, RecordOf, CanonicalPid, Early, Reserved, RecordInv, IInv, TypeOK,
        PendingOK, TokenOK, Stage, Become, lvars, Path, NoFile, Empty, Record
<1>26. ASSUME NEW p \in Proc, ReleaseMigrationLock(p)
      PROVE  (\A q \in Proc : AdoptOf(q))'
  BY <1>26, SMTT(30) DEF ReleaseMigrationLock, RemoveIf, BundleInv, LoopOK, LoopOf,
        AdoptOf, ParentOK, Gone, RecordOf, CanonicalPid, Early, Reserved,
        RecordInv, IInv, TypeOK, PendingOK, TokenOK, Stage, Become, lvars, Path,
        NoFile, Empty, Record
<1>27. ASSUME NEW p \in Proc, NEW k \in Compat, TakeMigrationLock(p, k)
      PROVE  (\A q \in Proc : AdoptOf(q))'
  BY <1>27, SMTT(30) DEF TakeMigrationLock, BundleInv, LoopOK, LoopOf, AdoptOf,
        ParentOK, Gone, RecordOf, CanonicalPid, Early, Reserved, RecordInv, IInv,
        TypeOK, PendingOK, TokenOK, Stage, Become, lvars, Path, NoFile, Empty,
        Record
<1>28. ASSUME NEW p \in Proc, ReleaseCanonical(p)
      PROVE  (\A q \in Proc : AdoptOf(q))'
  BY <1>28, SMTT(30) DEF ReleaseCanonical, RemoveIf, BundleInv, LoopOK, LoopOf,
        AdoptOf, ParentOK, Gone, RecordOf, CanonicalPid, Early, Reserved,
        RecordInv, IInv, TypeOK, PendingOK, TokenOK, Stage, Become, lvars, Path,
        NoFile, Empty, Record
<1>29. ASSUME NEW p \in Proc, ReleaseComplete(p)
      PROVE  (\A q \in Proc : AdoptOf(q))'
  BY <1>29, SMTT(30) DEF ReleaseComplete, BundleInv, LoopOK, LoopOf, AdoptOf,
        ParentOK, Gone, RecordOf, CanonicalPid, Early, Reserved, RecordInv, IInv,
        TypeOK, PendingOK, TokenOK, Stage, Become, lvars, Path, NoFile, Empty,
        Record
<1>30. ASSUME NEW p \in Proc, NEW k \in Compat, ReleaseCompat(p, k)
      PROVE  (\A q \in Proc : AdoptOf(q))'
  BY <1>30, SMTT(30) DEF ReleaseCompat, RemoveIf, BundleInv, LoopOK, LoopOf,
        AdoptOf, ParentOK, Gone, RecordOf, CanonicalPid, Early, Reserved,
        RecordInv, IInv, TypeOK, PendingOK, TokenOK, Stage, Become, lvars, Path,
        NoFile, Empty, Record
<1>31. ASSUME NEW p \in Proc, WriteCanonicalFails(p)
      PROVE  (\A q \in Proc : AdoptOf(q))'
  BY <1>31, SMTT(30) DEF WriteCanonicalFails, RemoveIf, BundleInv, LoopOK, LoopOf,
        AdoptOf, ParentOK, Gone, RecordOf, CanonicalPid, Early, Reserved,
        RecordInv, IInv, TypeOK, PendingOK, TokenOK, Stage, Become, lvars, Path,
        NoFile, Empty, Record
<1>32. ASSUME NEW p \in Proc, WriteCompatFails(p) \/ AdoptFails(p) \/ SpawnFails(p)
      PROVE  (\A q \in Proc : AdoptOf(q))'
  BY <1>32, SMTT(30) DEF WriteCompatFails, AdoptFails, SpawnFails, BundleInv,
        LoopOK, LoopOf, AdoptOf, ParentOK, Gone, RecordOf, CanonicalPid,
        Early, Reserved, RecordInv, IInv, TypeOK, PendingOK, TokenOK, Stage,
        Become, lvars, Path, NoFile, Empty, Record
<1>33. ASSUME NEW p \in Proc, HandoffFails(p)
      PROVE  (\A q \in Proc : AdoptOf(q))'
  BY <1>33, SMTT(30) DEF HandoffFails, Alive, BundleInv, LoopOK, LoopOf, AdoptOf,
        ParentOK, Gone, RecordOf, CanonicalPid, Early, Reserved, RecordInv, IInv,
        TypeOK, PendingOK, TokenOK, Stage, Become, lvars, Path, NoFile, Empty,
        Record
<1>34. ASSUME NEW p \in Proc, Launch(p) \/ Exit(p)
      PROVE  (\A q \in Proc : AdoptOf(q))'
  BY <1>34, SMTT(30) DEF Launch, Exit, BundleInv, LoopOK, LoopOf, AdoptOf,
        ParentOK, Gone, RecordOf, CanonicalPid, Early, Reserved, RecordInv, IInv,
        TypeOK, PendingOK, TokenOK, Stage, Become, lvars, Path, NoFile, Empty,
        Record
<1>35. ASSUME NEW p \in Proc, Crash(p) PROVE (\A q \in Proc : AdoptOf(q))'
  BY <1>35, SMTT(30) DEF Crash, Crashed, BundleInv, LoopOK, LoopOf, AdoptOf,
        ParentOK, Gone, RecordOf, CanonicalPid, Early, Reserved, RecordInv, IInv,
        TypeOK, PendingOK, TokenOK, Stage, Become, lvars, Path, NoFile, Empty,
        Record
<1>36. ASSUME NEW x \in Path, Age(x) PROVE (\A q \in Proc : AdoptOf(q))'
  BY <1>36, SMTT(30) DEF Age, pvars, dvars, BundleInv, LoopOK, LoopOf, AdoptOf,
        ParentOK, Gone, RecordOf, CanonicalPid, Early, Reserved, RecordInv, IInv,
        TypeOK, PendingOK, TokenOK, Stage, Become, lvars, Path, NoFile, Empty,
        Record
<1>37. ASSUME NEW d \in Desktop, DesktopLeave(d)
      PROVE  (\A q \in Proc : AdoptOf(q))'
  BY <1>37, SMTT(30) DEF DesktopLeave, Forget, pvars, BundleInv, LoopOK, LoopOf,
        AdoptOf, ParentOK, Gone, RecordOf, CanonicalPid, Early, Reserved,
        RecordInv, IInv, TypeOK, PendingOK, TokenOK, Stage, Become, lvars, Path,
        NoFile, Empty, Record
<1>38. ASSUME NEW d \in Desktop, DesktopCrash(d)
      PROVE  (\A q \in Proc : AdoptOf(q))'
  BY <1>38, SMTT(30) DEF DesktopCrash, pvars, Crashed, BundleInv, LoopOK, LoopOf,
        AdoptOf, ParentOK, Gone, RecordOf, CanonicalPid, Early, Reserved,
        RecordInv, IInv, TypeOK, PendingOK, TokenOK, Stage, Become, lvars, Path,
        NoFile, Empty, Record
<1>39. ASSUME NEW d \in Desktop, NEW k \in Compat, DesktopEnter(d, k)
      PROVE  (\A q \in Proc : AdoptOf(q))'
  BY <1>39, SMTT(30) DEF DesktopEnter, pvars, BundleInv, LoopOK, LoopOf, AdoptOf,
        ParentOK, Gone, RecordOf, CanonicalPid, Early, Reserved, RecordInv, IInv,
        TypeOK, PendingOK, TokenOK, Stage, Become, lvars, Path, NoFile, Empty,
        Record
<1>. QED
  BY <1>1, <1>2, <1>3, <1>4, <1>5, <1>6, <1>7, <1>8, <1>9, <1>10, <1>11,
     <1>12, <1>13, <1>14, <1>15, <1>16, <1>17, <1>18, <1>19, <1>20, <1>21,
     <1>22, <1>23, <1>24, <1>25, <1>26, <1>27, <1>28, <1>29, <1>30, <1>31,
     <1>32, <1>33, <1>34, <1>35, <1>36, <1>37, <1>38, <1>39
  DEF Next, Step, Failure, Environment, Sweep, Acquire, Handoff, Work, Release

(* Every record stays on its owner's list.                                  *)
LEMMA LeftNext ==
    ASSUME BundleInv, Next
    PROVE  (\A q \in Proc, j \in Compat : LeftOf(q, j))'
<1>. USE NamesDistinct
<1>1. ASSUME NEW p \in Proc, Unlink(p)
      PROVE  (\A q \in Proc, j \in Compat : LeftOf(q, j))'
  <2>1. /\ pc'[p] \in {ret[p], LoopExhausted(ret[p])} /\ at[p] \in Path /\ Stage(p) = ret[p]
        /\ ret[p] \in {"idle", "acquire", "compat", "prealias", "undo", "denied", "release", "releasec"}
        /\ UNCHANGED <<got, todo, frozen, tok>> /\ stolen \subseteq stolen'
        /\ \A k \in Path : file'[k] = IF k = at[p] THEN NoFile ELSE file[k]
    BY <1>1 DEF Unlink, Become, Stage, BundleInv, RecordInv, IInv, TypeOK, PendingOK
  <2>2. ASSUME NEW q \in Proc \ {p}, NEW j \in Compat PROVE LeftOf(q, j)'
    <3>1. Stage(q)' = Stage(q) /\ pc'[q] = pc[q] /\ ret'[q] = ret[q] /\ at'[q] = at[q]
      BY <1>1 DEF Unlink, Stage, Become, BundleInv, RecordInv, IInv, TypeOK, PendingOK
    <3>2. LeftOf(q, j)
      BY DEF BundleInv
    <3>3. Kept(q) /\ pc[q] \notin {"exited", "crashed"} => Kept(q)'
      BY <1>1, <2>1 DEF Unlink, Robbed, Alive, Kept, Owns, Path
    <3>4. Stage(q) \in {"await", "release"} => pc[q] \notin {"exited", "crashed"}
      BY DEF Stage
    <3>5. file'[j].pid = q => file'[j] = file[j]
      BY <2>1 DEF NoFile, Path
    <3>. QED BY <2>1, <3>1, <3>2, <3>3, <3>4, <3>5 DEF LeftOf, Path
  <2>3. ASSUME NEW j \in Compat PROVE LeftOf(p, j)'
    <3>1. file'[j].pid = p => file'[j] = file[j] /\ j # at[p]
      BY <2>1 DEF NoFile, Path
    <3>2. LeftOf(p, j) /\ LoopOf(p) /\ pc[p] = "unlink"
      BY <1>1 DEF Unlink, BundleInv, LoopOK
    <3>3. pc'[p] = ret[p] \/ (ret[p] = "acquire" /\ pc'[p] = "denied") \/ (ret[p] = "compat" /\ pc'[p] = "undo")
      BY <2>1 DEF LoopExhausted
    <3>4. Kept(p) /\ ret[p] = "release" => Kept(p)'
      BY <1>1, <2>1, <3>2 DEF LoopOf, Kept, Owns, Path, BundleInv, RecordInv, IInv,
           TypeOK, PendingOK
    <3>. QED BY <2>1, <3>1, <3>2, <3>3, <3>4 DEF LeftOf, Stage, HolderStages
  <2>. QED BY <2>2, <2>3
<1>2. ASSUME NEW p \in Proc,
             (\E x \in Path : Judge(p, x)) \/ FreezeTargets(p) \/
             CreateCanonical(p) \/ WriteCanonical(p) \/ CanonicalBusy(p)
      PROVE  (\A q \in Proc, j \in Compat : LeftOf(q, j))'
  BY <1>2, SMTT(30) DEF Judge, MayJudge, FreezeTargets, CreateCanonical,
        WriteCanonical, CanonicalBusy, BundleInv, LoopOK, LoopOf, AdoptOf, LeftOf,
        ParentOK, Gone, RecordOf, HolderOwns, HolderStages, Kept, Owns, RecordInv,
        IInv, TypeOK, PendingOK, TokenOK, Stage, Become, lvars, Path, NoFile,
        Empty, Record
<1>3. ASSUME NEW p \in Proc,
             CompatComplete(p) \/ UndoCanonical(p) \/ GiveUp(p) \/ Retry(p) \/
             WriteCompat(p)
      PROVE  (\A q \in Proc, j \in Compat : LeftOf(q, j))'
  BY <1>3, SMTT(30) DEF CompatComplete, UndoCanonical, RemoveIf, GiveUp,
        Retry, Forget, WriteCompat, BundleInv, LoopOK, LoopOf, AdoptOf, LeftOf,
        ParentOK, Gone, RecordOf, HolderOwns, HolderStages, Kept, Owns, RecordInv,
        IInv, TypeOK, PendingOK, TokenOK, Stage, Become, lvars, Path, NoFile,
        Empty, Record
<1>4. ASSUME NEW p \in Proc,
             (\E k \in Compat : CreateCompat(p, k)) \/
             (\E k \in Compat : CompatBusy(p, k)) \/
             (\E k \in Compat : UndoCompat(p, k)) \/
             (\E c \in Proc \ {p} : Spawn(p, c)) \/ AdoptBegin(p)
      PROVE  (\A q \in Proc, j \in Compat : LeftOf(q, j))'
  BY <1>4, SMTT(30) DEF CreateCompat, CompatBusy, UndoCompat, RemoveIf, Spawn,
        AdoptBegin, Reserved, BundleInv, LoopOK, LoopOf, AdoptOf, LeftOf, ParentOK,
        Gone, RecordOf, HolderOwns, HolderStages, Kept, Owns, RecordInv, IInv,
        TypeOK, PendingOK, TokenOK, Stage, Become, lvars, Path, NoFile, Empty,
        Record
<1>5. ASSUME NEW p \in Proc,
             AdoptSwap(p) \/ HandoffSeen(p) \/ (\E x \in Path : AdoptCheck(p, x))
             \/ RefreshCompat(p) \/ RefreshCanonical(p)
      PROVE  (\A q \in Proc, j \in Compat : LeftOf(q, j))'
  BY <1>5, SMTT(30) DEF AdoptSwap, Robbed, Alive, HandoffSeen, AdoptCheck,
        RefreshCompat, RefreshCanonical, BundleInv, LoopOK, LoopOf, AdoptOf,
        LeftOf, ParentOK, Gone, RecordOf, HolderOwns, HolderStages, Kept,
        Owns, RecordInv, IInv, TypeOK, PendingOK, TokenOK, Stage, Become, lvars,
        Path, NoFile, Empty, Record
<1>6. ASSUME NEW p \in Proc, ReleaseMigrationLock(p)
      PROVE  (\A q \in Proc, j \in Compat : LeftOf(q, j))'
  <2>1. at[p] \in Compat /\ pc[p] = "unmigrate" /\ Stage(p)' = "release" /\ Kept(p) /\ Kept(p)'
    BY <1>6 DEF ReleaseMigrationLock, RemoveIf, Become, Stage, HolderOwns,
         HolderStages, Kept, Owns, lvars, BundleInv, RecordInv, IInv, TypeOK,
         PendingOK
  <2>2. \A q \in Proc, j \in Compat : LeftOf(q, j)
    BY DEF BundleInv
  <2>3. ASSUME NEW q \in Proc \ {p}, NEW j \in Compat PROVE LeftOf(q, j)'
    BY <1>6, <2>2 DEF ReleaseMigrationLock, RemoveIf, Become, lvars, LeftOf, Stage,
         Kept, Owns, BundleInv, RecordInv, IInv, TypeOK, PendingOK
  <2>4. ASSUME NEW j \in Compat PROVE LeftOf(p, j)'
    <3>0. file[j] \in LockRecord
      BY DEF BundleInv, RecordInv, IInv, TypeOK, PendingOK, Path
    <3>1. file[j].pid = p /\ file[j].tok = "migration" => file[at[p]] = Record(p, "migration", {}) /\ at[p] = j
      <4>1. SUFFICES ASSUME file[j].pid = p, file[j].tok = "migration"
                     PROVE  file[at[p]] = Record(p, "migration", {}) /\ at[p] = j
        OBVIOUS
      <4>2. at[p] = j /\ file[j].targets = {}
        BY <2>1, <2>2, <4>1 DEF LeftOf
      <4>. QED BY <3>0, <4>1, <4>2 DEF LockRecord, Record
    <3>. QED BY <1>6, <2>1, <2>2, <3>1 DEF ReleaseMigrationLock, RemoveIf, Become,
         lvars, LeftOf, Stage, HolderStages, BundleInv, RecordInv, IInv, TypeOK,
         PendingOK
  <2>. QED BY <2>3, <2>4
<1>7. ASSUME NEW p \in Proc,
             EndMutation(p) \/ FinishWork(p) \/ HeartbeatAborts(p) \/
             BeginAlias(p) \/ DeferAlias(p) \/ AliasFails(p) \/
             CheckBeforeAlias(p) \/ MakeAlias(p) \/
             (\E k \in Compat : TakeMigrationLock(p, k))
      PROVE  (\A q \in Proc, j \in Compat : LeftOf(q, j))'
  BY <1>7, SMTT(30) DEF EndMutation, FinishWork, HeartbeatAborts, BeginAlias,
        DeferAlias, AliasFails, CheckBeforeAlias, MakeAlias,
        TakeMigrationLock, BundleInv, LoopOK, LoopOf, AdoptOf, LeftOf, ParentOK,
        Gone, RecordOf, HolderOwns, HolderStages, Kept, Owns, RecordInv, IInv,
        TypeOK, PendingOK, TokenOK, Stage, Become, lvars, Path, NoFile, Empty,
        Record
<1>8. ASSUME NEW p \in Proc,
             ReleaseCanonical(p) \/ ReleaseComplete(p) \/
             (\E k \in Compat : ReleaseCompat(p, k)) \/ WriteCanonicalFails(p) \/
             WriteCompatFails(p) \/ AdoptFails(p) \/ SpawnFails(p)
      PROVE  (\A q \in Proc, j \in Compat : LeftOf(q, j))'
  BY <1>8, SMTT(30) DEF ReleaseCanonical, RemoveIf, ReleaseComplete,
        ReleaseCompat, WriteCanonicalFails, WriteCompatFails, AdoptFails,
        SpawnFails, BundleInv, LoopOK, LoopOf, AdoptOf, LeftOf, ParentOK, Gone,
        RecordOf, HolderOwns, HolderStages, Kept, Owns, RecordInv, IInv, TypeOK,
        PendingOK, TokenOK, Stage, Become, lvars, Path, NoFile, Empty, Record
<1>9. ASSUME NEW x \in Path, Age(x)
      PROVE  (\A q \in Proc, j \in Compat : LeftOf(q, j))'
  BY <1>9, SMTT(30) DEF Age, pvars, dvars, BundleInv, LoopOK, LoopOf, AdoptOf,
        LeftOf, ParentOK, Gone, RecordOf, HolderOwns, HolderStages, Kept,
        Owns, RecordInv, IInv, TypeOK, PendingOK, TokenOK, Stage, Become, lvars,
        Path, NoFile, Empty, Record
<1>10. ASSUME NEW d \in Desktop, DesktopLeave(d)
      PROVE  (\A q \in Proc, j \in Compat : LeftOf(q, j))'
  BY <1>10, SMTT(30) DEF DesktopLeave, Forget, pvars, BundleInv, LoopOK, LoopOf,
        AdoptOf, LeftOf, ParentOK, Gone, RecordOf, HolderOwns, HolderStages,
        Kept, Owns, RecordInv, IInv, TypeOK, PendingOK, TokenOK, Stage, Become,
        lvars, Path, NoFile, Empty, Record
<1>11. ASSUME NEW d \in Desktop, DesktopCrash(d)
      PROVE  (\A q \in Proc, j \in Compat : LeftOf(q, j))'
  BY <1>11, SMTT(30) DEF DesktopCrash, pvars, Crashed, BundleInv, LoopOK, LoopOf,
        AdoptOf, LeftOf, ParentOK, Gone, RecordOf, HolderOwns, HolderStages,
        Kept, Owns, RecordInv, IInv, TypeOK, PendingOK, TokenOK, Stage, Become,
        lvars, Path, NoFile, Empty, Record
<1>12. ASSUME NEW d \in Desktop, NEW k \in Compat, DesktopEnter(d, k)
      PROVE  (\A q \in Proc, j \in Compat : LeftOf(q, j))'
  BY <1>12, SMTT(30) DEF DesktopEnter, pvars, BundleInv, LoopOK, LoopOf, AdoptOf,
        LeftOf, ParentOK, Gone, RecordOf, HolderOwns, HolderStages, Kept,
        Owns, RecordInv, IInv, TypeOK, PendingOK, TokenOK, Stage, Become, lvars,
        Path, NoFile, Empty, Record
<1>13. ASSUME NEW p \in Proc,
             HandoffFails(p) \/ Launch(p) \/ Exit(p) \/ Crash(p)
      PROVE  (\A q \in Proc, j \in Compat : LeftOf(q, j))'
  BY <1>13, SMTT(30) DEF HandoffFails, Alive, Launch, Exit, Crash, Crashed,
        BundleInv, LoopOK, LoopOf, AdoptOf, LeftOf, ParentOK, Gone, RecordOf,
        HolderOwns, HolderStages, Kept, Owns, RecordInv, IInv, TypeOK, PendingOK,
        TokenOK, Stage, Become, lvars, Path, NoFile, Empty, Record
<1>. QED
  BY <1>1, <1>2, <1>3, <1>4, <1>5, <1>6, <1>7, <1>8, <1>9, <1>10, <1>11,
     <1>12, <1>13
  DEF Next, Step, Failure, Environment, Sweep, Acquire, Handoff, Work, Release

(* The bundle invariant holds in every reachable state.                     *)
THEOREM BundleInvariance == Spec => []BundleInv
<1>1. Init => BundleInv
  <2>1. SUFFICES ASSUME Init PROVE BundleInv
    OBVIOUS
  <2>2. FrozenOK /\ LoopOK
    BY <2>1 DEF Init, FrozenOK, LoopOK, LoopOf, Stage, NoFile
  <2>3. \A p \in Proc : BundleOf(p) /\ AdoptOf(p)
    BY <2>1 DEF Init, BundleOf, InBundle, AdoptOf, Stage
  <2>4. \A d \in Desktop : DesktopOf(d) /\ PrivateOf(d)
    BY <2>1 DEF Init, DesktopOf, PrivateOf
  <2>5. \A p \in Proc, k \in Compat : LeftOf(p, k)
    BY <2>1, NamesDistinct DEF Init, LeftOf, Stage, NoFile, Path
  <2>. QED BY <2>1, <2>2, <2>3, <2>4, <2>5, InitRecordInv DEF BundleInv
<1>2. BundleInv /\ [Next]_vars => BundleInv'
  <2>1. SUFFICES ASSUME BundleInv, [Next]_vars PROVE BundleInv'
    OBVIOUS
  <2>2. RecordInv'
    BY <2>1, StepRecordInv DEF BundleInv
  <2>3. CASE Next
    <3>1. FrozenOK' /\ LoopOK'
      BY <2>1, <2>3, FrozenNext, LoopNext
    <3>2. (\A q \in Proc : BundleOf(q))' /\ (\A q \in Proc : AdoptOf(q))'
      BY <2>1, <2>3, BundleNext, AdoptNext
    <3>3. (\A e \in Desktop : DesktopOf(e))' /\ (\A e \in Desktop : PrivateOf(e))'
      BY <2>1, <2>3, DesktopNext, PrivateNext
    <3>4. (\A q \in Proc, j \in Compat : LeftOf(q, j))'
      BY <2>1, <2>3, LeftNext
    <3>. QED BY <2>2, <3>1, <3>2, <3>3, <3>4 DEF BundleInv
  <2>4. CASE UNCHANGED vars
    <3>1. FrozenOK' /\ LoopOK'
      BY <2>1, <2>4 DEF vars, lvars, pvars, BundleInv, FrozenOK, LoopOK, LoopOf, Stage
    <3>2. (\A q \in Proc : BundleOf(q))'
      BY <2>1, <2>4 DEF vars, lvars, pvars, BundleInv, BundleOf, InBundle, Held, Owns, Stage
    <3>5. (\A q \in Proc : AdoptOf(q))'
      BY <2>1, <2>4 DEF vars, lvars, pvars, BundleInv, AdoptOf
    <3>3. (\A e \in Desktop : DesktopOf(e))' /\ (\A e \in Desktop : PrivateOf(e))'
      BY <2>1, <2>4 DEF vars, lvars, pvars, dvars, BundleInv, DesktopOf, PrivateOf, Stage
    <3>4. (\A q \in Proc, j \in Compat : LeftOf(q, j))'
      BY <2>1, <2>4 DEF vars, lvars, pvars, BundleInv, LeftOf, Kept, Owns, Stage
    <3>. QED BY <2>2, <3>1, <3>2, <3>3, <3>4, <3>5 DEF BundleInv
  <2>. QED BY <2>1, <2>3, <2>4
<1>. QED BY <1>1, <1>2, PTL DEF Spec

----------------------------------------------------------------------------
(* "adopted=True there guarantees the whole frozen bundle was already       *)
(* transferred": a child that owns the canonical record has every legacy    *)
(* lock its parent froze, or was robbed of it since.                        *)
THEOREM HandoffTransfersBundle == Spec => []HandoffIsComplete
<1>1. BundleInv => HandoffIsComplete
  BY DEF BundleInv, BundleOf, InBundle, Held, HandoffIsComplete, Stage, RecordInv, IInv,
       TypeOK
<1>. QED BY <1>1, BundleInvariance, PTL

(* A live launcher is robbed of the canonical lock only after a kill or a   *)
(* half-written lock gone stale, and serves with no readable lock of its    *)
(* own left on disk (_remove_abandoned_lock, _release_provision_lock).      *)
THEOREM LocksHonoured == Spec => []LocksAreHonoured
<1>1. FaultInv => RobberyNeedsAFault
  BY DEF FaultInv, FaultOf, Faulty, RobberyNeedsAFault
<1>2. BundleInv => NothingLeftBehind
  <2>1. SUFFICES ASSUME BundleInv, NEW p \in Proc, NEW x \in Path,
                        pc[p] = "done", tok[p] = p, file[x].pid = p,
                        file[x].tok # "unwritten"
                 PROVE  <<p, Canonical>> \in stolen
    BY DEF NothingLeftBehind
  <2>2. x # Canonical
    BY <2>1 DEF BundleInv, RecordInv, RecordOf, Stage, Over
  <2>3. LeftOf(p, x)
    BY <2>1, <2>2 DEF BundleInv, Path
  <2>. QED BY <2>1, <2>3 DEF LeftOf, Stage
<1>. QED BY <1>1, <1>2, FaultInvariance, BundleInvariance, PTL DEF LocksAreHonoured

(* No lock that stands between an older Desktop and the plugins lets them   *)
(* into one venv unless it was robbed: neither those that a provisioner     *)
(* listed nor the one of an alias about to be made                          *)
(* (_acquire_desktop_compat_locks, _ensure_plugin_data_venv_alias).         *)
(* Aliases made after the list was frozen have no lock on it: nothing is    *)
(* said of them.                                                            *)
THEOREM ListedLocksKeepApart == Spec => []LocksKeepDesktopApart
<1>1. BundleInv => ListKeepsDesktopOut
  <2>1. SUFFICES ASSUME BundleInv, NEW p \in Proc, NEW d \in Desktop,
                        Mutating(p), dpc[d] = "shared", dat[d] \in frozen[p]
                 PROVE  {<<p, dat[d]>>, <<d, dat[d]>>} \cap stolen # {}
    BY DEF ListKeepsDesktopOut
  <2>2. file[dat[d]].pid = d \/ <<d, dat[d]>> \in stolen
    BY <2>1 DEF BundleInv, DesktopOf
  <2>3. dat[d] \in Compat /\ InBundle(p, dat[d])
    BY <2>1 DEF BundleInv, DesktopOf, InBundle, Mutating, Stage
  <2>4. file[dat[d]].pid = p \/ <<p, dat[d]>> \in stolen
    BY <2>1, <2>3 DEF BundleInv, BundleOf, Held, Owns
  <2>5. p # d
    BY NamesDistinct
  <2>. QED BY <2>2, <2>4, <2>5
<1>2. BundleInv => PrivateVenvIdle
  BY DEF BundleInv, PrivateOf, PrivateVenvIdle
<1>. QED BY <1>1, <1>2, BundleInvariance, PTL DEF LocksKeepDesktopApart

=============================================================================
