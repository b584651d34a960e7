---------------------------- MODULE CaptureQueue ----------------------------
(***************************************************************************)
(* Decision Memory's way of a commit into the graph (claude/scripts/       *)
(* code-capture-hook.py, code_ingest_worker.py, code_capture_pending.py).  *)
(*                                                                         *)
(* A hook spawns a detached worker after a git commit and at session end.  *)
(* With a language model the worker mines the newest commits; without one  *)
(* it appends HEAD to a queue file that an agent drains later.  The lock   *)
(* file and the queue file are plain files: the check and the write of the *)
(* lock, and the read, the truncation and the write of the queue, are      *)
(* separate steps of separate processes.                                   *)
(*                                                                         *)
(* Commits are numbered in the order they are made.                        *)
(***************************************************************************)
EXTENDS Integers, Sequences, FiniteSets

CONSTANTS
    Worker,      \* ingest workers, each slot reused when its process ended
    Agent,       \* sessions whose agent drains the queue
    MaxCommit,   \* bound: how many commits are made
    Cap,         \* _MAX_QUEUE
    Newest,      \* MAX_COMMITS
    MaxKill,     \* bound: how many processes are killed
    Failures,    \* may system calls, the CE bootstrap and mining fail
    Modes        \* what a worker may find: "mine" a model, "head" none (keyless)

ASSUME WritersDistinct == Worker \cap Agent = {}
ASSUME BoundsOK == MaxCommit \in Nat /\ Cap \in Nat \ {0} /\ Newest \in Nat /\ MaxKill \in Nat
                   /\ Failures \in BOOLEAN /\ Modes \subseteq {"mine", "head"}

VARIABLES
    head,       \* HEAD of the repository, 0 before the first commit
    lock,       \* code-ingest.lock: "none", "fresh", or "stale" (> LOCK_STALE_S)
    queue,      \* pending-code-captures.jsonl
    overflow,   \* pending-code-captures.overflow.jsonl
    captured,   \* the commits whose decisions are in the graph
    pc,         \* where each process is
    commit,     \* the commit each process works for
    keep,       \* the entries it is about to write
    owed,       \* history: the commits whose enqueue returned
    mishap,     \* history: did two updates overlap, one tear, or a spill fail
    kills       \* number of killed processes

Writer == Worker \cup Agent
Commit == 1..MaxCommit

files == <<lock, queue, overflow>>
locals == <<pc, commit, keep>>
ghosts == <<owed, mishap>>
vars == <<head, captured, files, locals, ghosts, kills>>

PC == {"idle", "start", "claim", "work", "mine", "head", "read", "spill",
       "truncate", "fill", "unlock", "captured"}

Elements(s) == {s[i] : i \in DOMAIN s}

Queue(max) == UNION {[1..n -> Commit] : n \in 0..max}

TypeOK ==
    /\ head \in 0..MaxCommit
    /\ lock \in {"none", "fresh", "stale"}
    /\ queue \in Queue(Cap)
    /\ overflow \subseteq Commit
    /\ captured \subseteq Commit
    /\ pc \in [Writer -> PC]
    /\ commit \in [Writer -> 0..MaxCommit]
    /\ keep \in [Writer -> Queue(Cap + 1)]
    /\ owed \subseteq Commit
    /\ mishap \in BOOLEAN
    /\ kills \in 0..MaxKill

Init ==
    /\ head = 0
    /\ lock = "none"
    /\ queue = <<>>
    /\ overflow = {}
    /\ captured = {}
    /\ pc = [w \in Writer |-> "idle"]
    /\ commit = [w \in Writer |-> 0]
    /\ keep = [w \in Writer |-> <<>>]
    /\ owed = {}
    /\ mishap = FALSE
    /\ kills = 0

Become(w, s) == pc' = [pc EXCEPT ![w] = s]

(* The process is gone, with what it remembered.                            *)
End(w) ==
    /\ Become(w, "idle")
    /\ commit' = [commit EXCEPT ![w] = 0]
    /\ keep' = [keep EXCEPT ![w] = <<>>]

----------------------------------------------------------------------------
(* The hooks (code-capture-hook.py)                                         *)

(* A git commit in the agent's shell; the worker starts some time after it. *)
PostToolUse(w) ==
    /\ pc[w] = "idle"
    /\ head < MaxCommit
    /\ head' = head + 1
    /\ Become(w, "start")
    /\ UNCHANGED <<captured, files, commit, keep, ghosts, kills>>

SessionEnd(w) ==
    /\ pc[w] = "idle"
    /\ Become(w, "start")
    /\ UNCHANGED <<head, captured, files, commit, keep, ghosts, kills>>

----------------------------------------------------------------------------
(* The worker's lock (code_ingest_worker.main)                              *)

SkipBusy(w) ==
    /\ pc[w] = "start"
    /\ lock = "fresh"
    /\ End(w)
    /\ UNCHANGED <<head, captured, files, ghosts, kills>>

SeeFree(w) ==
    /\ pc[w] = "start"
    /\ lock # "fresh"
    /\ Become(w, "claim")
    /\ UNCHANGED <<head, captured, files, commit, keep, ghosts, kills>>

WriteLock(w) ==
    /\ pc[w] = "claim"
    /\ lock' = "fresh"
    /\ Become(w, "work")
    /\ UNCHANGED <<head, captured, queue, overflow, commit, keep, ghosts, kills>>

(* The lock is best-effort: without it the worker goes on all the same.     *)
WriteLockFails(w) ==
    /\ Failures
    /\ pc[w] = "claim"
    /\ Become(w, "work")
    /\ UNCHANGED <<head, captured, files, commit, keep, ghosts, kills>>

(* The finally clause removes whatever lock is there.                       *)
Unlock(w) ==
    /\ pc[w] = "unlock"
    /\ lock' = "none"
    /\ End(w)
    /\ UNCHANGED <<head, captured, queue, overflow, ghosts, kills>>

(* Whether a model is configured is only known here.                        *)
Branch(w) ==
    /\ pc[w] = "work"
    /\ \E s \in Modes : Become(w, s)
    /\ UNCHANGED <<head, captured, files, commit, keep, ghosts, kills>>

(* kumiho_memory code-ingest, incremental: the newest commits.              *)
Mine(w) ==
    /\ pc[w] = "mine"
    /\ captured' = captured \cup {c \in Commit : head - Newest < c /\ c <= head}
    /\ Become(w, "unlock")
    /\ UNCHANGED <<head, files, commit, keep, ghosts, kills>>

(* No CE endpoint, no runtime, a timeout, an error: logged, never raised.   *)
WorkFails(w) ==
    /\ Failures
    /\ pc[w] \in {"work", "mine"}
    /\ Become(w, "unlock")
    /\ UNCHANGED <<head, captured, files, commit, keep, ghosts, kills>>

----------------------------------------------------------------------------
(* code_capture_pending.enqueue                                             *)

ReadHead(w) ==
    /\ pc[w] = "head"
    /\ commit' = [commit EXCEPT ![w] = head]
    /\ Become(w, IF head = 0 THEN "unlock" ELSE "read")
    /\ UNCHANGED <<head, captured, files, keep, ghosts, kills>>

(* Between its read of the queue file and the end of its write.             *)
Updating(w) == pc[w] \in {"spill", "truncate", "fill"}

NoteOverlap(w) == mishap' = (mishap \/ \E v \in Writer \ {w} : Updating(v))

(* _apply_cap                                                               *)
NewerOffByOne(s) == IF Len(s) <= Cap + 1 THEN s ELSE SubSeq(s, Len(s) - Cap, Len(s))
Newer(s) == IF Len(s) <= Cap THEN s ELSE SubSeq(s, Len(s) - Cap + 1, Len(s))
Spilled(s) == {s[i] : i \in 1..(Len(s) - Cap)}

(* The entry is appended in memory; more than Cap entries spill first.      *)
ReadQueue(w) ==
    /\ pc[w] = "read"
    /\ commit[w] \notin Elements(queue)
    /\ keep' = [keep EXCEPT ![w] = Append(queue, commit[w])]
    /\ Become(w, IF Len(queue) + 1 > Cap THEN "spill" ELSE "truncate")
    /\ NoteOverlap(w)
    /\ UNCHANGED <<head, captured, files, commit, owed, kills>>

AlreadyQueued(w) ==
    /\ pc[w] = "read"
    /\ commit[w] \in Elements(queue)
    /\ owed' = owed \cup {commit[w]}
    /\ Become(w, "unlock")
    /\ UNCHANGED <<head, captured, files, commit, keep, mishap, kills>>

(* mutant: evicted entries are discarded (entries[-_MAX_QUEUE:])             *)
SpillNothing(w) ==
    /\ pc[w] = "spill"
    /\ keep' = [keep EXCEPT ![w] = Newer(@)]
    /\ Become(w, "truncate")
    /\ UNCHANGED <<head, captured, files, commit, ghosts, kills>>

(* _append_overflow, before the queue is rewritten.                         *)
Spill(w) ==
    /\ pc[w] = "spill"
    /\ overflow' = overflow \cup Spilled(keep[w])
    /\ keep' = [keep EXCEPT ![w] = Newer(@)]
    /\ Become(w, "truncate")
    /\ UNCHANGED <<head, captured, lock, queue, commit, ghosts, kills>>

(* A failed spill is logged, and the eviction goes on.                      *)
SpillFails(w) ==
    /\ Failures
    /\ pc[w] = "spill"
    /\ mishap' = TRUE
    /\ keep' = [keep EXCEPT ![w] = Newer(@)]
    /\ Become(w, "truncate")
    /\ UNCHANGED <<head, captured, files, commit, owed, kills>>

(* _write: write_text truncates the file, then writes it.                   *)
Truncate(w) ==
    /\ pc[w] = "truncate"
    /\ queue' = <<>>
    /\ Become(w, "fill")
    /\ UNCHANGED <<head, captured, lock, overflow, commit, keep, ghosts, kills>>

Fill(w) ==
    /\ pc[w] = "fill"
    /\ queue' = keep[w]
    /\ owed' = IF w \in Worker THEN owed \cup {commit[w]} ELSE owed
    /\ IF w \in Worker
       THEN Become(w, "unlock") /\ UNCHANGED <<commit, keep>>
       ELSE End(w)
    /\ UNCHANGED <<head, captured, lock, overflow, mishap, kills>>

(* A write that raises: the worker logs it, the agent sees a traceback.     *)
WriteFails(w) ==
    /\ Failures
    /\ pc[w] \in {"truncate", "fill"}
    /\ mishap' = (mishap \/ pc[w] = "fill")
    /\ IF w \in Worker
       THEN Become(w, "unlock") /\ UNCHANGED <<commit, keep>>
       ELSE End(w)
    /\ UNCHANGED <<head, captured, files, owed, kills>>

----------------------------------------------------------------------------
(* The agent: list, kumiho_code_capture, code_capture_pending.done          *)

Capture(a) ==
    /\ pc[a] = "idle"
    /\ \E c \in Elements(queue) :
          /\ commit' = [commit EXCEPT ![a] = c]
          /\ captured' = captured \cup {c}
    /\ Become(a, "captured")
    /\ UNCHANGED <<head, files, keep, ghosts, kills>>

Matched(a) == {i \in DOMAIN queue : queue[i] = commit[a]}

(* The one entry of the commit goes, the others stay.                       *)
DoneRead(a) ==
    /\ pc[a] = "captured"
    /\ \E i \in Matched(a) :
          /\ Matched(a) = {i}
          /\ keep' = [keep EXCEPT ![a] = SubSeq(queue, 1, i - 1)
                                         \o SubSeq(queue, i + 1, Len(queue))]
    /\ Become(a, "truncate")
    /\ NoteOverlap(a)
    /\ UNCHANGED <<head, captured, files, commit, owed, kills>>

(* Not found, or ambiguous: nothing is written.                             *)
DoneNotFound(a) ==
    /\ pc[a] = "captured"
    /\ \A i \in DOMAIN queue : Matched(a) # {i}
    /\ End(a)
    /\ UNCHANGED <<head, captured, files, ghosts, kills>>

----------------------------------------------------------------------------
(* The environment                                                          *)

LockAges ==
    /\ lock = "fresh"
    /\ lock' = "stale"
    /\ UNCHANGED <<head, captured, queue, overflow, locals, ghosts, kills>>

(* A killed worker leaves its lock; one killed in _write an empty queue.    *)
Kill(w) ==
    /\ pc[w] # "idle"
    /\ kills < MaxKill
    /\ kills' = kills + 1
    /\ mishap' = (mishap \/ pc[w] = "fill")
    /\ End(w)
    /\ UNCHANGED <<head, captured, files, owed>>

Ingest(w) ==
    \/ PostToolUse(w) \/ SessionEnd(w)
    \/ SkipBusy(w) \/ SeeFree(w) \/ WriteLock(w) \/ WriteLockFails(w)
    \/ Unlock(w) \/ Branch(w) \/ Mine(w) \/ WorkFails(w)
    \/ ReadHead(w) \/ ReadQueue(w) \/ AlreadyQueued(w)
    \/ Spill(w) \/ SpillFails(w)

Drain(a) == Capture(a) \/ DoneRead(a) \/ DoneNotFound(a)

Next ==
    \/ \E w \in Worker : Ingest(w)
    \/ \E a \in Agent : Drain(a)
    \/ \E w \in Writer : Truncate(w) \/ Fill(w) \/ WriteFails(w) \/ Kill(w)
    \/ LockAges

Spec == Init /\ [][Next]_vars

----------------------------------------------------------------------------
(* Properties                                                               *)

(* "append a commit to the queue, deduped", and bounded: whatever processes *)
(* overlap, no commit stands in the file twice.                             *)
QueueIsDeduped ==
    \A i, j \in DOMAIN queue : queue[i] = queue[j] => i = j

(* "nothing should be destroyed to keep it so" (_append_overflow): a commit *)
(* once queued is queued, spilled or captured, or about to be written back, *)
(* except when two updates of the file overlapped, one was killed between   *)
(* truncation and write, or a spill failed.                                 *)
QueuedIsKept ==
    ~mishap =>
        owed \subseteq Elements(queue) \cup overflow \cup captured
                       \cup UNION {Elements(keep[w]) : w \in {v \in Writer : pc[v] = "fill"}}

(* The queue holds a commit once and loses none.                            *)
QueueIsSound == QueueIsDeduped /\ QueuedIsKept

=============================================================================
