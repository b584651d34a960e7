------------------------- MODULE CaptureQueueProofs -------------------------
(***************************************************************************)
(* What the queue of commits guarantees for any number of workers, agents, *)
(* commits and kills, and for every size of the queue: no commit stands in *)
(* it twice, and none is lost as long as no two updates overlap, none is   *)
(* cut between truncation and write, and no spill fails.                   *)
(***************************************************************************)
EXTENDS CaptureQueue, SequenceTheorems, TLAPS

Deduped(s) == \A i, j \in DOMAIN s : s[i] = s[j] => i = j

(* What a process is about to write holds a commit once, fits the queue,    *)
(* and ends with the commit that a worker appends.                          *)
KeepOK ==
    \A w \in Writer :
        /\ Updating(w) => Deduped(keep[w])
        /\ pc[w] \in {"truncate", "fill"} => keep[w] \in Queue(Cap)
        /\ Updating(w) /\ w \in Worker =>
               /\ keep[w] # <<>>
               /\ keep[w][Len(keep[w])] = commit[w]

(* Who has a commit to queue has one, and what an agent ticks off is in the *)
(* graph.                                                                   *)
CommitOK ==
    \A w \in Writer :
        /\ pc[w] = "read" => commit[w] \in Commit
        /\ pc[w] = "captured" => commit[w] \in captured

(* No two updates overlap.                                                  *)
OneUpdater ==
    ~mishap => \A v, w \in Writer : Updating(v) /\ Updating(w) => v = w

(* Who is about to rewrite the queue forgets nothing that is in it ...      *)
NothingForgotten ==
    ~mishap =>
        \A w \in Writer : pc[w] \in {"spill", "truncate"} =>
            Elements(queue) \subseteq Elements(keep[w]) \cup overflow \cup captured

(* ... and finds it empty when it fills it.                                 *)
Emptied == ~mishap => \A w \in Writer : pc[w] = "fill" => queue = <<>>

IInv ==
    /\ TypeOK /\ KeepOK /\ CommitOK /\ OneUpdater /\ NothingForgotten /\ Emptied
    /\ QueueIsDeduped /\ QueuedIsKept

----------------------------------------------------------------------------
(* A queue is a sequence of bounded length.                                 *)
LEMMA QueueIsSeq ==
    ASSUME NEW max \in Nat, NEW s
    PROVE  s \in Queue(max) <=> s \in Seq(Commit) /\ Len(s) <= max
<1>1. ASSUME s \in Queue(max) PROVE s \in Seq(Commit) /\ Len(s) <= max
  <2>1. PICK n \in 0..max : s \in [1..n -> Commit]
    BY <1>1 DEF Queue
  <2> QED
    BY <2>1
<1>2. ASSUME s \in Seq(Commit), Len(s) <= max PROVE s \in Queue(max)
  <2>1. Len(s) \in 0..max /\ s \in [1..Len(s) -> Commit]
    BY <1>2
  <2> QED
    BY <2>1 DEF Queue
<1> QED
  BY <1>1, <1>2

(* The entries of a sequence, by their places.                              *)
LEMMA ElementsAre ==
    ASSUME NEW s \in Seq(Commit)
    PROVE  \A x : x \in Elements(s) <=> \E i \in 1..Len(s) : s[i] = x
BY DEF Elements

(* An entry that is appended is one entry more.                             *)
LEMMA Appended ==
    ASSUME NEW s \in Seq(Commit), NEW c \in Commit
    PROVE  /\ Append(s, c) \in Seq(Commit) /\ Len(Append(s, c)) = Len(s) + 1
           /\ Append(s, c)[Len(Append(s, c))] = c
           /\ Elements(Append(s, c)) = Elements(s) \cup {c}
           /\ Deduped(s) /\ c \notin Elements(s) => Deduped(Append(s, c))
BY SMTT(30) DEF Elements, Deduped

(* The last entries of a sequence: with the others, they are all of it.     *)
LEMMA Suffix ==
    ASSUME NEW s \in Seq(Commit), NEW m \in Nat, m <= Len(s),
           NEW t \in Seq(Commit), Len(t) = Len(s) - m,
           \A i \in 1..Len(t) : t[i] = s[m + i]
    PROVE  /\ \A x : x \in Elements(s) <=> x \in Elements(t) \/ \E i \in 1..m : s[i] = x
           /\ Deduped(s) => Deduped(t)
           /\ m < Len(s) => t # <<>> /\ t[Len(t)] = s[Len(s)]
<1>1. \A i \in 1..Len(t) : m + i \in 1..Len(s)
  OBVIOUS
<1>2. \A i \in 1..Len(s) : i \in 1..m \/ (i - m \in 1..Len(t) /\ s[i] = t[i - m])
  <2> TAKE i \in 1..Len(s)
  <2>1. CASE i <= m
    BY <2>1
  <2>2. CASE i > m
    <3>1. i - m \in 1..Len(t)
      BY <2>2
    <3>2. m + (i - m) = i
      OBVIOUS
    <3> QED
      BY <3>1, <3>2
  <2> QED
    BY <2>1, <2>2
<1>3. \A x : x \in Elements(s) => x \in Elements(t) \/ \E i \in 1..m : s[i] = x
  BY <1>2, ElementsAre
<1>4. \A x : x \in Elements(t) \/ (\E i \in 1..m : s[i] = x) => x \in Elements(s)
  <2>1. \A i \in 1..Len(t) : t[i] \in Elements(s)
    BY <1>1, ElementsAre
  <2>2. \A i \in 1..m : s[i] \in Elements(s)
    BY ElementsAre
  <2> QED
    <3> TAKE x
    <3>1. ASSUME x \in Elements(t) PROVE x \in Elements(s)
      BY <2>1, <3>1, ElementsAre
    <3> QED
      BY <2>2, <3>1
<1>5. Deduped(s) => Deduped(t)
  <2> SUFFICES ASSUME Deduped(s), NEW i \in 1..Len(t), NEW j \in 1..Len(t), t[i] = t[j]
               PROVE  i = j
    BY DEF Deduped
  <2>1. m + i \in DOMAIN s /\ m + j \in DOMAIN s /\ s[m + i] = s[m + j]
    BY <1>1
  <2>2. m + i = m + j
    BY <2>1 DEF Deduped
  <2> QED
    BY <2>2
<1>6. m < Len(s) => t # <<>> /\ t[Len(t)] = s[Len(s)]
  OBVIOUS
<1> QED
  BY <1>3, <1>4, <1>5, <1>6

(* What is spilled and what stays are all there was; the last entry stays.  *)
LEMMA NewerIs ==
    ASSUME NEW s \in Seq(Commit)
    PROVE  /\ Newer(s) \in Queue(Cap)
           /\ Elements(s) = Elements(Newer(s)) \cup Spilled(s)
           /\ Spilled(s) \subseteq Commit
           /\ Deduped(s) => Deduped(Newer(s))
           /\ s # <<>> => Newer(s) # <<>> /\ Newer(s)[Len(Newer(s))] = s[Len(s)]
<1> USE BoundsOK DEF BoundsOK
<1>1. CASE Len(s) <= Cap
  BY <1>1, QueueIsSeq DEF Newer, Spilled, Elements
<1>2. CASE Len(s) > Cap
  <2> DEFINE m == Len(s) - Cap
             t == Newer(s)
  <2>1. /\ t \in Seq(Commit) /\ Len(t) = Cap
        /\ \A i \in 1..Cap : t[i] = s[m + i]
    BY <1>2, SubSeqProperties DEF Newer
  <2>2. t \in Queue(Cap)
    BY <2>1, QueueIsSeq
  <2>3. m \in Nat /\ m < Len(s) /\ Len(t) = Len(s) - m /\ m = Len(s) - Cap
    BY <1>2, <2>1
  <2>4. \A x : x \in Spilled(s) <=> \E i \in 1..m : s[i] = x
    BY DEF Spilled
  <2> HIDE DEF m, t
  <2>5. \A i \in 1..Len(t) : t[i] = s[m + i]
    BY <2>1
  <2>6. /\ \A x : x \in Elements(s) <=> x \in Elements(t) \/ \E i \in 1..m : s[i] = x
        /\ Deduped(s) => Deduped(t)
        /\ t # <<>> /\ t[Len(t)] = s[Len(s)]
    <3> HIDE BoundsOK
    <3>1. m <= Len(s)
      BY <2>3
    <3>2. /\ \A x : x \in Elements(s) <=> x \in Elements(t) \/ \E i \in 1..m : s[i] = x
          /\ Deduped(s) => Deduped(t)
          /\ m < Len(s) => t # <<>> /\ t[Len(t)] = s[Len(s)]
      BY <2>1, <2>3, <2>5, <3>1, Suffix
    <3> QED
      BY <2>3, <3>2
  <2>7. Elements(s) = Elements(t) \cup Spilled(s)
    BY <2>4, <2>6
  <2>8. Spilled(s) \subseteq Commit
    BY <2>3, <2>4
  <2> QED
    BY <2>2, <2>6, <2>7, <2>8 DEF t
<1> QED
  BY <1>1, <1>2

(* A sequence without its i-th entry, index by index.                       *)
LEMMA WithoutAt ==
    ASSUME NEW s \in Seq(Commit), NEW i \in 1..Len(s), NEW t \in Seq(Commit),
           Len(t) = Len(s) - 1,
           \A j \in 1 .. Len(s) - 1 : t[j] = IF j < i THEN s[j] ELSE s[j + 1]
    PROVE  /\ Elements(s) = Elements(t) \cup {s[i]}
           /\ Deduped(s) => Deduped(t)
<1>1. \A j \in 1..Len(s) : j # i => \E k \in 1..Len(t) : t[k] = s[j]
  <2> TAKE j \in 1..Len(s)
  <2>1. CASE j < i
    BY <2>1
  <2>2. CASE j > i
    <3>1. /\ j - 1 \in 1 .. Len(s) - 1 /\ ~(j - 1 < i) /\ (j - 1) + 1 = j
      BY <2>2
    <3> QED
      BY <3>1
  <2> QED
    BY <2>1, <2>2
<1>2. \A k \in 1..Len(t) : \E j \in 1..Len(s) : t[k] = s[j]
  OBVIOUS
<1>3. Elements(s) \subseteq Elements(t) \cup {s[i]}
  <2> SUFFICES ASSUME NEW j \in 1..Len(s), j # i PROVE s[j] \in Elements(t)
    BY ElementsAre
  <2> QED
    BY <1>1, ElementsAre
<1>4. Elements(t) \cup {s[i]} \subseteq Elements(s)
  BY <1>2, ElementsAre
<1>5. Deduped(s) => Deduped(t)
  <2> SUFFICES ASSUME Deduped(s), NEW j \in 1..Len(t), NEW k \in 1..Len(t), t[j] = t[k]
               PROVE  j = k
    BY DEF Deduped
  <2> DEFINE up(x) == IF x < i THEN x ELSE x + 1
  <2>1. /\ up(j) \in DOMAIN s /\ up(k) \in DOMAIN s
        /\ t[j] = s[up(j)] /\ t[k] = s[up(k)]
    OBVIOUS
  <2>2. up(j) = up(k)
    BY <2>1 DEF Deduped
  <2> QED
    BY <2>2
<1> QED
  BY <1>3, <1>4, <1>5

(* A queue without one of its entries.                                      *)
LEMMA WithoutIs ==
    ASSUME NEW s \in Queue(Cap), NEW i \in DOMAIN s, Deduped(s)
    PROVE  LET t == SubSeq(s, 1, i - 1) \o SubSeq(s, i + 1, Len(s))
           IN  /\ t \in Queue(Cap)
               /\ Deduped(t)
               /\ Elements(s) = Elements(t) \cup {s[i]}
<1> USE BoundsOK DEF BoundsOK
<1> DEFINE u == SubSeq(s, 1, i - 1)
           v == SubSeq(s, i + 1, Len(s))
           t == u \o v
<1>1. s \in Seq(Commit) /\ Len(s) <= Cap /\ i \in 1..Len(s)
  BY QueueIsSeq
<1>2. /\ u \in Seq(Commit) /\ Len(u) = i - 1
      /\ \A j \in 1 .. i - 1 : u[j] = s[j]
  BY <1>1, SubSeqProperties
<1>3. /\ v \in Seq(Commit) /\ Len(v) = Len(s) - i
      /\ \A j \in 1 .. Len(s) - i : v[j] = s[j + i]
  BY <1>1, SubSeqProperties
<1> HIDE DEF u, v
<1>4. /\ t \in Seq(Commit) /\ Len(t) = Len(s) - 1
      /\ \A j \in 1 .. Len(s) - 1 : t[j] = IF j <= Len(u) THEN u[j] ELSE v[j - Len(u)]
  BY <1>1, <1>2, <1>3, ConcatProperties, SMTT(30)
<1> HIDE DEF t
<1>5. \A j \in 1 .. Len(s) - 1 : t[j] = IF j < i THEN s[j] ELSE s[j + 1]
  <2> TAKE j \in 1 .. Len(s) - 1
  <2>1. CASE j < i
    BY <1>1, <1>2, <1>4, <2>1
  <2>2. CASE ~(j < i)
    <3>1. j - Len(u) \in 1 .. Len(s) - i /\ (j - Len(u)) + i = j + 1 /\ ~(j <= Len(u))
      BY <1>1, <1>2, <2>2
    <3> QED
      BY <1>3, <1>4, <2>2, <3>1
  <2> QED
    BY <2>1, <2>2
<1>6. t \in Queue(Cap)
  BY <1>1, <1>4, QueueIsSeq
<1>7. Deduped(t) /\ Elements(s) = Elements(t) \cup {s[i]}
  BY <1>1, <1>4, <1>5, WithoutAt
<1> QED
  BY <1>6, <1>7 DEF t, u, v

----------------------------------------------------------------------------
LEMMA EmptyFits == <<>> \in Queue(Cap) /\ <<>> \in Queue(Cap + 1)
<1>1. Cap \in Nat /\ Cap + 1 \in Nat
  BY BoundsOK DEF BoundsOK
<1>2. \A max \in Nat : <<>> \in Queue(max)
  <2> TAKE max \in Nat
  <2>1. 0 \in 0..max /\ <<>> \in [1..0 -> Commit]
    OBVIOUS
  <2> QED
    BY <2>1 DEF Queue
<1> QED
  BY <1>1, <1>2

LEMMA InitOK == Init => IInv
<1> SUFFICES ASSUME Init PROVE IInv
  OBVIOUS
<1>1. TypeOK
  <2>1. /\ pc \in [Writer -> PC] /\ commit \in [Writer -> 0..MaxCommit]
        /\ keep \in [Writer -> Queue(Cap + 1)] /\ queue \in Queue(Cap)
    BY EmptyFits, BoundsOK DEF Init, PC, BoundsOK
  <2>2. /\ head \in 0..MaxCommit /\ lock \in {"none", "fresh", "stale"}
        /\ kills \in 0..MaxKill
        /\ overflow = {} /\ captured = {} /\ owed = {} /\ mishap = FALSE
    BY BoundsOK DEF Init, BoundsOK
  <2> QED
    BY <2>1, <2>2 DEF TypeOK
<1>2. QueueIsDeduped /\ QueuedIsKept
  BY DEF Init, QueueIsDeduped, QueuedIsKept
<1> QED
  BY <1>1, <1>2
     DEF Init, IInv, KeepOK, CommitOK, OneUpdater, NothingForgotten, Emptied,
         Updating

(* A queue that fits also fits with room for one more.                      *)
LEMMA Room ==
    /\ Queue(Cap) \subseteq Queue(Cap + 1)
    /\ \A s \in Queue(Cap), c \in Commit : Append(s, c) \in Queue(Cap + 1)
    /\ \A s \in Queue(Cap + 1) : Newer(s) \in Queue(Cap) /\ Spilled(s) \subseteq Commit
<1> USE BoundsOK DEF BoundsOK
<1>1. Queue(Cap) \subseteq Queue(Cap + 1)
  <2> SUFFICES ASSUME NEW s \in Queue(Cap) PROVE s \in Queue(Cap + 1)
    OBVIOUS
  <2>1. s \in Seq(Commit) /\ Len(s) <= Cap
    BY QueueIsSeq
  <2> QED
    BY <2>1, QueueIsSeq
<1>2. ASSUME NEW s \in Queue(Cap), NEW c \in Commit PROVE Append(s, c) \in Queue(Cap + 1)
  <2>1. s \in Seq(Commit) /\ Len(s) <= Cap
    BY QueueIsSeq
  <2>2. Append(s, c) \in Seq(Commit) /\ Len(Append(s, c)) <= Cap + 1
    BY <2>1
  <2>3. Cap + 1 \in Nat
    OBVIOUS
  <2> QED
    BY <2>2, <2>3, QueueIsSeq
<1>3. ASSUME NEW s \in Queue(Cap + 1)
      PROVE  Newer(s) \in Queue(Cap) /\ Spilled(s) \subseteq Commit
  <2>1. s \in Seq(Commit)
    BY QueueIsSeq
  <2> QED
    BY <2>1, NewerIs
<1> QED
  BY <1>1, <1>2, <1>3

(* What a queue holds are commits.                                          *)
LEMMA ElementsIn ==
    ASSUME NEW s \in Queue(Cap) PROVE Elements(s) \subseteq Commit
BY DEF Elements, Queue

LEMMA LastIn ==
    ASSUME NEW s \in Queue(Cap), s # <<>> PROVE s[Len(s)] \in Commit
<1>1. s \in Seq(Commit)
  BY QueueIsSeq, BoundsOK DEF BoundsOK
<1> QED
  BY <1>1

(* A process that ends leaves well-typed variables, as does one that goes   *)
(* on elsewhere.                                                            *)
LEMMA Ended ==
    ASSUME TypeOK, NEW w \in Writer, End(w)
    PROVE  /\ pc' \in [Writer -> PC]
           /\ commit' \in [Writer -> 0..MaxCommit]
           /\ keep' \in [Writer -> Queue(Cap + 1)]
BY EmptyFits, BoundsOK DEF End, Become, TypeOK, PC, BoundsOK

LEMMA Became ==
    ASSUME TypeOK, NEW w \in Writer, NEW s \in PC, Become(w, s)
    PROVE  pc' \in [Writer -> PC]
BY DEF Become, TypeOK

(* A step keeps the types.                                                  *)
LEMMA TypeStep ==
    ASSUME TypeOK, KeepOK, CommitOK, QueueIsDeduped, [Next]_vars
    PROVE  TypeOK'
<1> USE DEF TypeOK, files, locals, ghosts
<1>w. Worker \subseteq Writer /\ Agent \subseteq Writer
  BY DEF Writer
<1>1. ASSUME NEW w \in Worker, PostToolUse(w) PROVE TypeOK'
  BY <1>1, <1>w, Became, BoundsOK DEF PostToolUse, PC, BoundsOK
<1>2. ASSUME NEW w \in Worker, SessionEnd(w) PROVE TypeOK'
  BY <1>2, <1>w, Became DEF SessionEnd, PC
<1>3. ASSUME NEW w \in Worker, SkipBusy(w) PROVE TypeOK'
  BY <1>3, <1>w, Ended DEF SkipBusy
<1>4. ASSUME NEW w \in Worker, SeeFree(w) PROVE TypeOK'
  BY <1>4, <1>w, Became DEF SeeFree, PC
<1>5. ASSUME NEW w \in Worker, WriteLock(w) PROVE TypeOK'
  BY <1>5, <1>w, Became DEF WriteLock, PC
<1>6. ASSUME NEW w \in Worker, WriteLockFails(w) PROVE TypeOK'
  BY <1>6, <1>w, Became DEF WriteLockFails, PC
<1>7. ASSUME NEW w \in Worker, Unlock(w) PROVE TypeOK'
  BY <1>7, <1>w, Ended DEF Unlock
<1>8. ASSUME NEW w \in Worker, Branch(w) PROVE TypeOK'
  BY <1>8, <1>w, Became, BoundsOK DEF Branch, PC, BoundsOK
<1>9. ASSUME NEW w \in Worker, Mine(w) PROVE TypeOK'
  BY <1>9, <1>w, Became DEF Mine, PC, Commit
<1>10. ASSUME NEW w \in Worker, WorkFails(w) PROVE TypeOK'
  BY <1>10, <1>w, Became DEF WorkFails, PC
<1>11. ASSUME NEW w \in Worker, ReadHead(w) PROVE TypeOK'
  BY <1>11, <1>w, Became DEF ReadHead, PC
<1>12. ASSUME NEW w \in Worker, ReadQueue(w) PROVE TypeOK'
  BY <1>12, <1>w, Became, Room DEF ReadQueue, NoteOverlap, CommitOK, PC
<1>13. ASSUME NEW w \in Worker, AlreadyQueued(w) PROVE TypeOK'
  BY <1>13, <1>w, Became DEF AlreadyQueued, CommitOK, PC
<1>14. ASSUME NEW w \in Worker, Spill(w) PROVE TypeOK'
  BY <1>14, <1>w, Became, Room DEF Spill, PC
<1>15. ASSUME NEW w \in Worker, SpillFails(w) PROVE TypeOK'
  BY <1>15, <1>w, Became, Room DEF SpillFails, PC
<1>16. ASSUME NEW w \in Agent, Capture(w) PROVE TypeOK'
  <2>1. pc' \in [Writer -> PC]
    BY <1>16, <1>w, Became DEF Capture, PC
  <2>2. Elements(queue) \subseteq Commit /\ Commit \subseteq 0..MaxCommit
    BY ElementsIn, BoundsOK DEF Commit, BoundsOK
  <2> QED
    BY <1>16, <1>w, <2>1, <2>2 DEF Capture
<1>17. ASSUME NEW w \in Agent, DoneRead(w) PROVE TypeOK'
  <2>1. pc' \in [Writer -> PC]
    BY <1>17, <1>w, Became DEF DoneRead, PC
  <2>2. keep' \in [Writer -> Queue(Cap + 1)]
    <3>1. PICK i \in DOMAIN queue :
              keep' = [keep EXCEPT ![w] = SubSeq(queue, 1, i - 1)
                                          \o SubSeq(queue, i + 1, Len(queue))]
      BY <1>17 DEF DoneRead, Matched
    <3>2. SubSeq(queue, 1, i - 1) \o SubSeq(queue, i + 1, Len(queue)) \in Queue(Cap)
      BY WithoutIs DEF QueueIsDeduped, Deduped
    <3> QED
      BY <3>1, <3>2, <1>w, Room
  <2>3. mishap' \in BOOLEAN
    BY <1>17 DEF DoneRead, NoteOverlap
  <2> QED
    BY <1>17, <2>1, <2>2, <2>3 DEF DoneRead
<1>18. ASSUME NEW w \in Agent, DoneNotFound(w) PROVE TypeOK'
  BY <1>18, <1>w, Ended DEF DoneNotFound
<1>19. ASSUME NEW w \in Writer, Truncate(w) PROVE TypeOK'
  BY <1>19, Became, EmptyFits DEF Truncate, PC
<1>20. ASSUME NEW w \in Writer, Fill(w) PROVE TypeOK'
  <2>1. queue' \in Queue(Cap)
    BY <1>20 DEF Fill, KeepOK
  <2>2. w \in Worker => commit[w] \in Commit
    BY <1>20, <2>1, LastIn DEF Fill, KeepOK, Updating
  <2>3. /\ pc' \in [Writer -> PC]
        /\ commit' \in [Writer -> 0..MaxCommit]
        /\ keep' \in [Writer -> Queue(Cap + 1)]
    BY <1>20, Became, Ended DEF Fill, PC
  <2> QED
    BY <1>20, <2>1, <2>2, <2>3 DEF Fill
<1>21. ASSUME NEW w \in Writer, WriteFails(w) PROVE TypeOK'
  <2>1. /\ pc' \in [Writer -> PC]
        /\ commit' \in [Writer -> 0..MaxCommit]
        /\ keep' \in [Writer -> Queue(Cap + 1)]
    BY <1>21, Became, Ended DEF WriteFails, PC
  <2>2. mishap' \in BOOLEAN
    BY <1>21 DEF WriteFails
  <2> QED
    BY <1>21, <2>1, <2>2 DEF WriteFails
<1>22. ASSUME NEW w \in Writer, Kill(w) PROVE TypeOK'
  BY <1>22, Ended, BoundsOK DEF Kill, BoundsOK
<1>23. ASSUME LockAges PROVE TypeOK'
  BY <1>23 DEF LockAges
<1>24. CASE UNCHANGED vars
  BY <1>24 DEF vars
<1> QED
  BY <1>1, <1>2, <1>3, <1>4, <1>5, <1>6, <1>7, <1>8, <1>9, <1>10, <1>11,
     <1>12, <1>13, <1>14, <1>15, <1>16, <1>17, <1>18, <1>19, <1>20, <1>21,
     <1>22, <1>23, <1>24 DEF Next, Ingest, Drain

(* A step keeps what processes are about to write, and the queue, without   *)
(* duplicates.                                                              *)
LEMMA KeepStep ==
    ASSUME TypeOK, KeepOK, CommitOK, Deduped(queue), [Next]_vars
    PROVE  KeepOK' /\ CommitOK' /\ Deduped(queue)'
<1> USE DEF KeepOK, CommitOK, Updating, Become, End, TypeOK, files, locals, ghosts
<1>w. Worker \subseteq Writer /\ Agent \subseteq Writer
  BY DEF Writer
<1>1. ASSUME NEW w \in Worker, PostToolUse(w) PROVE KeepOK' /\ CommitOK' /\ Deduped(queue)'
  BY <1>1, <1>w DEF PostToolUse
<1>2. ASSUME NEW w \in Worker, SessionEnd(w) PROVE KeepOK' /\ CommitOK' /\ Deduped(queue)'
  BY <1>2, <1>w DEF SessionEnd
<1>3. ASSUME NEW w \in Worker, SkipBusy(w) PROVE KeepOK' /\ CommitOK' /\ Deduped(queue)'
  BY <1>3, <1>w DEF SkipBusy
<1>4. ASSUME NEW w \in Worker, SeeFree(w) PROVE KeepOK' /\ CommitOK' /\ Deduped(queue)'
  BY <1>4, <1>w DEF SeeFree
<1>5. ASSUME NEW w \in Worker, WriteLock(w) PROVE KeepOK' /\ CommitOK' /\ Deduped(queue)'
  BY <1>5, <1>w DEF WriteLock
<1>6. ASSUME NEW w \in Worker, WriteLockFails(w) PROVE KeepOK' /\ CommitOK' /\ Deduped(queue)'
  BY <1>6, <1>w DEF WriteLockFails
<1>7. ASSUME NEW w \in Worker, Unlock(w) PROVE KeepOK' /\ CommitOK' /\ Deduped(queue)'
  BY <1>7, <1>w DEF Unlock
<1>8. ASSUME NEW w \in Worker, Branch(w) PROVE KeepOK' /\ CommitOK' /\ Deduped(queue)'
  <2>1. PICK s \in {"mine", "head"} : pc' = [pc EXCEPT ![w] = s]
    BY <1>8, BoundsOK DEF Branch, BoundsOK
  <2> QED
    BY <1>8, <1>w, <2>1 DEF Branch
<1>9. ASSUME NEW w \in Worker, Mine(w) PROVE KeepOK' /\ CommitOK' /\ Deduped(queue)'
  BY <1>9, <1>w DEF Mine
<1>10. ASSUME NEW w \in Worker, WorkFails(w) PROVE KeepOK' /\ CommitOK' /\ Deduped(queue)'
  BY <1>10, <1>w DEF WorkFails
<1>11. ASSUME NEW w \in Worker, ReadHead(w) PROVE KeepOK' /\ CommitOK' /\ Deduped(queue)'
  <2>1. head # 0 => head \in Commit
    BY BoundsOK DEF Commit, BoundsOK
  <2>2. /\ commit' = [commit EXCEPT ![w] = head]
        /\ pc' = [pc EXCEPT ![w] = IF head = 0 THEN "unlock" ELSE "read"]
        /\ UNCHANGED <<queue, keep, captured>>
    BY <1>11 DEF ReadHead
  <2> QED
    BY <1>w, <2>1, <2>2
<1>12. ASSUME NEW w \in Worker, ReadQueue(w) PROVE KeepOK' /\ CommitOK' /\ Deduped(queue)'
  <2> DEFINE s == Append(queue, commit[w])
  <2>1. queue \in Seq(Commit) /\ Len(queue) <= Cap /\ commit[w] \in Commit
    BY <1>12, <1>w, QueueIsSeq, BoundsOK DEF ReadQueue, BoundsOK
  <2>2. /\ Deduped(s) /\ s # <<>> /\ s[Len(s)] = commit[w]
        /\ ~(Len(queue) + 1 > Cap) => s \in Queue(Cap)
    <3>1. /\ s \in Seq(Commit) /\ Len(s) = Len(queue) + 1
          /\ s[Len(s)] = commit[w] /\ Deduped(s)
      <4>1. commit[w] \notin Elements(queue)
        BY <1>12 DEF ReadQueue
      <4> QED
        BY <2>1, <4>1, Appended
    <3> HIDE DEF s
    <3>2. s # <<>>
      BY <2>1, <3>1
    <3>3. Cap \in Nat /\ (~(Len(queue) + 1 > Cap) => Len(s) <= Cap)
      BY <2>1, <3>1, BoundsOK DEF BoundsOK
    <3> QED
      BY <3>1, <3>2, <3>3, QueueIsSeq
  <2> HIDE DEF s
  <2>3. /\ keep' = [keep EXCEPT ![w] = s]
        /\ pc' = [pc EXCEPT ![w] = IF Len(queue) + 1 > Cap THEN "spill" ELSE "truncate"]
        /\ UNCHANGED <<queue, commit, captured>>
    BY <1>12 DEF ReadQueue, s
  <2> QED
    BY <1>w, <2>2, <2>3
<1>13. ASSUME NEW w \in Worker, AlreadyQueued(w) PROVE KeepOK' /\ CommitOK' /\ Deduped(queue)'
  BY <1>13, <1>w DEF AlreadyQueued
<1>14. ASSUME NEW w \in Worker, Spill(w) PROVE KeepOK' /\ CommitOK' /\ Deduped(queue)'
  <2>1. keep[w] \in Seq(Commit) /\ Deduped(keep[w]) /\ keep[w] # <<>>
    BY <1>14, <1>w, QueueIsSeq, BoundsOK DEF Spill, BoundsOK
  <2>2. /\ Newer(keep[w]) \in Queue(Cap) /\ Deduped(Newer(keep[w]))
        /\ Newer(keep[w]) # <<>>
        /\ Newer(keep[w])[Len(Newer(keep[w]))] = keep[w][Len(keep[w])]
    BY <2>1, NewerIs
  <2>3. /\ keep' = [keep EXCEPT ![w] = Newer(keep[w])]
        /\ pc[w] = "spill" /\ pc' = [pc EXCEPT ![w] = "truncate"]
        /\ UNCHANGED <<queue, commit, captured>>
    BY <1>14 DEF Spill
  <2> QED
    BY <1>w, <2>2, <2>3
<1>15. ASSUME NEW w \in Worker, SpillFails(w) PROVE KeepOK' /\ CommitOK' /\ Deduped(queue)'
  <2>1. keep[w] \in Seq(Commit) /\ Deduped(keep[w]) /\ keep[w] # <<>>
    BY <1>15, <1>w, QueueIsSeq, BoundsOK DEF SpillFails, BoundsOK
  <2>2. /\ Newer(keep[w]) \in Queue(Cap) /\ Deduped(Newer(keep[w]))
        /\ Newer(keep[w]) # <<>>
        /\ Newer(keep[w])[Len(Newer(keep[w]))] = keep[w][Len(keep[w])]
    BY <2>1, NewerIs
  <2>3. /\ keep' = [keep EXCEPT ![w] = Newer(keep[w])]
        /\ pc[w] = "spill" /\ pc' = [pc EXCEPT ![w] = "truncate"]
        /\ UNCHANGED <<queue, commit, captured>>
    BY <1>15 DEF SpillFails
  <2> QED
    BY <1>w, <2>2, <2>3
<1>16. ASSUME NEW w \in Agent, Capture(w) PROVE KeepOK' /\ CommitOK' /\ Deduped(queue)'
  BY <1>16, <1>w DEF Capture
<1>17. ASSUME NEW w \in Agent, DoneRead(w) PROVE KeepOK' /\ CommitOK' /\ Deduped(queue)'
  <2>1. PICK i \in DOMAIN queue :
            keep' = [keep EXCEPT ![w] = SubSeq(queue, 1, i - 1)
                                        \o SubSeq(queue, i + 1, Len(queue))]
    BY <1>17 DEF DoneRead, Matched
  <2> DEFINE t == SubSeq(queue, 1, i - 1) \o SubSeq(queue, i + 1, Len(queue))
  <2>2. t \in Queue(Cap) /\ Deduped(t)
    BY WithoutIs
  <2>3. /\ keep' = [keep EXCEPT ![w] = t]
        /\ pc' = [pc EXCEPT ![w] = "truncate"] /\ w \notin Worker
        /\ UNCHANGED <<queue, commit, captured>>
    BY <1>17, <2>1, WritersDistinct DEF DoneRead
  <2> HIDE DEF t
  <2> QED
    BY <1>w, <2>2, <2>3
<1>18. ASSUME NEW w \in Agent, DoneNotFound(w) PROVE KeepOK' /\ CommitOK' /\ Deduped(queue)'
  BY <1>18, <1>w DEF DoneNotFound
<1>19. ASSUME NEW w \in Writer, Truncate(w) PROVE KeepOK' /\ CommitOK' /\ Deduped(queue)'
  <2>1. Deduped(<<>>)
    BY DEF Deduped
  <2> QED
    BY <1>19, <2>1 DEF Truncate
<1>20. ASSUME NEW w \in Writer, Fill(w) PROVE KeepOK' /\ CommitOK' /\ Deduped(queue)'
  BY <1>20 DEF Fill
<1>21. ASSUME NEW w \in Writer, WriteFails(w) PROVE KeepOK' /\ CommitOK' /\ Deduped(queue)'
  BY <1>21, <1>w DEF WriteFails
<1>22. ASSUME NEW w \in Writer, Kill(w) PROVE KeepOK' /\ CommitOK' /\ Deduped(queue)'
  BY <1>22, <1>w DEF Kill
<1>23. ASSUME LockAges PROVE KeepOK' /\ CommitOK' /\ Deduped(queue)'
  BY <1>23, <1>w DEF LockAges
<1>24. CASE UNCHANGED vars
  BY <1>24, <1>w DEF vars
<1> QED
  BY <1>1, <1>2, <1>3, <1>4, <1>5, <1>6, <1>7, <1>8, <1>9, <1>10, <1>11,
     <1>12, <1>13, <1>14, <1>15, <1>16, <1>17, <1>18, <1>19, <1>20, <1>21,
     <1>22, <1>23, <1>24 DEF Next, Ingest, Drain

(* Where a commit is that is not lost.                                      *)
Kept(c) ==
    \/ c \in Elements(queue) \cup overflow \cup captured
    \/ \E w \in Writer : pc[w] = "fill" /\ c \in Elements(keep[w])

LEMMA KeptIs == QueuedIsKept <=> (~mishap => \A c \in owed : Kept(c))
BY DEF QueuedIsKept, Kept

(* A step lets no update overlap another one unnoticed, and no commit that  *)
(* was queued gets lost.                                                    *)
LEMMA KeptStep ==
    ASSUME TypeOK, KeepOK, CommitOK, Deduped(queue), OneUpdater, NothingForgotten,
           Emptied, ~mishap => \A c \in owed : Kept(c), [Next]_vars
    PROVE  /\ OneUpdater' /\ NothingForgotten' /\ Emptied'
           /\ ~mishap' => \A c \in owed' : Kept(c)'
<1> DEFINE Goal == /\ OneUpdater' /\ NothingForgotten' /\ Emptied'
                   /\ ~mishap' => \A c \in owed' : Kept(c)'
<1> USE DEF OneUpdater, NothingForgotten, Emptied, Kept, Updating, Become, End, TypeOK, files,
            locals, ghosts
<1>w. Worker \subseteq Writer /\ Agent \subseteq Writer
  BY DEF Writer
<1>1. ASSUME NEW w \in Worker, PostToolUse(w) PROVE Goal
  BY <1>1, <1>w DEF PostToolUse
<1>2. ASSUME NEW w \in Worker, SessionEnd(w) PROVE Goal
  BY <1>2, <1>w DEF SessionEnd
<1>3. ASSUME NEW w \in Worker, SkipBusy(w) PROVE Goal
  BY <1>3, <1>w DEF SkipBusy
<1>4. ASSUME NEW w \in Worker, SeeFree(w) PROVE Goal
  BY <1>4, <1>w DEF SeeFree
<1>5. ASSUME NEW w \in Worker, WriteLock(w) PROVE Goal
  BY <1>5, <1>w DEF WriteLock
<1>6. ASSUME NEW w \in Worker, WriteLockFails(w) PROVE Goal
  BY <1>6, <1>w DEF WriteLockFails
<1>7. ASSUME NEW w \in Worker, Unlock(w) PROVE Goal
  BY <1>7, <1>w DEF Unlock
<1>8. ASSUME NEW w \in Worker, Branch(w) PROVE Goal
  <2>1. PICK s \in {"mine", "head"} : pc' = [pc EXCEPT ![w] = s]
    BY <1>8, BoundsOK DEF Branch, BoundsOK
  <2> QED
    BY <1>8, <1>w, <2>1 DEF Branch
<1>9. ASSUME NEW w \in Worker, Mine(w) PROVE Goal
  BY <1>9, <1>w DEF Mine
<1>10. ASSUME NEW w \in Worker, WorkFails(w) PROVE Goal
  BY <1>10, <1>w DEF WorkFails
<1>11. ASSUME NEW w \in Worker, ReadHead(w) PROVE Goal
  BY <1>11, <1>w DEF ReadHead
<1>12. ASSUME NEW w \in Worker, ReadQueue(w) PROVE Goal
  <2> DEFINE s == Append(queue, commit[w])
  <2>1. Elements(queue) \subseteq Elements(s)
    <3>1. queue \in Seq(Commit) /\ commit[w] \in Commit
      BY <1>12, <1>w, QueueIsSeq, BoundsOK DEF ReadQueue, BoundsOK, CommitOK
    <3> QED
      BY <3>1, Appended
  <2>2. /\ keep' = [keep EXCEPT ![w] = s] /\ pc[w] = "read"
        /\ pc' = [pc EXCEPT ![w] = IF Len(queue) + 1 > Cap THEN "spill" ELSE "truncate"]
        /\ mishap' = (mishap \/ \E v \in Writer \ {w} : Updating(v))
        /\ UNCHANGED <<queue, overflow, captured, owed>>
    BY <1>12 DEF ReadQueue, NoteOverlap
  <2> HIDE DEF s
  <2> QED
    BY <1>w, <2>1, <2>2
<1>13. ASSUME NEW w \in Worker, AlreadyQueued(w) PROVE Goal
  BY <1>13, <1>w DEF AlreadyQueued
<1>14. ASSUME NEW w \in Worker, Spill(w) PROVE Goal
  <2>1. Elements(keep[w]) = Elements(Newer(keep[w])) \cup Spilled(keep[w])
    BY <1>w, QueueIsSeq, NewerIs, BoundsOK DEF BoundsOK
  <2>2. /\ keep' = [keep EXCEPT ![w] = Newer(keep[w])]
        /\ overflow' = overflow \cup Spilled(keep[w])
        /\ pc[w] = "spill" /\ pc' = [pc EXCEPT ![w] = "truncate"]
        /\ UNCHANGED <<queue, captured, owed, mishap>>
    BY <1>14 DEF Spill
  <2> QED
    BY <1>w, <2>1, <2>2
<1>15. ASSUME NEW w \in Worker, SpillFails(w) PROVE Goal
  BY <1>15, <1>w DEF SpillFails
<1>16. ASSUME NEW w \in Agent, Capture(w) PROVE Goal
  BY <1>16, <1>w DEF Capture
<1>17. ASSUME NEW w \in Agent, DoneRead(w) PROVE Goal
  <2>1. PICK i \in Matched(w) :
            keep' = [keep EXCEPT ![w] = SubSeq(queue, 1, i - 1)
                                        \o SubSeq(queue, i + 1, Len(queue))]
    BY <1>17 DEF DoneRead
  <2> DEFINE t == SubSeq(queue, 1, i - 1) \o SubSeq(queue, i + 1, Len(queue))
  <2>2. i \in DOMAIN queue /\ queue[i] = commit[w] /\ commit[w] \in captured
    BY <1>17, <1>w DEF DoneRead, Matched, CommitOK
  <2>3. Elements(queue) \subseteq Elements(t) \cup captured
    BY <2>2, WithoutIs
  <2>4. /\ keep' = [keep EXCEPT ![w] = t] /\ pc[w] = "captured"
        /\ pc' = [pc EXCEPT ![w] = "truncate"]
        /\ mishap' = (mishap \/ \E v \in Writer \ {w} : Updating(v))
        /\ UNCHANGED <<queue, overflow, captured, owed>>
    BY <1>17, <2>1 DEF DoneRead, NoteOverlap
  <2> HIDE DEF t
  <2> QED
    BY <1>w, <2>3, <2>4
<1>18. ASSUME NEW w \in Agent, DoneNotFound(w) PROVE Goal
  BY <1>18, <1>w DEF DoneNotFound
<1>19. ASSUME NEW w \in Writer, Truncate(w) PROVE Goal
  BY <1>19, <1>w DEF Truncate
<1>20. ASSUME NEW w \in Writer, Fill(w) PROVE Goal
  <2>1. w \in Worker => commit[w] \in Elements(keep[w])
    <3>1. w \in Worker => keep[w] # <<>> /\ keep[w][Len(keep[w])] = commit[w]
      BY <1>20 DEF Fill, KeepOK
    <3>2. keep[w] \in Seq(Commit)
      BY QueueIsSeq, BoundsOK DEF BoundsOK
    <3>3. w \in Worker => Len(keep[w]) \in 1..Len(keep[w])
      BY <3>1, <3>2
    <3> QED
      BY <3>1, <3>2, <3>3, ElementsAre
  <2>2. /\ queue' = keep[w] /\ pc[w] = "fill" /\ UNCHANGED <<overflow, captured, mishap>>
        /\ owed' \subseteq owed \cup Elements(keep[w])
        /\ \A v \in Writer : v # w => pc'[v] = pc[v] /\ keep'[v] = keep[v]
        /\ pc'[w] \in {"unlock", "idle"}
    BY <1>20, <2>1 DEF Fill
  <2>3. ~mishap' => \A v \in Writer : v # w => ~Updating(v) /\ ~Updating(v)'
    BY <2>2
  <2>4. OneUpdater' /\ NothingForgotten' /\ Emptied'
    BY <2>2, <2>3
  <2>5. ASSUME ~mishap', NEW c \in owed' PROVE Kept(c)'
    <3>1. CASE c \in Elements(keep[w])
      BY <2>2, <3>1
    <3>2. CASE c \in owed /\ c \in overflow \cup captured
      BY <2>2, <3>2
    <3>3. CASE c \in owed /\ c \in Elements(queue)
      BY <2>2, <2>5, <3>3 DEF Elements
    <3> QED
      BY <2>2, <2>3, <2>5, <3>1, <3>2, <3>3
  <2> QED
    BY <2>4, <2>5
<1>21. ASSUME NEW w \in Writer, WriteFails(w) PROVE Goal
  BY <1>21, <1>w DEF WriteFails
<1>22. ASSUME NEW w \in Writer, Kill(w) PROVE Goal
  BY <1>22, <1>w DEF Kill
<1>23. ASSUME LockAges PROVE Goal
  BY <1>23, <1>w DEF LockAges
<1>24. CASE UNCHANGED vars
  BY <1>24, <1>w DEF vars
<1> QED
  BY <1>1, <1>2, <1>3, <1>4, <1>5, <1>6, <1>7, <1>8, <1>9, <1>10, <1>11,
     <1>12, <1>13, <1>14, <1>15, <1>16, <1>17, <1>18, <1>19, <1>20, <1>21,
     <1>22, <1>23, <1>24 DEF Next, Ingest, Drain

LEMMA QueueStep == IInv /\ [Next]_vars => IInv'
<1> SUFFICES ASSUME IInv, [Next]_vars PROVE IInv'
  OBVIOUS
<1>1. /\ TypeOK /\ KeepOK /\ CommitOK /\ OneUpdater /\ NothingForgotten /\ Emptied
      /\ QueueIsDeduped /\ Deduped(queue)
      /\ ~mishap => \A c \in owed : Kept(c)
  BY KeptIs DEF IInv, QueueIsDeduped, Deduped
<1>2. TypeOK'
  BY <1>1, TypeStep
<1>3. KeepOK' /\ CommitOK' /\ Deduped(queue)'
  BY <1>1, KeepStep
<1>4. /\ OneUpdater' /\ NothingForgotten' /\ Emptied'
      /\ ~mishap' => \A c \in owed' : Kept(c)'
  BY <1>1, KeptStep
<1>5. QueueIsDeduped'
  BY <1>3 DEF QueueIsDeduped, Deduped
<1>6. QueuedIsKept'
  BY <1>4 DEF QueuedIsKept, Kept
<1> QED
  BY <1>2, <1>3, <1>4, <1>5, <1>6 DEF IInv

----------------------------------------------------------------------------
(* The types of the queue, for any number of processes and commits: what is *)
(* written to the file never exceeds _MAX_QUEUE (_apply_cap, _write).       *)
THEOREM QueueTyped == Spec => []TypeOK
<1>1. IInv => TypeOK
  BY DEF IInv
<1> QED
  BY InitOK, QueueStep, <1>1, PTL DEF Spec

(* No commit stands in the queue twice, whoever overlaps, and none that was *)
(* queued is lost unless two updates overlapped, one was cut between        *)
(* truncation and write, or a spill failed (code_capture_pending.py).       *)
THEOREM QueueAlwaysSound == Spec => []QueueIsSound
<1>1. IInv => QueueIsSound
  BY DEF IInv, QueueIsSound
<1> QED
  BY InitOK, QueueStep, <1>1, PTL DEF Spec
====
