----------------------------- MODULE CallsProofs -----------------------------
(***************************************************************************)
(* Proofs about the calls of the tools in the run MCHosts (CodexBridge):   *)
(* however the messages of Codex are cut into chunks and however the       *)
(* handlers overlap, a call works under its own thread.                    *)
(***************************************************************************)
EXTENDS MCHosts, FiniteSetTheorems, SequenceTheorems, TLAPS

(* What Codex may write, what a line becomes, and the names of sessions.   *)
Piece == Nat \X {"text", "newline"}
Sent == Bridge!Messages \cup {Bridge!Bridged(m) : m \in Bridge!Messages}
Item == [n : Nat, message : Sent]
Ids == {NoThread} \cup {Bridge!ThreadIdFromMeta(m.meta) : m \in Bridge!Messages}
Job == [at : {"idle", "made", "in"}, n : Nat, before : Ids]

BridgeTyped ==
    /\ asked \in Seq(Bridge!Messages) /\ pending \in Seq(Piece) /\ wire \in Seq(Piece)
    /\ inbox \in Seq(Item) /\ task \in [Tasks -> Job] /\ context \in [Tasks -> Ids]
    /\ DOMAIN answers \subseteq DOMAIN asked /\ accepted \subseteq DOMAIN answers
    /\ child = "none" => DOMAIN answers = {}

(* Pieces are of lines that were written, and a line's come after those of *)
(* the lines before it.                                                    *)
Piled(w, msgs) ==
    /\ \A i \in DOMAIN w : w[i][1] \in DOMAIN msgs
    /\ \A i, j \in DOMAIN w : i < j =>
          w[i][1] <= w[j][1] /\ (w[i][2] = "newline" => w[i][1] < w[j][1])

(* So do the messages that the server has not taken, ahead of the pieces.  *)
Lined(s, w) ==
    /\ \A i, j \in DOMAIN s : i < j => s[i].n < s[j].n
    /\ \A i \in DOMAIN s, j \in DOMAIN w : s[i].n < w[j][1]

(* A message that the server gets is one that was written, bridged, or it  *)
(* is half of one; a hook shows an answer that was given.                  *)
Faithful(e, msgs, given) ==
    /\ e.n \in DOMAIN msgs
    /\ e.message = Bridge!Bridged(msgs[e.n]) \/ e.message.form = "noise"
    /\ e.message.form = "hook" => e.message.of \in given

(* A number that was taken is behind what is still to come.                *)
Behind(n, s, w) ==
    /\ \A i \in DOMAIN s : n < s[i].n
    /\ \A j \in DOMAIN w : n < w[j][1]

(* What a task runs is a call of its own, under its own thread.            *)
Busy(t) == task[t].at # "idle"
AtWork(t) ==
    LET job == task[t]
        own == Bridge!ThreadIdFromMeta(asked[job.n].meta)
    IN  /\ job.at = "idle" => context[t] = NoThread
        /\ job.at = "made" => context[t] = NoThread /\ job.before = own
        /\ job.at = "in" => context[t] = own /\ job.before = NoThread
        /\ job.at # "idle" => /\ job.n \in DOMAIN asked /\ job.n \notin DOMAIN answers
                              /\ asked[job.n].form = "session"
                              /\ Behind(job.n, inbox, pending \o wire)

StreamInv ==
    /\ Piled(pending \o wire, asked) /\ Lined(inbox, pending \o wire)
    /\ \A i \in DOMAIN inbox : Faithful(inbox[i], asked, DOMAIN answers)
    /\ \A n \in DOMAIN answers : Behind(n, inbox, pending \o wire)
    /\ \A n \in DOMAIN asked : asked[n].form = "hook" => asked[n].of \in DOMAIN answers

TaskInv ==
    /\ \A t \in Tasks : AtWork(t)
    /\ \A t, u \in Tasks : t # u /\ Busy(t) /\ Busy(u) => task[t].n # task[u].n

AnswerOf(n) ==
    LET own == Bridge!ThreadIdFromMeta(asked[n].meta)
        theirs == IF own # NoThread THEN own ELSE ambient
    IN  /\ answers[n].scope = own
        /\ answers[n].session = IF asked[n].given # NoThread THEN asked[n].given
                                ELSE theirs

BridgeInv ==
    /\ BridgeTyped /\ StreamInv /\ TaskInv
    /\ \A n \in DOMAIN answers : AnswerOf(n)
    /\ Bridge!ReceiptsAreOwn

(* A message that is bridged keeps what the carrier is not.                *)
LEMMA BridgedIs ==
    ASSUME NEW m \in Bridge!Messages
    PROVE  /\ Bridge!Bridged(m) \in Sent /\ m.form \in Bridge!Forms
           /\ Bridge!Bridged(m).form = m.form /\ Bridge!Bridged(m).of = m.of
           /\ m.form = "session" =>
                  Bridge!Bridged(m).carrier = Bridge!ThreadIdFromMeta(m.meta)
           /\ Bridge!ThreadIdFromMeta(m.meta) \in Ids
BY DEF Bridge!Bridged, Sent, Bridge!Messages, Ids

(* The invariant implies the property.                                      *)
LEMMA BridgeFollows == BridgeInv => Bridge!CallsAreOwn
<1> SUFFICES ASSUME BridgeInv PROVE Bridge!CallsAreOwn
  OBVIOUS
<1>1. Bridge!LinesKeepTheirOrder
  BY DEF BridgeInv, StreamInv, Lined, Bridge!LinesKeepTheirOrder
<1>2. Bridge!CallsKeepTheirThread
  <2>1. \A t \in Tasks : task[t].at = "idle" => context[t] = NoThread
    BY DEF BridgeInv, TaskInv, AtWork
  <2> QED
    BY <2>1 DEF BridgeInv, AnswerOf, Bridge!CallsKeepTheirThread
<1> QED
  BY <1>1, <1>2 DEF BridgeInv, Bridge!CallsAreOwn

(* It holds at the start.                                                   *)
LEMMA BridgeStarts == Bridge!Init => BridgeInv
<1> SUFFICES ASSUME Bridge!Init PROVE BridgeInv
  OBVIOUS
<1>1. /\ asked = <<>> /\ wire = <<>> /\ pending = <<>> /\ inbox = <<>>
      /\ task = [t \in Tasks |-> Bridge!Idle] /\ context = [t \in Tasks |-> NoThread]
      /\ answers = [n \in {} |-> 0] /\ accepted = {}
  BY DEF Bridge!Init
<1>2. pending \o wire = <<>>
  BY <1>1
<1>3. Bridge!Idle \in Job /\ Bridge!Idle.at = "idle" /\ NoThread \in Ids
  BY DEF Bridge!Idle, Job, Ids
<1> HIDE DEF Bridge!Idle
<1>4. BridgeTyped
  BY <1>1, <1>3 DEF BridgeTyped
<1>5. StreamInv
  BY <1>1, <1>2 DEF StreamInv, Piled, Lined
<1>6. TaskInv
  BY <1>1, <1>3 DEF TaskInv, AtWork, Busy
<1> QED
  BY <1>1, <1>4, <1>5, <1>6 DEF BridgeInv, Bridge!ReceiptsAreOwn

(* The launcher starts the server.                                         *)
LEMMA StartKeeps ==
    ASSUME BridgeInv, NEW usable, NEW i, NEW j, NEW k, Bridge!Start(usable, i, j, k)
    PROVE  BridgeInv'
<1>1. /\ child = "none" /\ child' \in {"running", "exited"}
      /\ UNCHANGED <<asked, wire, closed, pending, inbox, task, context>>
      /\ UNCHANGED <<answers, accepted>>
  BY DEF Bridge!Start
<1>2. DOMAIN answers = {} /\ accepted = {}
  BY <1>1 DEF BridgeInv, BridgeTyped
<1>3. BridgeTyped'
  BY <1>1 DEF BridgeInv, BridgeTyped
<1>4. StreamInv' /\ TaskInv'
  BY <1>1 DEF BridgeInv, StreamInv, TaskInv, AtWork, Busy
<1> QED
  BY <1>1, <1>2, <1>3, <1>4 DEF BridgeInv, Bridge!ReceiptsAreOwn

(* The server ends.                                                        *)
LEMMA ExitKeeps == ASSUME BridgeInv, Bridge!ChildExits PROVE BridgeInv'
<1>1. /\ child' = "exited" /\ wire' = <<>> /\ pending' = <<>> /\ inbox' = <<>>
      /\ task' = [t \in Tasks |-> Bridge!Idle] /\ context' = [t \in Tasks |-> NoThread]
      /\ UNCHANGED <<ambient, asked, answers, accepted>>
  BY DEF Bridge!ChildExits
<1>2. pending' \o wire' = <<>>
  BY <1>1
<1>3. Bridge!Idle \in Job /\ Bridge!Idle.at = "idle" /\ NoThread \in Ids
  BY DEF Bridge!Idle, Job, Ids
<1> HIDE DEF Bridge!Idle
<1>4. BridgeTyped'
  BY <1>1, <1>3 DEF BridgeInv, BridgeTyped
<1>5. StreamInv'
  BY <1>1, <1>2 DEF BridgeInv, StreamInv, Piled, Lined, Behind
<1>6. TaskInv'
  BY <1>1, <1>3 DEF TaskInv, AtWork, Busy
<1>7. (\A n \in DOMAIN answers : AnswerOf(n))' /\ Bridge!ReceiptsAreOwn'
  BY <1>1 DEF BridgeInv, AnswerOf, Bridge!ReceiptsAreOwn
<1> QED
  BY <1>4, <1>5, <1>6, <1>7 DEF BridgeInv

(* Sequences.                                                              *)
LEMMA Joined ==
    ASSUME NEW S, NEW s \in Seq(S), NEW t \in Seq(S)
    PROVE  /\ s \o t \in Seq(S) /\ DOMAIN (s \o t) = 1..Len(s) + Len(t)
           /\ DOMAIN s = 1..Len(s) /\ DOMAIN t = 1..Len(t)
           /\ Len(s) \in Nat /\ Len(t) \in Nat
           /\ \A i \in DOMAIN s : i \in DOMAIN (s \o t) /\ (s \o t)[i] = s[i]
           /\ \A i \in DOMAIN t : Len(s) + i \in DOMAIN (s \o t)
                                  /\ (s \o t)[Len(s) + i] = t[i]
           /\ \A i \in DOMAIN (s \o t) :
                 i \in DOMAIN s \/ (i - Len(s) \in DOMAIN t /\ (s \o
                     t)[i] = t[i - Len(s)])
<1>1. /\ s \o t \in Seq(S) /\ Len(s \o t) = Len(s) + Len(t)
      /\ \A i \in 1 .. Len(s) + Len(t) : (s \o t)[i] =
            IF i <= Len(s) THEN s[i] ELSE t[i - Len(s)]
  BY ConcatProperties
<1>2. /\ DOMAIN s = 1..Len(s) /\ DOMAIN t = 1..Len(t) /\ Len(s) \in Nat /\ Len(t) \in Nat
      /\ DOMAIN (s \o t) = 1..Len(s \o t)
  BY <1>1, LenProperties
<1> DEFINE u == s \o t
           a == Len(s)
           b == Len(t)
<1>3. /\ DOMAIN u = 1..a + b /\ DOMAIN s = 1..a /\ DOMAIN t = 1..b /\ a \in Nat
      /\ b \in Nat
      /\ \A i \in 1..a + b : u[i] = IF i <= a THEN s[i] ELSE t[i - a]
  BY <1>1, <1>2
<1> HIDE DEF u, a, b
<1>4. \A i \in DOMAIN s : i \in DOMAIN u /\ u[i] = s[i]
  BY <1>3
<1>5. ASSUME NEW i \in DOMAIN t PROVE a + i \in DOMAIN u /\ u[a + i] = t[i]
  <2>1. /\ i \in Nat /\ i >= 1 /\ i <= b /\ a + i \in 1..a + b /\ ~(a + i <= a)
        /\ a + i - a = i
    BY <1>3
  <2> QED
    BY <1>3, <2>1
<1>6. ASSUME NEW i \in DOMAIN u
      PROVE  i \in DOMAIN s \/ (i - a \in DOMAIN t /\ u[i] = t[i - a])
  BY <1>3
<1> QED
  BY <1>1, <1>3, <1>4, <1>5, <1>6 DEF u, a, b

(* An element is appended.                                                 *)
LEMMA Longer ==
    ASSUME NEW S, NEW s \in Seq(S), NEW e \in S
    PROVE  /\ Append(s, e) \in Seq(S) /\ DOMAIN s = 1..Len(s) /\ Len(s) \in Nat
           /\ DOMAIN Append(s, e) = DOMAIN s \cup {Len(s) + 1}
           /\ Len(Append(s, e)) = Len(s) + 1 /\ Append(s, e)[Len(s) + 1] = e
           /\ \A i \in DOMAIN s : Append(s, e)[i] = s[i]
<1>1. /\ Append(s, e) \in Seq(S) /\ Len(Append(s, e)) = Len(s) + 1
      /\ \A i \in 1..Len(s) : Append(s, e)[i] = s[i]
      /\ Append(s, e)[Len(s) + 1] = e
  BY AppendProperties
<1>2. /\ DOMAIN s = 1..Len(s) /\ Len(s) \in Nat
      /\ DOMAIN Append(s, e) = 1..Len(Append(s, e))
  BY <1>1, LenProperties
<1> QED
  BY <1>1, <1>2

(* Codex writes a line.                                                    *)
LEMMA AskKeeps ==
    ASSUME BridgeInv, NEW m \in Bridge!Messages, m.form = "hook" =>
           m.of \in DOMAIN answers, Bridge!Ask(m)
    PROVE  BridgeInv'
<1> DEFINE N == Len(asked) + 1
           msgs == Append(asked, m)
           w == pending \o wire
<1>1. PICK k \in 1..2 : wire' = wire \o SubSeq(Bridge!Pieces(Len(asked')), 1, k)
  BY DEF Bridge!Ask
<1> DEFINE add == SubSeq(Bridge!Pieces(N), 1, k)
<1>2. /\ asked' = msgs /\ child = "running"
      /\ UNCHANGED <<child, ambient, pending, inbox, task, context, answers, accepted>>
  BY DEF Bridge!Ask
<1>3. /\ msgs \in Seq(Bridge!Messages) /\ DOMAIN msgs = DOMAIN asked \cup {N}
      /\ Len(msgs) = N
      /\ msgs[N] = m /\ N \in Nat /\ DOMAIN asked = 1..N - 1
      /\ \A n \in DOMAIN asked : msgs[n] = asked[n]
  BY Longer DEF BridgeInv, BridgeTyped
<1>4. /\ add \in Seq(Piece) /\ Len(add) = k
      /\ \A i \in 1..k : add[i] = Bridge!Pieces(N)[i]
  <2>1. \A i \in 1..k : Bridge!Pieces(N)[i] \in Piece
    BY <1>3 DEF Bridge!Pieces, Piece
  <2>2. /\ SubSeq(Bridge!Pieces(N), 1, k) \in Seq(Piece)
        /\ Len(SubSeq(Bridge!Pieces(N), 1, k)) = IF 1 <= k THEN k - 1 + 1 ELSE 0
        /\ \A i \in 1..k - 1 + 1 :
              SubSeq(Bridge!Pieces(N), 1, k)[i] = Bridge!Pieces(N)[1 + i - 1]
    BY <2>1, SubSeqProperties
  <2> QED
    BY <2>2
<1>5. /\ \A i \in 1..k : add[i][1] = N
      /\ \A i, j \in 1..k : i < j => add[i][2] # "newline"
  BY <1>4 DEF Bridge!Pieces
<1>6. wire' = wire \o add
  BY <1>1, <1>2, <1>3
<1> HIDE DEF add, msgs, N
<1>7. pending \in Seq(Piece) /\ wire \in Seq(Piece) /\ w \in Seq(Piece)
  BY Joined DEF BridgeInv, BridgeTyped
<1>8. (pending \o wire)' = w \o add /\ wire' \in Seq(Piece)
  BY <1>2, <1>4, <1>6, <1>7, ConcatAssociative, ConcatProperties
<1> HIDE DEF w
<1> DEFINE v == w \o add
<1>9. /\ DOMAIN add = 1..k
      /\ \A i \in DOMAIN w : i \in DOMAIN v /\ v[i] = w[i]
      /\ \A i \in DOMAIN v : \/ i \in DOMAIN w
                             \/ i - Len(w) \in 1..k /\ v[i] = add[i - Len(w)]
      /\ DOMAIN w = 1..Len(w) /\ Len(w) \in Nat /\ DOMAIN v = 1..Len(w) + k
  BY <1>4, <1>7, Joined
<1> HIDE DEF v
<1>10. ASSUME NEW i \in DOMAIN v, i \notin DOMAIN w
       PROVE  v[i][1] = N /\ (\A j \in DOMAIN v : i < j => v[i][2] # "newline")
  <2>1. i - Len(w) \in 1..k /\ v[i] = add[i - Len(w)] /\ i > Len(w) /\ i \in Nat
    BY <1>9, <1>10
  <2>2. ASSUME NEW j \in DOMAIN v, i < j PROVE v[i][2] # "newline"
    <3>1. j - Len(w) \in 1..k /\ i - Len(w) < j - Len(w)
      BY <1>9, <2>1, <2>2
    <3> QED
      BY <1>5, <2>1, <3>1
  <2> QED
    BY <1>5, <2>1, <2>2
<1>11. Piled(w, asked) /\ Lined(inbox, w)
  BY DEF BridgeInv, StreamInv, w
<1>12. Piled(v, msgs)
  <2>1. \A i \in DOMAIN v : v[i][1] \in DOMAIN msgs
    BY <1>3, <1>9, <1>10, <1>11 DEF Piled
  <2>2. ASSUME NEW i \in DOMAIN v, NEW j \in DOMAIN v, i < j
        PROVE  v[i][1] <= v[j][1] /\ (v[i][2] = "newline" => v[i][1] < v[j][1])
    <3>1. CASE j \in DOMAIN w
      <4>1. i \in DOMAIN w
        BY <1>9, <2>2, <3>1
      <4> QED
        BY <1>9, <1>11, <2>2, <3>1, <4>1 DEF Piled
    <3>2. CASE i \in DOMAIN w /\ j \notin DOMAIN w
      <4>1. v[i][1] \in 1..N - 1 /\ v[j][1] = N
        BY <1>3, <1>9, <1>10, <1>11, <3>2 DEF Piled
      <4> QED
        BY <1>3, <4>1
    <3>3. CASE i \notin DOMAIN w /\ j \notin DOMAIN w
      <4>1. v[i][1] = N /\ v[j][1] = N /\ v[i][2] # "newline"
        BY <1>10, <2>2, <3>3
      <4> QED
        BY <1>3, <4>1
    <3> QED
      BY <3>1, <3>2, <3>3
  <2> QED
    BY <2>1, <2>2 DEF Piled
<1>13. ASSUME NEW n \in DOMAIN asked, NEW j \in DOMAIN v, \A i \in DOMAIN w : n < w[i][1]
       PROVE  n < v[j][1]
  <2>1. CASE j \in DOMAIN w
    BY <1>9, <1>13, <2>1
  <2>2. CASE j \notin DOMAIN w
    <3>1. v[j][1] = N
      BY <1>10, <2>2
    <3> QED
      BY <1>3, <3>1
  <2> QED
    BY <2>1, <2>2
<1>14. \A i \in DOMAIN inbox : inbox[i].n \in DOMAIN asked
  BY DEF BridgeInv, StreamInv, Faithful
<1>15. Lined(inbox, v)
  <2>1. ASSUME NEW i \in DOMAIN inbox, NEW j \in DOMAIN v PROVE inbox[i].n < v[j][1]
    BY <1>11, <1>13, <1>14 DEF Lined
  <2> QED
    BY <1>11, <2>1 DEF Lined
<1>16. ASSUME NEW n \in DOMAIN asked, Behind(n, inbox, w) PROVE Behind(n, inbox, v)
  BY <1>13, <1>16 DEF Behind
<1>17. \A i \in DOMAIN inbox : Faithful(inbox[i], msgs, DOMAIN answers)
  BY <1>3 DEF BridgeInv, StreamInv, Faithful
<1>18. DOMAIN answers \subseteq DOMAIN asked
  BY DEF BridgeInv, BridgeTyped
<1>19. StreamInv'
  <2>1. \A n \in DOMAIN answers : Behind(n, inbox, v)
    BY <1>16, <1>18 DEF BridgeInv, StreamInv, w
  <2>2. \A n \in DOMAIN msgs : msgs[n].form = "hook" => msgs[n].of \in DOMAIN answers
    BY <1>3 DEF BridgeInv, StreamInv
  <2> QED
    BY <1>2, <1>8, <1>12, <1>15, <1>17, <2>1, <2>2 DEF StreamInv, v
<1>20. BridgeTyped'
  BY <1>2, <1>3, <1>8 DEF BridgeInv, BridgeTyped
<1>21. TaskInv'
  <2>1. ASSUME NEW t \in Tasks PROVE AtWork(t)'
    <3>1. AtWork(t)
      BY DEF BridgeInv, TaskInv
    <3>2. CASE task[t].at = "idle"
      BY <1>2, <3>1, <3>2 DEF AtWork
    <3>3. CASE task[t].at # "idle"
      <4>1. task[t].n \in DOMAIN asked /\ Behind(task[t].n, inbox, w)
        BY <3>1, <3>3 DEF AtWork, w
      <4>2. Behind(task[t].n, inbox, v) /\ msgs[task[t].n] = asked[task[t].n]
            /\ task[t].n \in DOMAIN msgs
        BY <1>3, <1>16, <4>1
      <4> QED
        BY <1>2, <1>8, <3>1, <4>1, <4>2 DEF AtWork, v
    <3> QED
      BY <3>2, <3>3
  <2> QED
    BY <1>2, <2>1 DEF BridgeInv, TaskInv, Busy
<1>22. (\A n \in DOMAIN answers : AnswerOf(n))'
  BY <1>2, <1>3, <1>18 DEF BridgeInv, AnswerOf
<1>23. Bridge!ReceiptsAreOwn'
  BY <1>2, <1>3, <1>18 DEF BridgeInv, BridgeTyped, Bridge!ReceiptsAreOwn
<1> QED
  BY <1>19, <1>20, <1>21, <1>22, <1>23 DEF BridgeInv

(* A part of a sequence.                                                   *)
LEMMA Cut ==
    ASSUME NEW S, NEW s \in Seq(S), NEW m \in Nat, NEW n \in Nat, m <= n, n <= Len(s)
    PROVE  /\ SubSeq(s, m + 1, n) \in Seq(S) /\ Len(SubSeq(s, m + 1, n)) = n - m
           /\ DOMAIN SubSeq(s, m + 1, n) = 1..n - m
           /\ \A i \in 1..n - m : SubSeq(s, m + 1, n)[i] = s[m + i]
<1>1. DOMAIN s = 1..Len(s) /\ Len(s) \in Nat /\ \A i \in 1..Len(s) : s[i] \in S
  BY LenProperties, ElementOfSeq
<1>2. \A i \in m + 1..n : s[i] \in S
  BY <1>1
<1>3. /\ SubSeq(s, m + 1, n) \in Seq(S)
      /\ Len(SubSeq(s, m + 1, n)) = IF m + 1 <= n THEN n - (m + 1) + 1 ELSE 0
      /\ \A i \in 1 .. n - (m + 1) + 1 : SubSeq(s, m + 1, n)[i] = s[m + 1 + i - 1]
  BY <1>2, SubSeqProperties
<1>4. Len(SubSeq(s, m + 1, n)) = n - m
  BY <1>3
<1>5. DOMAIN SubSeq(s, m + 1, n) = 1..n - m
  BY <1>3, <1>4, LenProperties
<1>6. ASSUME NEW i \in 1..n - m PROVE SubSeq(s, m + 1, n)[i] = s[m + i]
  <2>1. i \in 1 .. n - (m + 1) + 1 /\ m + 1 + i - 1 = m + i
    OBVIOUS
  <2> QED
    BY <1>3, <2>1
<1> QED
  BY <1>3, <1>4, <1>5, <1>6

(* What is left when the first pieces of a stream are gone.                *)
LEMMA CutStream ==
    ASSUME BridgeInv, NEW v, NEW last \in Nat,
           \A j \in DOMAIN v : j \in Nat /\ j >= 1 /\ last + j \in DOMAIN (pending \o
               wire)
                               /\ v[j] = (pending \o wire)[last + j]
    PROVE  Piled(v, asked) /\ Lined(inbox, v)
           /\ \A n : Behind(n, inbox, pending \o wire) => Behind(n, inbox, v)
<1> DEFINE w == pending \o wire
<1>1. Piled(w, asked) /\ Lined(inbox, w)
  BY DEF BridgeInv, StreamInv
<1>2. \A j \in DOMAIN v : j \in Nat /\ last + j \in DOMAIN w /\ v[j] = w[last + j]
  OBVIOUS
<1> HIDE DEF w
<1>3. Piled(v, asked)
  <2>1. \A i \in DOMAIN v : v[i][1] \in DOMAIN asked
    BY <1>1, <1>2 DEF Piled
  <2>2. ASSUME NEW i \in DOMAIN v, NEW j \in DOMAIN v, i < j
        PROVE  v[i][1] <= v[j][1] /\ (v[i][2] = "newline" => v[i][1] < v[j][1])
    <3>1. last + i < last + j
      BY <1>2, <2>2
    <3> QED
      BY <1>1, <1>2, <3>1 DEF Piled
  <2> QED
    BY <2>1, <2>2 DEF Piled
<1>4. Lined(inbox, v)
  BY <1>1, <1>2 DEF Lined
<1>5. \A n : Behind(n, inbox, w) => Behind(n, inbox, v)
  BY <1>2 DEF Behind
<1> QED
  BY <1>3, <1>4, <1>5 DEF w

(* Messages are added, and pieces taken: what this leaves of the invariant.*)
LEMMA NewLines ==
    ASSUME BridgeInv, NEW s, NEW v, inbox' = s, (pending \o wire)' = v,
           s \in Seq(Item), pending' \in Seq(Piece), wire' \in Seq(Piece),
           UNCHANGED <<child, ambient, asked, task, context, answers, accepted>>,
           Piled(v, asked), Lined(s, v),
           \A i \in DOMAIN s : Faithful(s[i], asked, DOMAIN answers),
           \A n \in DOMAIN asked : Behind(n, inbox, pending \o wire) => Behind(n, s, v)
    PROVE  BridgeInv'
<1>1. BridgeTyped'
  BY DEF BridgeInv, BridgeTyped
<1>2. DOMAIN answers \subseteq DOMAIN asked
  BY DEF BridgeInv, BridgeTyped
<1>3. StreamInv'
  BY <1>2 DEF BridgeInv, StreamInv
<1>4. TaskInv'
  BY DEF BridgeInv, TaskInv, AtWork, Busy
<1> QED
  BY <1>1, <1>3, <1>4 DEF BridgeInv, AnswerOf, Bridge!ReceiptsAreOwn

(* Where the elements of a sequence are when another is joined to it.      *)
LEMMA Fore ==
    ASSUME NEW S, NEW s \in Seq(S), NEW t \in Seq(S), NEW i \in DOMAIN s
    PROVE  i \in DOMAIN (s \o t) /\ (s \o t)[i] = s[i]
BY Joined

(* And those of the other.                                                 *)
LEMMA Aft ==
    ASSUME NEW S, NEW s \in Seq(S), NEW t \in Seq(S), NEW i \in DOMAIN t
    PROVE  /\ i \in Nat /\ i >= 1 /\ Len(s) + i \in DOMAIN (s \o t)
           /\ (s \o t)[Len(s) + i] = t[i]
<1>1. i \in Nat /\ i >= 1
  BY LenProperties
<1> QED
  BY <1>1, Joined

(* The first two of three sequences are the beginning of them all.         *)
LEMMA Three ==
    ASSUME NEW S, NEW s \in Seq(S), NEW t \in Seq(S), NEW u \in Seq(S)
    PROVE  \A i \in DOMAIN (s \o t) :
              /\ i \in DOMAIN (s \o (t \o u))
              /\ (s \o (t \o u))[i] = (s \o t)[i]
<1>1. (s \o t) \o u = s \o (t \o u)
  BY ConcatAssociative
<1> DEFINE a == s \o t
<1>2. a \in Seq(S)
  BY ConcatProperties
<1> HIDE DEF a
<1>3. \A i \in DOMAIN a : i \in DOMAIN (a \o u) /\ (a \o u)[i] = a[i]
  BY <1>2, Fore
<1>4. a = s \o t
  BY Zenon DEF a
<1> QED
  BY <1>1, <1>3, <1>4, Zenon

(* A sequence is its first elements and the rest.                          *)
LEMMA Halves ==
    ASSUME NEW S, NEW s \in Seq(S), NEW n \in Nat, n <= Len(s)
    PROVE  /\ SubSeq(s, 1, n) \in Seq(S) /\ SubSeq(s, n + 1, Len(s)) \in Seq(S)
           /\ Len(SubSeq(s, 1, n)) = n
           /\ SubSeq(s, 1, n) \o SubSeq(s, n + 1, Len(s)) = s
<1>1. Len(s) \in Nat /\ 0 \in Nat /\ 0 <= n
  BY LenProperties
<1>2. SubSeq(s, 0 + 1, n) \in Seq(S) /\ Len(SubSeq(s, 0 + 1, n)) = n - 0
  BY <1>1, Cut
<1>3. SubSeq(s, n + 1, Len(s)) \in Seq(S)
  BY <1>1, Cut
<1>4. SubSeq(s, 1, n) \o SubSeq(s, n + 1, Len(s)) = SubSeq(s, 1, Len(s))
  <2>1. 1 \in 1..Len(s) + 1 /\ n \in 1 - 1..Len(s) /\ Len(s) \in n..Len(s)
    BY <1>1
  <2> QED
    BY <2>1, ConcatAdjacentSubSeq
<1>5. SubSeq(s, 1, Len(s)) = s
  BY SubSeqFull
<1>6. SubSeq(s, 1, n) \in Seq(S) /\ Len(SubSeq(s, 1, n)) = n
  BY <1>2
<1> QED
  BY <1>3, <1>4, <1>5, <1>6, Zenon

(* The instance of the bridge counts as the run does.                      *)
LEMMA SameCardinality == \A S : Bridge!Cardinality(S) = Cardinality(S)
BY DEF Bridge!Cardinality, Cardinality

(* The bridge reads a chunk.                                               *)
LEMMA ReadKeeps == ASSUME BridgeInv, NEW k, Bridge!Read(k) PROVE BridgeInv'
<1> DEFINE w == pending \o wire
           part == SubSeq(wire, 1, k)
           buffer == pending \o SubSeq(wire, 1, k)
           rest == SubSeq(wire, k + 1, Len(wire))
           ends == {i \in DOMAIN buffer : buffer[i][2] = "newline"}
           c == Bridge!Cardinality(ends)
           NewOf(n) == [n |-> n, message |-> Bridge!Bridged(asked[n])]
<1>1. PICK line \in [1..c -> ends], last \in ends \cup {0} :
         /\ \A i, j \in DOMAIN line : i < j => line[i] < line[j]
         /\ \A i \in ends : i <= last
         /\ inbox' = inbox \o [i \in DOMAIN line |-> NewOf(buffer[line[i]][1])]
         /\ pending' = SubSeq(buffer, last + 1, Len(buffer))
  BY Zenon DEF Bridge!Read
<1>2. /\ k \in 1..Len(wire) /\ wire' = rest
      /\ UNCHANGED <<child, ambient, asked, task, context, answers, accepted>>
  BY Zenon DEF Bridge!Read
<1> DEFINE fresh == [i \in DOMAIN line |-> NewOf(buffer[line[i]][1])]
           prefix == SubSeq(buffer, 1, last)
           left == SubSeq(buffer, last + 1, Len(buffer))
           v == left \o rest
           s == inbox \o fresh
<1>3. /\ w = pending \o wire /\ part = SubSeq(wire, 1, k) /\ buffer = pending \o part
      /\ rest = SubSeq(wire, k + 1, Len(wire)) /\ prefix = SubSeq(buffer, 1, last)
      /\ left = SubSeq(buffer, last + 1, Len(buffer)) /\ v = left \o rest
      /\ s = inbox \o fresh /\ inbox' = s /\ pending' = left
  BY <1>1, Zenon
<1>4. /\ line \in [1..c -> ends] /\ last \in ends \cup {0}
      /\ \A i, j \in DOMAIN line : i < j => line[i] < line[j]
      /\ \A i \in ends : i <= last
  BY <1>1, Zenon
<1> HIDE DEF w, part, buffer, rest, ends, c, NewOf, fresh, prefix, left, v, s
<1>5. /\ pending \in Seq(Piece) /\ wire \in Seq(Piece) /\ inbox \in Seq(Item)
      /\ asked \in Seq(Bridge!Messages)
  BY DEF BridgeInv, BridgeTyped
<1>6. /\ part \in Seq(Piece) /\ rest \in Seq(Piece) /\ part \o rest = wire
  <2>1. k \in Nat /\ k <= Len(wire)
    BY <1>2, <1>5, LenProperties
  <2>2. /\ SubSeq(wire, 1, k) \in Seq(Piece)
        /\ SubSeq(wire, k + 1, Len(wire)) \in Seq(Piece)
        /\ SubSeq(wire, 1, k) \o SubSeq(wire, k + 1, Len(wire)) = wire
    BY <1>5, <2>1, Halves
  <2> QED
    BY <1>3, <2>2, Zenon
<1>7. /\ buffer \in Seq(Piece) /\ Len(buffer) \in Nat /\ DOMAIN buffer = 1..Len(buffer)
  <2>1. pending \o part \in Seq(Piece)
    BY <1>5, <1>6, ConcatProperties
  <2>2. buffer \in Seq(Piece)
    BY <1>3, <2>1, Zenon
  <2> QED
    BY <2>2, LenProperties
<1>8. ends \subseteq 1..Len(buffer) /\ last \in Nat /\ last <= Len(buffer)
  <2>1. ends \subseteq 1..Len(buffer)
    BY <1>7 DEF ends
  <2> QED
    BY <1>4, <1>7, <2>1
<1>9. /\ prefix \in Seq(Piece) /\ left \in Seq(Piece) /\ Len(prefix) = last
      /\ prefix \o left = buffer
  <2>1. /\ SubSeq(buffer, 1, last) \in Seq(Piece)
        /\ SubSeq(buffer, last + 1, Len(buffer)) \in Seq(Piece)
        /\ Len(SubSeq(buffer, 1, last)) = last
        /\ SubSeq(buffer, 1, last) \o SubSeq(buffer, last + 1, Len(buffer)) = buffer
    <3>1. buffer \in Seq(Piece) /\ last \in Nat /\ last <= Len(buffer)
      BY <1>7, <1>8
    <3> QED
      BY <3>1, Halves
  <2> QED
    BY <1>3, <2>1, Zenon
<1>10. \A i \in DOMAIN buffer : i \in DOMAIN w /\ w[i] = buffer[i]
  <2>1. \A i \in DOMAIN (pending \o part) :
           /\ i \in DOMAIN (pending \o (part \o rest))
           /\ (pending \o (part \o rest))[i] = (pending \o part)[i]
    <3>1. pending \in Seq(Piece) /\ part \in Seq(Piece) /\ rest \in Seq(Piece)
      BY <1>5, <1>6, Zenon
    <3> QED
      BY <3>1, Three
  <2> QED
    BY <1>3, <1>6, <2>1, Zenon
<1>11. \A j \in DOMAIN v : /\ j \in Nat /\ j >= 1 /\ last + j \in DOMAIN w
                         /\ v[j] = w[last + j]
  <2>1. (pending \o part) \o rest = pending \o (part \o rest)
    <3>1. pending \in Seq(Piece) /\ part \in Seq(Piece) /\ rest \in Seq(Piece)
      BY <1>5, <1>6, Zenon
    <3> QED
      BY <3>1, ConcatAssociative
  <2>2. (prefix \o left) \o rest = prefix \o (left \o rest)
    <3>1. prefix \in Seq(Piece) /\ left \in Seq(Piece) /\ rest \in Seq(Piece)
      BY <1>6, <1>9, Zenon
    <3> QED
      BY <3>1, ConcatAssociative
  <2>3. w = prefix \o v
    BY <1>3, <1>6, <1>9, <2>1, <2>2, Zenon
  <2>4. v \in Seq(Piece)
    <3>1. left \in Seq(Piece) /\ rest \in Seq(Piece)
      BY <1>6, <1>9, Zenon
    <3>2. left \o rest \in Seq(Piece)
      BY <3>1, ConcatProperties
    <3> QED
      BY <1>3, <3>2, Zenon
  <2>5. prefix \in Seq(Piece)
    BY <1>9
  <2>6. \A j \in DOMAIN v :
           /\ j \in Nat /\ j >= 1 /\ Len(prefix) + j \in DOMAIN (prefix \o v)
           /\ (prefix \o v)[Len(prefix) + j] = v[j]
    BY <2>4, <2>5, Aft
  <2> QED
    BY <1>9, <2>3, <2>6, Zenon
<1>12. c \in Nat
  <2>1. IsFiniteSet(1..Len(buffer))
    <3> DEFINE z == Len(buffer)
    <3>1. z \in Nat
      BY <1>7
    <3> HIDE DEF z
    <3>2. IsFiniteSet(1..z)
      BY <3>1, FS_Interval
    <3> QED
      BY <3>2 DEF z
  <2>2. IsFiniteSet(ends)
    BY <1>8, <2>1, FS_Subset
  <2>3. Cardinality(ends) \in Nat
    BY <2>2, FS_CardinalityType
  <2> QED
    BY <2>3, SameCardinality DEF c
<1>13. /\ (pending \o wire)' = v /\ pending' \in Seq(Piece) /\ wire' \in Seq(Piece)
  BY <1>2, <1>3, <1>6, <1>9, Zenon
<1>14. Piled(w, asked) /\ Lined(inbox, w)
  BY DEF BridgeInv, StreamInv, w
<1>15. /\ Piled(v, asked) /\ Lined(inbox, v)
       /\ \A n : Behind(n, inbox, w) => Behind(n, inbox, v)
  BY <1>8, <1>11, CutStream DEF w
<1>16. ASSUME NEW i \in 1..c
       PROVE  /\ line[i] \in DOMAIN w /\ line[i] \in Nat /\ line[i] <= last
              /\ w[line[i]][2] = "newline" /\ w[line[i]][1] \in DOMAIN asked
              /\ fresh[i] = NewOf(w[line[i]][1])
  <2>1. line[i] \in ends /\ DOMAIN line = 1..c
    BY <1>4
  <2>2. line[i] \in DOMAIN buffer /\ buffer[line[i]][2] = "newline"
    BY <2>1 DEF ends
  <2>3. line[i] \in Nat /\ line[i] <= last
    <3>1. line[i] \in 1..Len(buffer)
      BY <1>8, <2>1
    <3>2. line[i] <= last
      BY <1>4, <2>1, Zenon
    <3> QED
      BY <1>7, <3>1, <3>2
  <2>4. line[i] \in DOMAIN w /\ w[line[i]] = buffer[line[i]]
    BY <1>10, <2>2
  <2>5. fresh[i] = NewOf(buffer[line[i]][1])
    BY <2>1 DEF fresh
  <2>6. w[line[i]][1] \in DOMAIN asked
    BY <1>14, <2>4 DEF Piled
  <2> QED
    BY <2>2, <2>3, <2>4, <2>5, <2>6
<1>17. ASSUME NEW i \in 1..c
       PROVE  /\ fresh[i] \in Item /\ fresh[i].n = w[line[i]][1]
              /\ Faithful(fresh[i], asked, DOMAIN answers)
  <2> DEFINE n == w[line[i]][1]
  <2>1. n \in DOMAIN asked /\ fresh[i] = NewOf(n)
    BY <1>16
  <2> HIDE DEF n
  <2>2. n \in Nat /\ asked[n] \in Bridge!Messages
    <3>1. DOMAIN asked = 1..Len(asked) /\ Len(asked) \in Nat
      BY <1>5, LenProperties
    <3>2. n \in 1..Len(asked)
      BY <2>1, <3>1
    <3> QED
      BY <1>5, <3>1, <3>2, ElementOfSeq
  <2>3. Bridge!Bridged(asked[n]) \in Sent /\ Bridge!Bridged(asked[n]).form = asked[n].form
        /\ Bridge!Bridged(asked[n]).of = asked[n].of
    BY <2>2, BridgedIs
  <2>4. asked[n].form = "hook" => asked[n].of \in DOMAIN answers
    BY <2>1 DEF BridgeInv, StreamInv
  <2>5. /\ fresh[i] \in Item /\ fresh[i].n = n
        /\ fresh[i].message = Bridge!Bridged(asked[n])
    BY <2>1, <2>2, <2>3 DEF Item, NewOf
  <2> QED
    BY <2>1, <2>3, <2>4, <2>5 DEF Faithful, n
<1>18. fresh \in Seq(Item) /\ DOMAIN fresh = 1..c /\ Len(fresh) = c
  <2>1. DOMAIN fresh = 1..c /\ fresh = [i \in DOMAIN fresh |-> fresh[i]]
    BY <1>4 DEF fresh
  <2>2. fresh \in [1..c -> Item]
    BY <1>17, <2>1
  <2> QED
    BY <1>12, <2>1, <2>2
<1>19. /\ s \in Seq(Item) /\ DOMAIN inbox = 1..Len(inbox) /\ Len(inbox) \in Nat
       /\ \A i \in DOMAIN s : \/ i \in DOMAIN inbox
                              \/ i - Len(inbox) \in 1..c /\ s[i] = fresh[i - Len(inbox)]
       /\ \A i \in DOMAIN inbox : s[i] = inbox[i]
       /\ DOMAIN s = 1..Len(inbox) + c
  <2>1. inbox \in Seq(Item) /\ fresh \in Seq(Item)
    BY <1>5, <1>18
  <2>2. /\ inbox \o fresh \in Seq(Item)
        /\ DOMAIN inbox = 1..Len(inbox) /\ Len(inbox) \in Nat
        /\ DOMAIN (inbox \o fresh) = 1..Len(inbox) + Len(fresh)
        /\ \A i \in DOMAIN inbox : (inbox \o fresh)[i] = inbox[i]
        /\ \A i \in DOMAIN (inbox \o fresh) :
              \/ i \in DOMAIN inbox
              \/ i - Len(inbox) \in DOMAIN fresh
                 /\ (inbox \o fresh)[i] = fresh[i - Len(inbox)]
    BY <2>1, Joined
  <2> QED
    BY <1>18, <2>2 DEF s
<1>20. \A i \in DOMAIN s : Faithful(s[i], asked, DOMAIN answers)
  BY <1>17, <1>19 DEF BridgeInv, StreamInv
<1>21. ASSUME NEW n, Behind(n, inbox, w) PROVE Behind(n, s, v)
  <2>1. Behind(n, inbox, v)
    BY <1>15, <1>21
  <2>2. ASSUME NEW i \in DOMAIN s PROVE n < s[i].n
    BY <1>16, <1>17, <1>19, <1>21 DEF Behind
  <2> QED
    BY <2>1, <2>2 DEF Behind
<1>22. Lined(s, v)
  <2>1. ASSUME NEW i \in DOMAIN s, NEW j \in DOMAIN s, i < j PROVE s[i].n < s[j].n
    <3>1. CASE j \in DOMAIN inbox
      <4>1. i \in DOMAIN inbox
        BY <1>19, <2>1, <3>1
      <4> QED
        BY <1>14, <1>19, <2>1, <3>1, <4>1 DEF Lined
    <3>2. CASE i \in DOMAIN inbox /\ j \notin DOMAIN inbox
      <4>1. j - Len(inbox) \in 1..c /\ s[j] = fresh[j - Len(inbox)] /\ s[i] = inbox[i]
        BY <1>19, <3>2
      <4>2. line[j - Len(inbox)] \in DOMAIN w /\ s[j].n = w[line[j - Len(inbox)]][1]
        BY <1>16, <1>17, <4>1
      <4> QED
        BY <1>14, <3>2, <4>1, <4>2 DEF Lined
    <3>3. CASE i \notin DOMAIN inbox /\ j \notin DOMAIN inbox
      <4> DEFINE g == i - Len(inbox)
                 h == j - Len(inbox)
      <4>1. g \in 1..c /\ h \in 1..c /\ s[i] = fresh[g] /\ s[j] = fresh[h] /\ g < h
        BY <1>19, <2>1, <3>3
      <4> HIDE DEF g, h
      <4>2. line[g] < line[h] /\ line[g] \in DOMAIN w /\ line[h] \in DOMAIN w
            /\ w[line[g]][2] = "newline"
        BY <1>4, <1>16, <4>1
      <4>3. w[line[g]][1] < w[line[h]][1]
        BY <1>14, <4>2 DEF Piled
      <4> QED
        BY <1>17, <4>1, <4>3
    <3> QED
      BY <3>1, <3>2, <3>3
  <2>2. ASSUME NEW i \in DOMAIN s, NEW j \in DOMAIN v PROVE s[i].n < v[j][1]
    <3>1. CASE i \in DOMAIN inbox
      BY <1>15, <1>19, <3>1 DEF Lined
    <3>2. CASE i \notin DOMAIN inbox
      <4> DEFINE g == i - Len(inbox)
      <4>1. g \in 1..c /\ s[i] = fresh[g]
        BY <1>19, <3>2
      <4> HIDE DEF g
      <4>2. /\ line[g] \in DOMAIN w /\ line[g] \in Nat /\ line[g] <= last
            /\ w[line[g]][2] = "newline" /\ s[i].n = w[line[g]][1]
        BY <1>16, <1>17, <4>1
      <4>3. last + j \in DOMAIN w /\ v[j] = w[last + j] /\ line[g] < last + j
        BY <1>11, <1>8, <4>2
      <4> QED
        BY <1>14, <4>2, <4>3 DEF Piled
    <3> QED
      BY <3>1, <3>2
  <2> QED
    BY <2>1, <2>2 DEF Lined
<1> QED
  BY <1>2, <1>13, <1>15, <1>19, <1>3, <1>20, <1>21, <1>22, NewLines DEF w

(* A message about nothing is one that Codex may write.                    *)
LEMMA NoiseIs ==
    ASSUME Bridge!BridgeAssumption, NEW form \in Bridge!Forms, NEW by \in Threads
    PROVE  /\ Bridge!Message(form, by) \in Bridge!Messages
           /\ Bridge!Message(form, by).form = form
           /\ Bridge!Message(form, by).by = by /\ Bridge!Message(form, by).of = 0
<1>1. 0 \in 0..MaxLines
  BY DEF Bridge!BridgeAssumption
<1>2. <<>> \in Seq(Threads \cup {Bad})
  BY EmptySeq
<1> QED
  BY <1>1, <1>2 DEF Bridge!Message, Bridge!Messages

(* The bridge is told that no more comes.                                  *)
LEMMA FlushKeeps ==
    ASSUME BridgeInv, Bridge!BridgeAssumption, Bridge!Flush
    PROVE BridgeInv'
<1> DEFINE w == pending \o wire
           n == pending[1][1]
<1>1. PICK message \in {Bridge!Bridged(asked[n]), Bridge!Message("noise", asked[n].by)} :
         inbox' = Append(inbox, [n |-> n, message |-> message])
  BY DEF Bridge!Flush
<1>2. /\ wire = <<>> /\ pending # <<>> /\ pending' = <<>> /\ wire' = <<>>
      /\ UNCHANGED <<child, ambient, asked, task, context, answers, accepted>>
  BY DEF Bridge!Flush
<1>3. pending \in Seq(Piece) /\ inbox \in Seq(Item) /\ asked \in Seq(Bridge!Messages)
  BY DEF BridgeInv, BridgeTyped
<1>4. w = pending
  BY <1>2, <1>3, ConcatEmptySeq
<1>5. Piled(w, asked) /\ Lined(inbox, w)
  BY DEF BridgeInv, StreamInv
<1>6. 1 \in DOMAIN w /\ w[1][1] = n
  <2>1. DOMAIN pending = 1..Len(pending) /\ Len(pending) \in Nat \ {0}
    BY <1>2, <1>3, EmptySeq, LenProperties
  <2>2. 1 \in DOMAIN pending
    BY <2>1
  <2> QED
    BY <1>4, <2>2
<1> HIDE DEF w
<1>7. n \in DOMAIN asked
  BY <1>5, <1>6 DEF Piled
<1> HIDE DEF n
<1>8. n \in Nat /\ asked[n] \in Bridge!Messages
  <2>1. DOMAIN asked = 1..Len(asked) /\ Len(asked) \in Nat
    BY <1>3, LenProperties
  <2>2. n \in 1..Len(asked)
    BY <1>7, <2>1
  <2> QED
    BY <1>3, <2>1, <2>2, ElementOfSeq
<1>9. Bridge!Bridged(asked[n]) \in Sent /\ Bridge!Bridged(asked[n]).form = asked[n].form
      /\ Bridge!Bridged(asked[n]).of = asked[n].of
  BY <1>8, BridgedIs
<1>10. /\ Bridge!Message("noise", asked[n].by) \in Sent
       /\ Bridge!Message("noise", asked[n].by).form = "noise"
  <2>1. asked[n].by \in Threads /\ "noise" \in Bridge!Forms
    BY <1>8 DEF Bridge!Messages, Bridge!Forms
  <2> QED
    BY <2>1, NoiseIs DEF Sent
<1> DEFINE e == [n |-> n, message |-> message]
<1>11. e \in Item /\ e.n = n /\ e.message = message
  BY <1>8, <1>9, <1>10 DEF Item
<1> HIDE DEF e
<1>12. Faithful(e, asked, DOMAIN answers)
  <2>1. asked[n].form = "hook" => asked[n].of \in DOMAIN answers
    BY <1>7 DEF BridgeInv, StreamInv
  <2> QED
    BY <1>7, <1>9, <1>10, <1>11, <2>1 DEF Faithful
<1> DEFINE s == Append(inbox, e)
<1>13. /\ s \in Seq(Item) /\ DOMAIN inbox = 1..Len(inbox) /\ Len(inbox) \in Nat
       /\ DOMAIN s = DOMAIN inbox \cup {Len(inbox) + 1} /\ s[Len(inbox) + 1] = e
       /\ \A i \in DOMAIN inbox : s[i] = inbox[i]
  BY <1>3, <1>11, Longer
<1>14. inbox' = s
  BY <1>1 DEF e
<1> HIDE DEF s
<1>15. \A i \in DOMAIN s : Faithful(s[i], asked, DOMAIN answers)
  BY <1>12, <1>13 DEF BridgeInv, StreamInv
<1>16. \A i \in DOMAIN inbox : inbox[i].n < n
  BY <1>5, <1>6 DEF Lined
<1>17. Lined(s, <<>>)
  <2>1. ASSUME NEW i \in DOMAIN s, NEW j \in DOMAIN s, i < j PROVE s[i].n < s[j].n
    <3>1. CASE j \in DOMAIN inbox
      <4>1. i \in DOMAIN inbox
        BY <1>13, <2>1, <3>1
      <4> QED
        BY <1>5, <1>13, <2>1, <3>1, <4>1 DEF Lined
    <3>2. CASE j \notin DOMAIN inbox
      <4>1. i \in DOMAIN inbox /\ s[j] = e
        BY <1>13, <2>1, <3>2
      <4> QED
        BY <1>11, <1>13, <1>16, <4>1
    <3> QED
      BY <3>1, <3>2
  <2> QED
    BY <2>1 DEF Lined
<1>18. ASSUME NEW m, Behind(m, inbox, w) PROVE Behind(m, s, <<>>)
  <2>1. m < n
    BY <1>6, <1>18 DEF Behind
  <2> QED
    BY <1>11, <1>13, <1>18, <2>1 DEF Behind
<1>19. Piled(<<>>, asked)
  BY DEF Piled
<1>20. (pending \o wire)' = <<>> /\ <<>> \in Seq(Piece)
  BY <1>2, EmptySeq
<1> QED
  BY <1>2, <1>13, <1>14, <1>15, <1>17, <1>18, <1>19, <1>20, NewLines DEF w

(* The server takes a message.                                             *)
LEMMA Taken ==
    ASSUME BridgeInv, Bridge!Take, UNCHANGED <<pending, wire>>
    PROVE  /\ inbox' \in Seq(Item) /\ Head(inbox) \in Item
           /\ Lined(inbox', pending \o wire)
           /\ \A i \in DOMAIN inbox' : Faithful(inbox'[i], asked, DOMAIN answers)
           /\ Faithful(Head(inbox), asked, DOMAIN answers)
           /\ Behind(Head(inbox).n, inbox', pending \o wire)
           /\ \A n : Behind(n, inbox, pending \o wire)
                     => Behind(n, inbox', pending \o wire) /\ n < Head(inbox).n
<1> DEFINE w == pending \o wire
           s == Tail(inbox)
           e == Head(inbox)
<1>1. inbox \in Seq(Item) /\ inbox # <<>> /\ inbox' = s
  BY DEF Bridge!Take, BridgeInv, BridgeTyped
<1>2. /\ e \in Item /\ s \in Seq(Item) /\ Len(s) = Len(inbox) - 1
      /\ \A i \in 1..Len(s) : s[i] = inbox[i + 1]
  BY <1>1, HeadTailProperties
<1>3. DOMAIN s = 1..Len(s) /\ DOMAIN inbox = 1..Len(inbox) /\ Len(inbox) \in Nat \ {0}
  BY <1>1, <1>2, LenProperties, EmptySeq
<1>4. e = inbox[1]
  BY <1>1
<1> HIDE DEF s, e, w
<1>5. /\ 1 \in DOMAIN inbox
      /\ \A i \in DOMAIN s : /\ i + 1 \in DOMAIN inbox /\ s[i] = inbox[i + 1]
                                             /\ i \in Nat /\ 1 < i + 1
  BY <1>2, <1>3
<1>6. Lined(inbox, w)
  BY DEF BridgeInv, StreamInv, w
<1>7. Lined(s, w)
  BY <1>5, <1>6 DEF Lined
<1>8. \A i \in DOMAIN s : Faithful(s[i], asked, DOMAIN answers)
  BY <1>5 DEF BridgeInv, StreamInv
<1>9. Faithful(e, asked, DOMAIN answers)
  BY <1>4, <1>5 DEF BridgeInv, StreamInv
<1>10. Behind(e.n, s, w)
  BY <1>4, <1>5, <1>6 DEF Lined, Behind
<1>11. \A n : Behind(n, inbox, w) => Behind(n, s, w) /\ n < e.n
  BY <1>4, <1>5 DEF Behind
<1> QED
  BY <1>1, <1>2, <1>7, <1>8, <1>9, <1>10, <1>11, Zenon DEF w, e

(* The server leaves a message alone.                                      *)
LEMMA SkipKeeps == ASSUME BridgeInv, Bridge!Skip PROVE BridgeInv'
<1>1. /\ Bridge!Take
      /\ UNCHANGED <<child, ambient, asked, wire, closed, pending, task, context,
                                    answers, accepted>>
  BY DEF Bridge!Skip
<1>2. /\ inbox' \in Seq(Item) /\ Lined(inbox', pending \o wire)
      /\ \A i \in DOMAIN inbox' : Faithful(inbox'[i], asked, DOMAIN answers)
      /\ \A n : Behind(n, inbox, pending \o wire) => Behind(n, inbox', pending \o wire)
  BY <1>1, Taken
<1>3. /\ Piled(pending \o wire, asked) /\ pending' \in Seq(Piece) /\ wire' \in Seq(Piece)
      /\ (pending \o wire)' = pending \o wire
  BY <1>1 DEF BridgeInv, BridgeTyped, StreamInv
<1> QED
  BY <1>1, <1>2, <1>3, NewLines

(* A task begins a call, or makes the coroutine that will.                 *)
LEMMA CallKeeps ==
    ASSUME BridgeInv, NEW t \in Tasks, NEW async \in BOOLEAN, Bridge!Call(t, async)
    PROVE  BridgeInv'
<1> DEFINE w == pending \o wire
           e == Head(inbox)
           n == e.n
           own == Bridge!ThreadIdFromMeta(asked[n].meta)
           job == [at |-> IF async THEN "made" ELSE "in", n |-> n,
                   before |-> IF async THEN e.message.carrier ELSE context[t]]
           bound == IF async THEN context ELSE
               [context EXCEPT ![t] = Bridge!Bound(t, e.message.carrier)]
<1>1. /\ Bridge!Take /\ e.message.form = "session" /\ task[t].at = "idle"
      /\ task' = [task EXCEPT ![t] = job] /\ context' = bound
      /\ UNCHANGED <<child, ambient, asked, wire, closed, pending, answers, accepted>>
  BY Zenon DEF Bridge!Call
<1>2. /\ inbox' \in Seq(Item) /\ e \in Item /\ Lined(inbox', w)
      /\ \A i \in DOMAIN inbox' : Faithful(inbox'[i], asked, DOMAIN answers)
      /\ Faithful(e, asked, DOMAIN answers) /\ Behind(n, inbox', w)
      /\ \A m : Behind(m, inbox, w) => Behind(m, inbox', w) /\ m < n
  BY <1>1, Taken
<1> HIDE DEF e
<1>3. /\ n \in DOMAIN asked /\ n \in Nat /\ asked[n] \in Bridge!Messages
  <2>1. n \in DOMAIN asked /\ asked \in Seq(Bridge!Messages)
    BY <1>2 DEF Faithful, BridgeInv, BridgeTyped
  <2>2. DOMAIN asked = 1..Len(asked) /\ Len(asked) \in Nat
    BY <2>1, LenProperties
  <2> HIDE DEF n
  <2>3. n \in 1..Len(asked)
    BY <2>1, <2>2
  <2> QED
    BY <2>1, <2>2, <2>3, ElementOfSeq
<1>4. e.message = Bridge!Bridged(asked[n])
  BY <1>1, <1>2 DEF Faithful
<1>5. asked[n].form = "session" /\ e.message.carrier = own /\ own \in Ids
  BY <1>1, <1>3, <1>4, BridgedIs
<1>6. n \notin DOMAIN answers
  <2> SUFFICES ASSUME n \in DOMAIN answers PROVE FALSE
    OBVIOUS
  <2>1. Behind(n, inbox, w)
    BY DEF BridgeInv, StreamInv
  <2>2. n < n
    BY <1>2, <2>1
  <2> HIDE DEF n
  <2> QED
    BY <1>3, <2>2
<1>7. context[t] = NoThread /\ task \in [Tasks -> Job] /\ context \in [Tasks -> Ids]
  BY <1>1 DEF BridgeInv, BridgeTyped, TaskInv, AtWork
<1>8. Bridge!Bound(t, e.message.carrier) = own
  BY <1>5, <1>7 DEF Bridge!Bound
<1>9. job \in Job /\ job.at = (IF async THEN "made" ELSE "in") /\ job.n = n
      /\ job.before = IF async THEN own ELSE NoThread
  BY <1>3, <1>5, <1>7 DEF Job
<1> HIDE DEF n, own, job
<1>10. /\ task' \in [Tasks -> Job] /\ task'[t] = job
       /\ \A u \in Tasks : u # t => task'[u] = task[u]
  BY <1>1, <1>7, <1>9
<1>11. /\ context' \in [Tasks -> Ids] /\ context'[t] = IF async THEN NoThread ELSE own
       /\ \A u \in Tasks : u # t => context'[u] = context[u]
  BY <1>1, <1>5, <1>7, <1>8
<1> HIDE DEF bound
<1>12. BridgeTyped'
  BY <1>1, <1>2, <1>10, <1>11 DEF BridgeInv, BridgeTyped
<1>13. StreamInv'
  BY <1>1, <1>2 DEF BridgeInv, StreamInv
<1>14. AtWork(t)'
  <2>1. own = Bridge!ThreadIdFromMeta(asked[n].meta)
    BY DEF own
  <2> QED
    BY <1>1, <1>2, <1>3, <1>5, <1>6, <1>9, <1>10, <1>11, <2>1 DEF AtWork
<1>15. ASSUME NEW u \in Tasks, u # t PROVE AtWork(u)' /\ (Busy(u) => task[u].n < n)
  <2>1. AtWork(u)
    BY DEF BridgeInv, TaskInv
  <2>2. task[u].at # "idle" => Behind(task[u].n, inbox, w)
    BY <2>1 DEF AtWork
  <2>3. task[u].at # "idle" => Behind(task[u].n, inbox', w) /\ task[u].n < n
    BY <1>2, <2>2
  <2>4. task'[u] = task[u] /\ context'[u] = context[u]
    BY <1>10, <1>11, <1>15
  <2> QED
    BY <1>1, <2>1, <2>3, <2>4 DEF AtWork, Busy
<1>16. TaskInv'
  <2>1. ASSUME NEW u \in Tasks, NEW x \in Tasks, u # x, Busy(u)', Busy(x)'
        PROVE  task'[u].n # task'[x].n
    <3>1. CASE u = t
      <4>1. task[x].n < n /\ task'[x].n = task[x].n /\ task'[u].n = n
        BY <1>9, <1>10, <1>15, <2>1, <3>1 DEF Busy
      <4> QED
        BY <1>3, <4>1
    <3>2. CASE x = t
      <4>1. task[u].n < n /\ task'[u].n = task[u].n /\ task'[x].n = n
        BY <1>9, <1>10, <1>15, <2>1, <3>2 DEF Busy
      <4> QED
        BY <1>3, <4>1
    <3>3. CASE u # t /\ x # t
      BY <1>10, <2>1, <3>3 DEF BridgeInv, TaskInv, Busy
    <3> QED
      BY <3>1, <3>2, <3>3
  <2>2. \A u \in Tasks : AtWork(u)'
    BY <1>14, <1>15
  <2> QED
    BY <2>1, <2>2 DEF TaskInv
<1> QED
  BY <1>1, <1>12, <1>13, <1>16 DEF BridgeInv, AnswerOf, Bridge!ReceiptsAreOwn

(* The coroutine begins.                                                   *)
LEMMA AwaitKeeps == ASSUME BridgeInv, NEW t \in Tasks, Bridge!Await(t) PROVE BridgeInv'
<1> DEFINE own == Bridge!ThreadIdFromMeta(asked[task[t].n].meta)
<1>1. /\ task[t].at = "made"
      /\ context' = [context EXCEPT ![t] = Bridge!Bound(t, task[t].before)]
      /\ task' = [task EXCEPT ![t] = [at |-> "in", n |-> @.n, before |-> context[t]]]
      /\ UNCHANGED <<child, ambient, asked, wire, closed, pending, inbox>>
      /\ UNCHANGED <<answers, accepted>>
  BY DEF Bridge!Await
<1>2. /\ task \in [Tasks -> Job] /\ context \in [Tasks -> Ids] /\ task[t] \in Job
      /\ AtWork(t) /\ context[t] \in Ids
  BY DEF BridgeInv, BridgeTyped, TaskInv
<1>3. context[t] = NoThread /\ task[t].before = own
  BY <1>1, <1>2 DEF AtWork
<1>4. Bridge!Bound(t, task[t].before) = own /\ own \in Ids
  <2>1. task[t].before \in Ids
    BY <1>2 DEF Job
  <2> QED
    BY <1>3, <2>1 DEF Bridge!Bound
<1> DEFINE job == [at |-> "in", n |-> task[t].n, before |-> NoThread]
<1>7. task' = [task EXCEPT ![t] = job]
  BY <1>1, <1>2, <1>3
<1>8. job \in Job /\ job.at = "in" /\ job.n = task[t].n /\ job.before = NoThread
  BY <1>2, <1>3 DEF Job
<1> HIDE DEF job
<1>9. /\ task' \in [Tasks -> Job] /\ task'[t] = job
      /\ \A u \in Tasks : u # t => task'[u] = task[u]
  BY <1>2, <1>7, <1>8
<1>10. /\ context' \in [Tasks -> Ids] /\ context'[t] = own
       /\ \A u \in Tasks : u # t => context'[u] = context[u]
  BY <1>1, <1>2, <1>4
<1>11. BridgeTyped'
  BY <1>1, <1>9, <1>10 DEF BridgeInv, BridgeTyped
<1>12. StreamInv'
  BY <1>1 DEF BridgeInv, StreamInv
<1>13. TaskInv'
  <2>1. ASSUME NEW u \in Tasks
      PROVE AtWork(u)' /\ task'[u].n = task[u].n /\ (Busy(u)' => Busy(u))
    <3>1. AtWork(u)
      BY DEF BridgeInv, TaskInv
    <3>2. CASE u = t
      BY <1>1, <1>2, <1>8, <1>9, <1>10, <3>1, <3>2 DEF AtWork, Busy
    <3>3. CASE u # t
      BY <1>1, <1>9, <1>10, <3>1, <3>3 DEF AtWork, Busy
    <3> QED
      BY <3>2, <3>3
  <2> QED
    BY <2>1 DEF BridgeInv, TaskInv
<1> QED
  BY <1>1, <1>11, <1>12, <1>13 DEF BridgeInv, AnswerOf, Bridge!ReceiptsAreOwn

(* A handler answers.                                                      *)
LEMMA FinishKeeps ==
    ASSUME BridgeInv, NEW t \in Tasks, Bridge!Finish(t)
    PROVE BridgeInv'
<1> DEFINE n == task[t].n
           own == Bridge!ThreadIdFromMeta(asked[n].meta)
<1>1. /\ child = "running" /\ task[t].at = "in"
      /\ context' = [context EXCEPT ![t] = task[t].before]
      /\ task' = [task EXCEPT ![t] = Bridge!Idle]
      /\ UNCHANGED <<child, ambient, asked, wire, closed, pending, inbox, accepted>>
  BY DEF Bridge!Finish
<1>2. PICK result \in Bridge!Results :
         answers' = [m \in DOMAIN answers \cup {n} |->
                        IF m = n THEN Bridge!Answer(t, result) ELSE answers[m]]
  BY Zenon DEF Bridge!Finish
<1>3. /\ task \in [Tasks -> Job] /\ context \in [Tasks -> Ids] /\ AtWork(t)
      /\ DOMAIN answers \subseteq DOMAIN asked /\ accepted \subseteq DOMAIN answers
      /\ asked \in Seq(Bridge!Messages)
  BY DEF BridgeInv, BridgeTyped, TaskInv
<1>4. /\ context[t] = own /\ task[t].before = NoThread /\ n \in DOMAIN asked
      /\ n \notin DOMAIN answers /\ asked[n].form = "session"
      /\ Behind(n, inbox, pending \o wire)
  BY <1>1, <1>3 DEF AtWork
<1>5. asked[n] \in Bridge!Messages
  <2>1. DOMAIN asked = 1..Len(asked)
    BY <1>3, LenProperties
  <2> QED
    BY <1>3, <1>4, <2>1, ElementOfSeq
<1>6. Bridge!Idle \in Job /\ Bridge!Idle.at = "idle" /\ NoThread \in Ids
  BY DEF Bridge!Idle, Job, Ids
<1> HIDE DEF Bridge!Idle
<1>7. /\ task' \in [Tasks -> Job] /\ task'[t] = Bridge!Idle
      /\ \A u \in Tasks : u # t => task'[u] = task[u]
  BY <1>1, <1>3, <1>6
<1>8. /\ context' \in [Tasks -> Ids] /\ context'[t] = NoThread
      /\ \A u \in Tasks : u # t => context'[u] = context[u]
  BY <1>1, <1>3, <1>4, <1>6
<1>9. /\ answers'[n].scope = own
      /\ answers'[n].session = IF asked[n].given # NoThread THEN asked[n].given
                               ELSE IF own # NoThread THEN own ELSE ambient
  <2>1. answers'[n] = Bridge!Answer(t, result)
    BY <1>2
  <2> QED
    BY <1>4, <2>1 DEF Bridge!Answer
<1>10. /\ DOMAIN answers' = DOMAIN answers \cup {n}
       /\ \A m \in DOMAIN answers : answers'[m] = answers[m]
  BY <1>2, <1>4
<1> HIDE DEF n, own
<1>11. BridgeTyped'
  BY <1>1, <1>3, <1>4, <1>7, <1>8, <1>10 DEF BridgeInv, BridgeTyped
<1>12. StreamInv'
  <2>1. \A i \in DOMAIN inbox : Faithful(inbox[i], asked, DOMAIN answers \cup {n})
    BY DEF BridgeInv, StreamInv, Faithful
  <2> QED
    BY <1>1, <1>4, <1>10, <2>1 DEF BridgeInv, StreamInv
<1>13. TaskInv'
  <2>1. ASSUME NEW u \in Tasks PROVE AtWork(u)' /\ (u # t => task'[u].n = task[u].n)
                                     /\ (Busy(u)' => u # t /\ Busy(u))
    <3>1. AtWork(u)
      BY DEF BridgeInv, TaskInv
    <3>2. CASE u = t
      BY <1>6, <1>7, <1>8, <3>2 DEF AtWork, Busy
    <3>3. CASE u # t
      <4>1. task'[u] = task[u] /\ context'[u] = context[u]
        BY <1>7, <1>8, <3>3
      <4>2. task[u].at # "idle" => task[u].n # n
        BY <1>1, <3>3 DEF BridgeInv, TaskInv, Busy, n
      <4> QED
        BY <1>1, <1>10, <3>1, <3>3, <4>1, <4>2 DEF AtWork, Busy
    <3> QED
      BY <3>2, <3>3
  <2> QED
    BY <2>1 DEF BridgeInv, TaskInv
<1>14. (\A m \in DOMAIN answers : AnswerOf(m))'
  <2>1. ASSUME NEW m \in DOMAIN answers' PROVE AnswerOf(m)'
    <3>1. CASE m = n
      BY <1>1, <1>9, <3>1 DEF AnswerOf, own
    <3>2. CASE m # n
      <4>1. AnswerOf(m) /\ answers'[m] = answers[m]
        BY <1>10, <2>1, <3>2 DEF BridgeInv
      <4> QED
        BY <1>1, <4>1 DEF AnswerOf
    <3> QED
      BY <3>1, <3>2
  <2> QED
    BY <2>1
<1>15. Bridge!ReceiptsAreOwn'
  BY <1>1, <1>3, <1>10 DEF BridgeInv, Bridge!ReceiptsAreOwn
<1> QED
  BY <1>11, <1>12, <1>13, <1>14, <1>15 DEF BridgeInv

(* The hook of a thread judges an answer.                                  *)
LEMMA HookKeeps == ASSUME BridgeInv, Bridge!Hook PROVE BridgeInv'
<1> DEFINE w == pending \o wire
           n == Head(inbox).message.of
<1>1. /\ Bridge!Take /\ Head(inbox).message.form = "hook"
      /\ accepted' =
             IF Bridge!ReflectOk(asked[n], answers[n]) THEN accepted \cup {n} ELSE
                 accepted
      /\ UNCHANGED <<child, ambient, asked, wire, closed, pending>>
      /\ UNCHANGED <<task, context, answers>>
  BY DEF Bridge!Hook
<1>2. /\ inbox' \in Seq(Item) /\ Lined(inbox', w)
      /\ \A i \in DOMAIN inbox' : Faithful(inbox'[i], asked, DOMAIN answers)
      /\ Faithful(Head(inbox), asked, DOMAIN answers)
      /\ \A m : Behind(m, inbox, w) => Behind(m, inbox', w)
  BY <1>1, Taken
<1>3. n \in DOMAIN answers
  BY <1>1, <1>2 DEF Faithful
<1> HIDE DEF n
<1>4. BridgeTyped'
  BY <1>1, <1>2, <1>3 DEF BridgeInv, BridgeTyped
<1>5. StreamInv'
  BY <1>1, <1>2 DEF BridgeInv, StreamInv
<1>6. TaskInv'
  <2>1. ASSUME NEW u \in Tasks PROVE AtWork(u)'
    BY <1>1, <1>2 DEF BridgeInv, TaskInv, AtWork
  <2> QED
    BY <1>1, <2>1 DEF BridgeInv, TaskInv, Busy
<1>7. Bridge!ReceiptsAreOwn'
  BY <1>1 DEF BridgeInv, Bridge!ReceiptsAreOwn, Bridge!ReflectOk, Bridge!SessionMatches
<1> QED
  BY <1>1, <1>4, <1>5, <1>6, <1>7 DEF BridgeInv, AnswerOf

(* Codex asks for a tool, or for something else, or a hook runs.           *)
LEMMA AskToolKeeps ==
    ASSUME BridgeInv, Bridge!BridgeAssumption, NEW by \in Threads, Bridge!AskTool(by)
    PROVE  BridgeInv'
<1>1. PICK meta \in {<<>>, <<Bad, by>>}, carrier \in {NoThread} \cup (Threads \ {by}),
           given \in {NoThread, Historical} :
         Bridge!Ask([Bridge!Message("session", by) EXCEPT !.meta = meta,
             !.carrier = carrier, !.given = given])
  BY Zenon DEF Bridge!AskTool
<1>2. PICK m \in Bridge!Messages : m = Bridge!Message("session", by) /\ m.form = "session"
  BY NoiseIs DEF Bridge!Forms
<1>3. meta \in Seq(Threads \cup {Bad})
  <2>1. <<>> \in Seq(Threads \cup {Bad})
    BY EmptySeq
  <2>2. <<Bad, by>> \in Seq(Threads \cup {Bad})
    OBVIOUS
  <2> QED
    BY <2>1, <2>2
<1> DEFINE x == [m EXCEPT !.meta = meta, !.carrier = carrier, !.given = given]
<1>4. x \in Bridge!Messages /\ x.form = "session"
  BY <1>2, <1>3 DEF Bridge!Messages
<1> HIDE DEF x
<1>5. Bridge!Ask(x)
  BY <1>1, <1>2, Zenon DEF x
<1> QED
  BY <1>4, <1>5, AskKeeps

(* So does another message.                                                *)
LEMMA AskOtherKeeps ==
    ASSUME BridgeInv, Bridge!BridgeAssumption, NEW by \in Threads, Bridge!AskOther(by)
    PROVE  BridgeInv'
<1>1. "plain" \in Bridge!Forms /\ "noise" \in Bridge!Forms
  BY DEF Bridge!Forms
<1>2. ASSUME NEW carrier \in Threads,
    Bridge!Ask([Bridge!Message("plain", by) EXCEPT !.carrier = carrier])
      PROVE  BridgeInv'
  <2>1. PICK m \in Bridge!Messages : m = Bridge!Message("plain", by) /\ m.form = "plain"
    BY <1>1, NoiseIs
  <2> DEFINE x == [m EXCEPT !.carrier = carrier]
  <2>2. x \in Bridge!Messages /\ x.form = "plain"
    BY <2>1 DEF Bridge!Messages
  <2> HIDE DEF x
  <2>3. Bridge!Ask(x)
    BY <1>2, <2>1, Zenon DEF x
  <2> QED
    BY <2>2, <2>3, AskKeeps
<1>3. ASSUME Bridge!Ask(Bridge!Message("noise", by)) PROVE BridgeInv'
  <2> DEFINE x == Bridge!Message("noise", by)
  <2>1. x \in Bridge!Messages /\ x.form = "noise" /\ Bridge!Ask(x)
    BY <1>1, <1>3, NoiseIs
  <2> HIDE DEF x
  <2> QED
    BY <2>1, AskKeeps
<1> QED
  BY <1>2, <1>3 DEF Bridge!AskOther

(* So does a hook, of an answer that was given.                             *)
LEMMA AskHookKeeps ==
    ASSUME BridgeInv, Bridge!BridgeAssumption, NEW n \in DOMAIN answers, Bridge!AskHook(n)
    PROVE  BridgeInv'
<1>1. Bridge!Ask([Bridge!Message("hook", asked[n].by) EXCEPT !.of = n])
  BY DEF Bridge!AskHook
<1>2. asked \in Seq(Bridge!Messages) /\ n \in DOMAIN asked
  BY DEF BridgeInv, BridgeTyped
<1>3. /\ DOMAIN asked = 1..Len(asked) /\ Len(asked) \in Nat /\ Len(asked) < MaxLines
      /\ MaxLines \in Nat
  BY <1>1, <1>2, LenProperties DEF Bridge!Ask, Bridge!BridgeAssumption
<1>4. n \in 1..Len(asked) /\ n \in 0..MaxLines
  BY <1>2, <1>3
<1>5. asked[n].by \in Threads
  <2>1. asked[n] \in Bridge!Messages
    BY <1>2, <1>4, ElementOfSeq
  <2> QED
    BY <2>1 DEF Bridge!Messages
<1>6. PICK m \in Bridge!Messages :
         m = Bridge!Message("hook", asked[n].by) /\ m.form = "hook"
  BY <1>5, NoiseIs DEF Bridge!Forms
<1> DEFINE x == [m EXCEPT !.of = n]
<1>7. x \in Bridge!Messages /\ x.of = n
  BY <1>4, <1>6 DEF Bridge!Messages
<1> HIDE DEF x
<1>8. Bridge!Ask(x)
  BY <1>1, <1>6, Zenon DEF x
<1> QED
  BY <1>7, <1>8, AskKeeps

(* A step that changes none of the variables.                              *)
LEMMA BridgeRests == ASSUME BridgeInv, UNCHANGED Bridge!bridgeVars PROVE BridgeInv'
<1>1. UNCHANGED <<child, ambient, asked, wire, closed, pending, inbox, task, context,
                  answers, accepted>>
  BY DEF Bridge!bridgeVars
<1>2. BridgeTyped' /\ StreamInv'
  BY <1>1 DEF BridgeInv, BridgeTyped, StreamInv
<1>3. TaskInv'
  BY <1>1 DEF BridgeInv, TaskInv, AtWork, Busy
<1> QED
  BY <1>1, <1>2, <1>3 DEF BridgeInv, AnswerOf, Bridge!ReceiptsAreOwn

(* Every step keeps the invariant.                                         *)
LEMMA BridgeKeeps ==
    ASSUME BridgeInv, Bridge!BridgeAssumption, [Bridge!Next]_(Bridge!bridgeVars)
    PROVE  BridgeInv'
<1>1. ASSUME NEW usable, NEW i, NEW j, NEW k, Bridge!Start(usable, i, j, k)
    PROVE BridgeInv'
  BY <1>1, StartKeeps
<1>2. ASSUME Bridge!ChildExits PROVE BridgeInv'
  BY <1>2, ExitKeeps
<1>3. ASSUME NEW by \in Threads, Bridge!AskTool(by) \/ Bridge!AskOther(by)
    PROVE BridgeInv'
  BY <1>3, AskToolKeeps, AskOtherKeeps
<1>4. ASSUME NEW n \in DOMAIN answers, Bridge!AskHook(n) PROVE BridgeInv'
  BY <1>4, AskHookKeeps
<1>5. ASSUME NEW k, Bridge!Read(k) PROVE BridgeInv'
  BY <1>5, ReadKeeps
<1>6. ASSUME Bridge!Flush \/ Bridge!Skip \/ Bridge!Hook PROVE BridgeInv'
  BY <1>6, FlushKeeps, SkipKeeps, HookKeeps
<1>7. ASSUME NEW t \in Tasks,
             \/ \E async \in BOOLEAN : Bridge!Call(t, async)
             \/ Bridge!Await(t) \/ Bridge!Finish(t)
      PROVE  BridgeInv'
  BY <1>7, CallKeeps, AwaitKeeps, FinishKeeps
<1>8. ASSUME UNCHANGED Bridge!bridgeVars PROVE BridgeInv'
  BY <1>8, BridgeRests
<1> QED
  BY <1>1, <1>2, <1>3, <1>4, <1>5, <1>6, <1>7, <1>8 DEF Bridge!Next

(* A step of the run is a step of the calls, or leaves them as they were.   *)
LEMMA CallsMove ==
    ASSUME [HostNext]_hostVars
    PROVE  [Bridge!Next]_(Bridge!bridgeVars)
<1> USE DEF CodexStep, ClaudeStep, ReflexStep, TurnStep, GuardStep, CallStep, LaunchStep,
            callVars, hostVars, Bridge!bridgeVars
<1>1. CASE CodexStep(Next)
  BY <1>1
<1>2. CASE ClaudeStep(Claude!Next)
  BY <1>2
<1>3. CASE ReflexStep(Reflexes!Next)
  BY <1>3
<1>4. CASE TurnStep(Turns!Next)
  BY <1>4
<1>5. CASE GuardStep(Guard!Next)
  BY <1>5
<1>6. CASE CallStep(Bridge!Next)
  BY <1>6
<1>7. CASE LaunchStep(Launch!Next)
  BY <1>7
<1>8. CASE UNCHANGED hostVars
  BY <1>8
<1> QED
  BY <1>1, <1>2, <1>3, <1>4, <1>5, <1>6, <1>7, <1>8, SMTT(60) DEF HostNext

(* Every call of a tool works on the session of the thread of Codex whose   *)
(* metadata it carries, whatever calls overlap it, and only its own answer  *)
(* is a receipt of the turn (thread_id_bridge.mjs, bridgeOneMessage;        *)
(* codex_thread_context.py, wrapped; codex_lifecycle.py, _reflect_ok).      *)
THEOREM CallsAlwaysOwn == HostSpec => []CallsAreOwn
<1>1. HostInit => BridgeInv
  BY BridgeStarts DEF HostInit
<1>2. BridgeInv /\ [HostNext]_hostVars => BridgeInv'
  BY CallsMove, BridgeKeeps, HostsAssumption DEF HostsAssumption
<1>3. BridgeInv => CallsAreOwn
  BY BridgeFollows DEF CallsAreOwn
<1> QED
  BY <1>1, <1>2, <1>3, PTL DEF HostSpec
=============================================================================
