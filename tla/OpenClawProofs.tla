--------------------------- MODULE OpenClawProofs ---------------------------
(***************************************************************************)
(* Proofs about the run MCOpenClaw: the child process (OpenClawRuntime) and*)
(* the hooks (OpenClawSession).  Each half has an inductive invariant of   *)
(* its own, and a step of the run is a step of one of them (HalvesMove).   *)
(***************************************************************************)
EXTENDS MCOpenClaw, FiniteSetTheorems, TLAPS

(***************************************************************************)
(* The child process                                                       *)
(***************************************************************************)

(* A caller, and the start that it may have begun.                         *)
Stages == {"off", "pinged", "closing", "waiting", "status", "ready"}
CallRec == [pc : Stages, changed : BOOLEAN, running : BOOLEAN,
            on : Calls \cup {Nobody}, old : 0..MaxChildren]
StartRec == [pc : {"none", "token", "handshake"}, child : 0..MaxChildren]

RunTyped ==
    /\ call \in [Calls -> CallRec] /\ attempt \in [Calls -> StartRec]
    /\ startPromise \in Calls \cup {Nobody}
    /\ child \in [R!Children -> {"none", "up", "told", "gone"}]
    /\ childKey \in [R!Children -> Nat] /\ proc \in 0..MaxChildren
    /\ initialized \in BOOLEAN
    /\ {hostKey, localKey, addedKey} \subseteq Nat
    /\ dreamTimer \in BOOLEAN /\ {timers, dreams} \subseteq Nat

(* Those that may yet spawn a child.                                       *)
Starters ==
    {h \in Calls : call[h].pc \in {"pinged", "closing"} \/ attempt[h].pc = "token"}

(* Who has begun a start waits for it; children are spawned one after the  *)
(* other, and there is a number for each that may be.                      *)
OwnStart ==
    \A h \in Calls : attempt[h].pc # "none" => call[h].pc = "waiting" /\ call[h].on = h
Room ==
    \E n \in 0..MaxChildren : R!Spawned = 1..n /\ n + Cardinality(Starters) <= MaxChildren

(* The children that the bridge and a handshake name are there.            *)
HandsAreThere ==
    /\ \A h \in Calls : attempt[h].pc = "handshake" =>
          attempt[h].child \in R!Children /\ child[attempt[h].child] # "none"
    /\ IF proc = 0 THEN ~initialized ELSE child[proc] # "none"

(* The timer that is set is the only one, and none is set during a run.    *)
Dreams ==
    /\ dreamTimer => timers >= 1
    /\ \/ "armed during a run" \in excused
       \/ timers + dreams <= 1 /\ (timers >= 1 => dreamTimer)

(* A child that is being started has the credentials of the configuration, *)
(* and one that runs with other ones is about to be restarted.             *)
Stale == {"changed during start", "refreshed outside", "logged out", "start beside close"}
Current ==
    \/ excused \cap Stale # {}
    \/ /\ localKey # 0
       /\ \A h \in Calls : attempt[h].pc = "handshake" =>
             childKey[attempt[h].child] = localKey
       /\ R!isRunning => \/ childKey[proc] = localKey
                         \/ \E h \in Calls : /\ call[h].pc = "pinged"
                                             /\ call[h].changed /\ call[h].running

RunInv ==
    /\ RunTyped /\ OwnStart /\ Room /\ HandsAreThere
    /\ R!NoChildIsLost /\ Dreams /\ Current

(* The bounds are numbers, and there are finitely many callers.            *)
LEMMA RunBounds ==
    /\ Nobody \notin Calls /\ MaxChildren \in Nat /\ MaxChildren >= 1
    /\ IsFiniteSet(Calls)
BY OpenClawAssumption DEF OpenClawAssumption, R!RuntimeAssumption, R!IsFiniteSet,
   IsFiniteSet

(* No child has the number that stands for none.                           *)
LEMMA ChildrenCount == \A k \in R!Children : k # 0
BY RunBounds DEF R!Children

(* A record of a caller that is put together has its type.                 *)
LEMMA CallIs ==
    ASSUME NEW p \in Stages, NEW c \in BOOLEAN, NEW r \in BOOLEAN,
           NEW o \in Calls \cup {Nobody},
           NEW d \in 0..MaxChildren
    PROVE  LET e == [pc |-> p, changed |-> c, running |-> r, on |-> o, old |-> d]
           IN /\ e \in CallRec /\ e.pc = p /\ e.changed = c /\ e.running = r
              /\ e.on = o /\ e.old = d
BY DEF CallRec

(* A caller that is idle.                                                  *)
LEMMA IdleIs == R!Idle \in CallRec /\ R!Idle.pc = "off"
<1>1. FALSE \in BOOLEAN /\ 0 \in 0..MaxChildren /\ "off" \in Stages
  BY RunBounds DEF Stages
<1>2. R!Idle \in CallRec
  BY <1>1, CallIs, Zenon DEF R!Idle
<1>3. R!Idle.pc = "off"
  BY DEF R!Idle
<1> QED
  BY <1>2, <1>3

(* A caller that waits for a start.                                        *)
LEMMA WaitIs ==
    ASSUME NEW o \in Calls \cup {Nobody}
    PROVE  /\ [R!Idle EXCEPT !.pc = "waiting", !.on = o] \in CallRec
           /\ [R!Idle EXCEPT !.pc = "waiting", !.on = o].pc = "waiting"
           /\ [R!Idle EXCEPT !.pc = "waiting", !.on = o].on = o
<1>1. PICK e \in CallRec : e = R!Idle
  BY IdleIs
<1>2. /\ [e EXCEPT !.pc = "waiting", !.on = o] \in CallRec
      /\ [e EXCEPT !.pc = "waiting", !.on = o].pc = "waiting"
      /\ [e EXCEPT !.pc = "waiting", !.on = o].on = o
  BY DEF CallRec, Stages
<1> QED
  BY <1>1, <1>2

(* A caller that asks for the status.                                      *)
LEMMA StatusIs ==
    /\ [R!Idle EXCEPT !.pc = "status"] \in CallRec
    /\ [R!Idle EXCEPT !.pc = "status"].pc = "status"
<1>1. PICK e \in CallRec : e = R!Idle
  BY IdleIs
<1>2. [e EXCEPT !.pc = "status"] \in CallRec /\ [e EXCEPT !.pc = "status"].pc = "status"
  BY DEF CallRec, Stages
<1> QED
  BY <1>1, <1>2

(* A caller that waits for a child to end.                                 *)
LEMMA ClosingIs ==
    ASSUME NEW d \in 0..MaxChildren
    PROVE  /\ [R!Idle EXCEPT !.pc = "closing", !.old = d] \in CallRec
           /\ [R!Idle EXCEPT !.pc = "closing", !.old = d].pc = "closing"
<1>1. PICK e \in CallRec : e = R!Idle
  BY IdleIs
<1>2. /\ [e EXCEPT !.pc = "closing", !.old = d] \in CallRec
      /\ [e EXCEPT !.pc = "closing", !.old = d].pc = "closing"
  BY DEF CallRec, Stages
<1> QED
  BY <1>1, <1>2

(* A caller that has asked whether the child runs.                         *)
LEMMA PingedIs ==
    ASSUME NEW c \in BOOLEAN, NEW r \in BOOLEAN
    PROVE  /\ [R!Idle EXCEPT !.pc = "pinged", !.changed = c, !.running = r] \in CallRec
           /\ [R!Idle EXCEPT !.pc = "pinged", !.changed = c, !.running = r].pc = "pinged"
           /\ [R!Idle EXCEPT !.pc = "pinged", !.changed = c, !.running = r].changed = c
           /\ [R!Idle EXCEPT !.pc = "pinged", !.changed = c, !.running = r].running = r
<1>1. PICK e \in CallRec : e = R!Idle
  BY IdleIs
<1>2. /\ [e EXCEPT !.pc = "pinged", !.changed = c, !.running = r] \in CallRec
      /\ [e EXCEPT !.pc = "pinged", !.changed = c, !.running = r].pc = "pinged"
      /\ [e EXCEPT !.pc = "pinged", !.changed = c, !.running = r].changed = c
      /\ [e EXCEPT !.pc = "pinged", !.changed = c, !.running = r].running = r
  BY DEF CallRec, Stages
<1> QED
  BY <1>1, <1>2

(* Sets of callers are finite, and a part of one is no larger.             *)
LEMMA StartersFinite ==
    ASSUME NEW Moved \in SUBSET Calls, NEW Part \in SUBSET Moved
    PROVE  /\ IsFiniteSet(Moved) /\ Cardinality(Moved) \in Nat
           /\ Cardinality(Part) \in Nat
           /\ Cardinality(Part) <= Cardinality(Moved)
<1>1. IsFiniteSet(Moved)
  BY RunBounds, FS_Subset
<1> QED
  BY <1>1, FS_Subset, FS_CardinalityType

(* Calls that go on without a start keep the room.                         *)
LEMMA RoomKept ==
    ASSUME Room, R!Spawned' = R!Spawned, Starters' \subseteq Starters
    PROVE  Room'
<1>1. PICK n \in 0..MaxChildren : R!Spawned = 1..n /\ n + Cardinality(Starters) <= MaxChildren
  BY DEF Room
<1>2. Cardinality(Starters') <= Cardinality(Starters) /\ Cardinality(Starters) \in Nat
      /\ Cardinality(Starters') \in Nat
  BY StartersFinite DEF Starters
<1>3. n + Cardinality(Starters') <= MaxChildren
  BY <1>1, <1>2, RunBounds
<1> QED
  BY <1>1, <1>3 DEF Room

(* At first nobody calls and no child was spawned.                         *)
LEMMA RunInit == R!Init => RunInv
<1> SUFFICES ASSUME R!Init PROVE RunInv
  OBVIOUS
<1> USE RunBounds DEF R!Init
<1>1. RunTyped
  <2>1. call \in [Calls -> CallRec]
    BY IdleIs
  <2>2. attempt \in [Calls -> StartRec]
    BY DEF StartRec, R!NoAttempt
  <2>3. /\ child \in [R!Children -> {"none", "up", "told", "gone"}]
        /\ childKey \in [R!Children -> Nat] /\ proc \in 0..MaxChildren
    BY DEF R!Children
  <2>4. initialized \in BOOLEAN /\ dreamTimer \in BOOLEAN
    BY Zenon
  <2> QED
    BY <2>1, <2>2, <2>3, <2>4 DEF RunTyped
<1>2. OwnStart /\ HandsAreThere
  BY DEF OwnStart, HandsAreThere, R!NoAttempt
<1>3. Room
  <2>1. Starters = {} /\ R!Spawned = 1..0
    BY IdleIs DEF Starters, R!NoAttempt, R!Spawned
  <2>2. Cardinality(Starters) = 0
    BY <2>1, FS_EmptySet
  <2> QED
    BY <2>1, <2>2 DEF Room
<1>4. R!NoChildIsLost /\ Dreams /\ Current
  BY DEF R!NoChildIsLost, Dreams, Current, R!isRunning, R!NoAttempt
<1> QED
  BY <1>1, <1>2, <1>3, <1>4 DEF RunInv

(* What the callers do among themselves, other than to begin a call or to  *)
(* spawn: no handshake begins, and h aside, those about to restart a child *)
(* stay so.                                                                *)
Shuffled(Moved) ==
    /\ call' \in [Calls -> CallRec] /\ attempt' \in [Calls -> StartRec]
    /\ startPromise' \in Calls \cup {Nobody}
    /\ OwnStart' /\ Starters' \subseteq Starters
    /\ \A h \in Calls : attempt'[h].pc = "handshake" => attempt'[h] = attempt[h]
    /\ \A h \in Calls \ Moved : call[h].pc = "pinged" => call'[h] = call[h]

(* Nothing about the calls and the children changes.                       *)
LEMMA Rested ==
    ASSUME RunTyped, OwnStart, UNCHANGED <<call, attempt, startPromise>>
    PROVE  Shuffled({})
BY DEF RunTyped, OwnStart, Shuffled, Starters

(* A caller that joins a start, or begins one, waits for it.               *)
LEMMA JoinIs ==
    ASSUME RunTyped, OwnStart, NEW h \in Calls, call[h].pc = "pinged", R!JoinStart(h)
    PROVE  /\ Shuffled({h})
           /\ excused \subseteq excused'
<1>1. attempt[h].pc = "none"
  BY DEF OwnStart, RunTyped, StartRec
<1>2. excused \subseteq excused'
  BY DEF R!JoinStart, R!Excused
<1>3. CASE startPromise = Nobody
  <2>1. /\ attempt' = [attempt EXCEPT ![h].pc = "token"] /\ startPromise' = h
        /\ call' = [call EXCEPT ![h] = [R!Idle EXCEPT !.pc = "waiting", !.on = h]]
    BY <1>3 DEF R!JoinStart
  <2>2. /\ attempt' \in [Calls -> StartRec] /\ attempt'[h].pc = "token"
        /\ \A g \in Calls \ {h} : attempt'[g] = attempt[g]
    BY <2>1 DEF RunTyped, StartRec
  <2>3. /\ call' \in [Calls -> CallRec] /\ call'[h].pc = "waiting" /\ call'[h].on = h
        /\ \A g \in Calls \ {h} : call'[g] = call[g]
    BY <2>1, WaitIs, RunBounds DEF RunTyped
  <2> QED
    BY <1>2, <2>1, <2>2, <2>3 DEF Shuffled, OwnStart, Starters
<1>4. CASE startPromise # Nobody
  <2>1. /\ UNCHANGED <<attempt, startPromise>>
        /\ call' = [call EXCEPT ![h] = [R!Idle EXCEPT !.pc = "waiting",
               !.on = startPromise]]
    BY <1>4 DEF R!JoinStart
  <2>3. /\ call' \in [Calls -> CallRec] /\ call'[h].pc = "waiting"
        /\ \A g \in Calls \ {h} : call'[g] = call[g]
    BY <2>1, WaitIs, RunBounds DEF RunTyped
  <2> QED
    BY <1>1, <1>2, <2>1, <2>3 DEF RunTyped, Shuffled, OwnStart, Starters
<1> QED
  BY <1>3, <1>4

(* A start that has ended lets those who wait for it go on.                *)
LEMMA SettledIs ==
    ASSUME RunTyped, OwnStart, NEW h \in Calls, NEW ok \in BOOLEAN, R!Settled(h, ok)
    PROVE  Shuffled({})
<1>1. /\ attempt' = [attempt EXCEPT ![h] = R!NoAttempt] /\ startPromise' = Nobody
      /\ call' = [g \in Calls |->
                  IF call[g].pc # "waiting" \/ call[g].on # h THEN call[g]
                  ELSE IF ok THEN [R!Idle EXCEPT !.pc = "status"] ELSE R!Idle]
  BY DEF R!Settled
<1>2. /\ attempt' \in [Calls -> StartRec] /\ attempt'[h].pc = "none"
      /\ \A g \in Calls \ {h} : attempt'[g] = attempt[g]
  BY <1>1, RunBounds DEF RunTyped, StartRec, R!NoAttempt
<1>3. /\ R!Idle \in CallRec /\ [R!Idle EXCEPT !.pc = "status"] \in CallRec
      /\ R!Idle.pc = "off" /\ [R!Idle EXCEPT !.pc = "status"].pc = "status"
  BY IdleIs, StatusIs
<1>4. /\ call' \in [Calls -> CallRec]
      /\ \A g \in Calls : \/ call'[g] = call[g]
                          \/ /\ call[g].pc = "waiting" /\ call[g].on = h
                             /\ call'[g].pc \in {"off", "status"}
  BY <1>1, <1>3 DEF RunTyped
<1> QED
  BY <1>1, <1>2, <1>4 DEF Shuffled, OwnStart, Starters

(* A start that is rejected when its child goes.                           *)
LEMMA RejectIs ==
    ASSUME RunTyped, OwnStart, NEW closers \in SUBSET Calls,
           \A g \in closers : call[g].pc = "closing", R!RejectAllPending(closers)
    PROVE  Shuffled({}) /\ \A h \in Calls : attempt'[h].pc # "handshake"
<1> DEFINE failed == {h \in Calls : attempt[h].pc = "handshake"}
           begins == IF startPromise = Nobody THEN closers ELSE {}
           shares(g) == g \in closers \ begins
<1>1. /\ attempt' = [h \in Calls |-> IF h \in begins THEN [pc |-> "token", child |-> 0]
                                      ELSE IF h \in failed THEN R!NoAttempt ELSE
                                          attempt[h]]
      /\ startPromise' \in IF failed # {} THEN {Nobody}
                           ELSE IF begins # {} THEN begins ELSE {startPromise}
      /\ call' = [g \in Calls |->
                     IF g \in begins THEN [R!Idle EXCEPT !.pc = "waiting", !.on = g]
                     ELSE IF shares(g) /\ startPromise \notin failed
                     THEN [R!Idle EXCEPT !.pc = "waiting", !.on = startPromise]
                     ELSE
                         IF shares(g) \/ (call[g].pc = "waiting" /\ call[g].on \in failed)
                     THEN R!Idle ELSE call[g]]
  BY DEF R!RejectAllPending
<1>2. failed \subseteq Calls /\ begins \subseteq closers
  OBVIOUS
<1>3. \A h \in closers : attempt[h].pc = "none"
  BY DEF OwnStart, RunTyped, StartRec
<1>4. \A h \in Calls :
         /\ h \in begins => attempt'[h] = [pc |-> "token", child |-> 0]
         /\ h \notin begins /\ h \in failed => attempt'[h] = R!NoAttempt
         /\ h \notin begins /\ h \notin failed => attempt'[h] = attempt[h]
  BY <1>1
<1>5. \A g \in Calls :
         /\ g \in begins => call'[g] = [R!Idle EXCEPT !.pc = "waiting", !.on = g]
         /\ g \in closers /\ g \notin begins =>
               call'[g] = R!Idle
               \/ call'[g] = [R!Idle EXCEPT !.pc = "waiting", !.on = startPromise]
         /\ g \notin closers /\ call[g].pc = "waiting" /\ call[g].on \in failed =>
               call'[g] = R!Idle
         /\ g \notin closers /\ ~(call[g].pc = "waiting" /\ call[g].on \in failed) =>
               call'[g] = call[g]
  BY <1>1, <1>2
<1>6. DOMAIN attempt' = Calls /\ DOMAIN call' = Calls
      /\ attempt' = [h \in Calls |-> attempt'[h]] /\ call' = [h \in Calls |-> call'[h]]
  BY <1>1
<1>7. startPromise' \in Calls \cup {Nobody}
  BY <1>1, <1>2 DEF RunTyped
<1>8. \A h \in Calls : attempt[h].pc = "handshake" <=> h \in failed
  OBVIOUS
<1> HIDE DEF failed, begins, shares
<1>9. attempt' \in [Calls -> StartRec]
  <2>1. [pc |-> "token", child |-> 0] \in StartRec /\ R!NoAttempt \in StartRec
    BY RunBounds DEF StartRec, R!NoAttempt
  <2>2. \A h \in Calls : attempt'[h] \in StartRec
    BY <2>1, <1>4 DEF RunTyped
  <2> QED
    BY <2>2, <1>6
<1>a. ASSUME NEW g \in Calls
      PROVE  /\ call'[g] \in CallRec
             /\ g \in begins => call'[g].pc = "waiting" /\ call'[g].on = g
             /\ call'[g].pc \in {"pinged", "closing"} =>
                    g \notin closers /\ call'[g] = call[g]
             /\ g \notin closers /\ ~(call[g].pc = "waiting" /\ call[g].on \in failed) =>
                   call'[g] = call[g]
  <2>1. CASE g \in begins
    <3>1. call'[g] = [R!Idle EXCEPT !.pc = "waiting", !.on = g] /\ g \in closers
      BY <2>1, <1>2, <1>5
    <3> QED
      BY <3>1, WaitIs
  <2>2. CASE g \in closers /\ g \notin begins
    <3>1. startPromise \in Calls \cup {Nobody}
      BY DEF RunTyped
    <3> QED
      BY <3>1, <2>2, <1>5, IdleIs, WaitIs
  <2>3. CASE g \notin closers
    <3>1. call[g] \in CallRec
      BY DEF RunTyped
    <3> QED
      BY <3>1, <2>3, <1>2, <1>5, IdleIs
  <2> QED
    BY <2>1, <2>2, <2>3
<1>11. call' \in [Calls -> CallRec]
  BY <1>6, <1>a
<1>12. \A h \in Calls : attempt'[h].pc # "handshake"
  BY <1>4, <1>8 DEF R!NoAttempt
<1>13. OwnStart'
  <2> SUFFICES ASSUME NEW h \in Calls, attempt'[h].pc # "none"
               PROVE  call'[h].pc = "waiting" /\ call'[h].on = h
    BY DEF OwnStart
  <2>1. CASE h \in begins
    BY <2>1, <1>a
  <2>2. CASE h \notin begins
    <3>1. h \notin failed /\ attempt'[h] = attempt[h]
      BY <2>2, <1>4 DEF R!NoAttempt
    <3>2. call[h].pc = "waiting" /\ call[h].on = h /\ h \notin closers
      BY <3>1, <1>3 DEF OwnStart
    <3>3. call'[h] = call[h]
      BY <3>1, <3>2, <1>a
    <3> QED
      BY <3>2, <3>3
  <2> QED
    BY <2>1, <2>2
<1>14. Starters' \subseteq Starters
  <2> SUFFICES ASSUME NEW h \in Calls,
                      call'[h].pc \in {"pinged", "closing"} \/ attempt'[h].pc = "token"
               PROVE  call[h].pc \in {"pinged", "closing"} \/ attempt[h].pc = "token"
    BY DEF Starters
  <2>1. CASE h \in closers
    BY <2>1
  <2>2. CASE h \notin closers /\ attempt'[h].pc = "token"
    BY <2>2, <1>2, <1>4 DEF R!NoAttempt
  <2>3. CASE call'[h].pc \in {"pinged", "closing"}
    BY <2>3, <1>a
  <2> QED
    BY <2>1, <2>2, <2>3
<1>15. \A h \in Calls : call[h].pc = "pinged" => call'[h] = call[h]
  BY <1>2, <1>5
<1> QED
  BY <1>7, <1>9, <1>11, <1>12, <1>13, <1>14, <1>15 DEF Shuffled

(* Steps that leave the children alone.                                    *)
LEMMA CallsOnly ==
    ASSUME RunInv, NEW Moved \in SUBSET Calls, Shuffled(Moved),
           UNCHANGED <<child, childKey, proc, initialized>>,
           excused \subseteq excused'
    PROVE  OwnStart' /\ Room' /\ HandsAreThere' /\ R!NoChildIsLost'
<1>1. OwnStart' /\ Starters' \subseteq Starters
  BY DEF Shuffled
<1>2. Room'
  <2>1. R!Spawned' = R!Spawned
    BY DEF R!Spawned
  <2> QED
    BY <1>1, <2>1, RoomKept DEF RunInv
<1>3. HandsAreThere'
  BY DEF RunInv, HandsAreThere, Shuffled
<1>4. R!NoChildIsLost'
  BY DEF RunInv, R!NoChildIsLost
<1> QED
  BY <1>1, <1>2, <1>3, <1>4

(* ... and the credentials, and what is about to restart a child.          *)
LEMMA CurrentKept ==
    ASSUME RunInv,
           NEW Moved \in SUBSET Calls, Shuffled(Moved), excused \subseteq excused',
           UNCHANGED <<childKey, localKey>>,
           (proc' = proc /\ initialized' = initialized) \/ ~R!isRunning',
           \A h \in Moved : \/ ~(call[h].pc = "pinged" /\ call[h].changed /\ call[h].running)
                       \/ ~R!isRunning'
    PROVE  Current'
<1>1. CASE excused \cap Stale # {}
  BY <1>1 DEF Current
<1>2. CASE excused \cap Stale = {}
  <2>1. localKey' # 0 /\ \A h \in Calls : attempt'[h].pc = "handshake" =>
             childKey'[attempt'[h].child] = localKey'
    BY <1>2 DEF RunInv, Current, Shuffled
  <2>2. R!isRunning' => R!isRunning /\ proc' = proc
    BY DEF R!isRunning
  <2>3. ASSUME R!isRunning'
        PROVE  \/ childKey'[proc'] = localKey'
               \/ \E h \in Calls : /\ call'[h].pc = "pinged"
                                   /\ call'[h].changed /\ call'[h].running
    <3>1. CASE childKey[proc] = localKey
      BY <3>1, <2>2, <2>3
    <3>2. ASSUME NEW h \in Calls, call[h].pc = "pinged", call[h].changed, call[h].running
          PROVE  call'[h].pc = "pinged" /\ call'[h].changed /\ call'[h].running
      BY <3>2, <2>3 DEF Shuffled
    <3> QED
      BY <3>1, <3>2, <2>2, <2>3, <1>2 DEF RunInv, Current
  <2> QED
    BY <2>1, <2>3 DEF Current
<1> QED
  BY <1>1, <1>2

(* What leaves the timer alone keeps it single.                            *)
LEMMA DreamsKept ==
    ASSUME RunInv, UNCHANGED R!dreamVars, excused \subseteq excused'
    PROVE  Dreams'
BY DEF RunInv, Dreams, R!dreamVars

(* The service's environment.                                              *)
LEMMA StepHost == ASSUME RunInv, R!HostChangesKey PROVE RunInv'
<1>1. /\ UNCHANGED <<call, attempt, startPromise, child, childKey, proc, initialized,
                     localKey, addedKey, dreamTimer, timers, dreams, excused>>
      /\ hostKey' \in Nat
  BY DEF R!HostChangesKey, R!bridgeVars, R!dreamVars, RunInv, RunTyped
<1>2. RunTyped'
  BY <1>1 DEF RunInv, RunTyped
<1>3. Shuffled({})
  BY <1>1, Rested DEF RunInv
<1>4. OwnStart' /\ Room' /\ HandsAreThere' /\ R!NoChildIsLost'
  BY <1>1, <1>3, CallsOnly
<1>5. Current' /\ Dreams'
  BY <1>1, <1>3, CurrentKept, DreamsKept DEF R!dreamVars
<1> QED
  BY <1>2, <1>4, <1>5 DEF RunInv

(* A hook or the timer for a quiet user refreshes the credentials by itself. *)
LEMMA StepOutside == ASSUME RunInv, R!RefreshOutside PROVE RunInv'
<1>1. /\ UNCHANGED <<call, attempt, startPromise, child, childKey, proc, initialized,
                     hostKey, addedKey, dreamTimer, timers, dreams>>
      /\ localKey' = R!Latest
      /\ excused' = excused \cup (IF localKey # R!Latest THEN {"refreshed outside"} ELSE {})
  BY DEF R!RefreshOutside, R!bridgeVars, R!dreamVars, R!Excused
<1>k. R!Latest \in Nat
  BY DEF R!Latest, RunInv, RunTyped
<1>2. RunTyped'
  BY <1>1, <1>k DEF RunInv, RunTyped
<1>3. Shuffled({}) /\ excused \subseteq excused'
  BY <1>1, Rested DEF RunInv
<1>4. OwnStart' /\ Room' /\ HandsAreThere' /\ R!NoChildIsLost'
  BY <1>1, <1>3, CallsOnly
<1>5. Dreams'
  BY <1>1, <1>3, DreamsKept DEF R!dreamVars
<1>6. Current'
  <2>1. CASE localKey # R!Latest
    BY <1>1, <2>1 DEF Current, Stale
  <2>2. CASE localKey = R!Latest
    <3>1. UNCHANGED localKey /\ excused' = excused
      BY <1>1, <2>2
    <3> QED
      BY <1>1, <1>3, <3>1, CurrentKept
  <2> QED
    BY <2>1, <2>2
<1> QED
  BY <1>2, <1>4, <1>5, <1>6 DEF RunInv

(* A call begins, if there is room for the child it may spawn.             *)
LEMMA StepEnsure ==
    ASSUME RunInv, NEW h \in Calls, R!EnsureRuntimeStarted(h) PROVE RunInv'
<1> DEFINE key == R!Latest
           off == {g \in Calls : call[g].pc # "off"}
<1>1. /\ call[h].pc = "off" /\ Cardinality(R!Spawned) + Cardinality(off) < MaxChildren
      /\ localKey' = key
      /\ excused' = excused
                 \cup (IF key = 0 /\ localKey # 0 THEN {"logged out"} ELSE {})
                 \cup (IF key # localKey /\ \E g \in Calls : attempt[g].pc = "handshake"
                       THEN {"changed during start"} ELSE {})
      /\ call' = [call EXCEPT ![h] = [R!Idle EXCEPT !.pc = "pinged",
                          !.changed = (key # localKey), !.running = R!isRunning]]
      /\ UNCHANGED <<attempt, startPromise, child, childKey, proc, initialized, hostKey,
                     addedKey, dreamTimer, timers, dreams>>
  BY DEF R!EnsureRuntimeStarted, R!bridgeVars, R!dreamVars, R!Cardinality, Cardinality
<1>2. key \in Nat /\ call \in [Calls -> CallRec] /\ excused \subseteq excused'
  BY <1>1 DEF RunInv, RunTyped, R!Latest
<1> HIDE DEF key, off
<1>3. /\ call' \in [Calls -> CallRec] /\ call'[h].pc = "pinged"
      /\ call'[h].changed = (key # localKey) /\ call'[h].running = R!isRunning
      /\ \A g \in Calls \ {h} : call'[g] = call[g]
  <2>1. (key # localKey) \in BOOLEAN /\ R!isRunning \in BOOLEAN
    BY DEF R!isRunning
  <2>2. PICK c \in BOOLEAN : c = (key # localKey)
    BY <2>1
  <2>3. PICK r \in BOOLEAN : r = R!isRunning
    BY <2>1
  <2>4. PICK e \in CallRec : /\ e = [R!Idle EXCEPT !.pc = "pinged", !.changed = c,
                                    !.running = r]
                             /\ e.pc = "pinged" /\ e.changed = c /\ e.running = r
    BY PingedIs
  <2>5. call' = [call EXCEPT ![h] = e]
    BY <1>1, <2>2, <2>3, <2>4
  <2> QED
    BY <1>2, <2>2, <2>3, <2>4, <2>5
<1>4. RunTyped'
  BY <1>1, <1>2, <1>3 DEF RunInv, RunTyped
<1>5. OwnStart'
  BY <1>1, <1>3 DEF RunInv, OwnStart
<1>6. HandsAreThere' /\ R!NoChildIsLost'
  BY <1>1, <1>2 DEF RunInv, HandsAreThere, R!NoChildIsLost
<1>7. Dreams'
  BY <1>1, <1>2, DreamsKept DEF R!dreamVars
<1>8. Room'
  <2>1. PICK n \in 0..MaxChildren : R!Spawned = 1..n
    BY DEF RunInv, Room
  <2>2. /\ Starters \subseteq off /\ off \in SUBSET Calls
        /\ Starters' \subseteq Starters \cup {h}
    BY <1>1, <1>3 DEF RunInv, OwnStart, Starters, off
  <2>3. /\ IsFiniteSet(Starters) /\ Cardinality(Starters) \in Nat
        /\ Cardinality(off) \in Nat
        /\ Cardinality(Starters) <= Cardinality(off)
    BY <2>2, StartersFinite
  <2>4. /\ Cardinality(Starters') \in Nat
        /\ Cardinality(Starters') <= Cardinality(Starters) + 1
    <3>1. /\ IsFiniteSet(Starters \cup {h})
          /\ Cardinality(Starters \cup {h}) \in
                {Cardinality(Starters), Cardinality(Starters) + 1}
      BY <2>3, FS_AddElement
    <3>2. /\ IsFiniteSet(Starters')
          /\ Cardinality(Starters') <= Cardinality(Starters \cup {h})
      BY <2>2, <3>1, FS_Subset
    <3> QED
      BY <3>1, <3>2, <2>3, FS_CardinalityType
  <2>5. Cardinality(R!Spawned) = n
    BY <2>1, FS_Interval
  <2>6. n + Cardinality(Starters') <= MaxChildren
    <3>1. Cardinality(R!Spawned) + Cardinality(off) < MaxChildren
      BY <1>1
    <3>2. n \in Nat /\ MaxChildren \in Nat
      BY RunBounds
    <3> QED
      BY <3>1, <3>2, <2>3, <2>4, <2>5
  <2>7. R!Spawned' = R!Spawned
    BY <1>1 DEF R!Spawned
  <2> QED
    BY <2>1, <2>6, <2>7 DEF Room
<1>9. Current'
  <2>1. CASE excused' \cap Stale # {}
    BY <2>1 DEF Current
  <2>2. CASE excused' \cap Stale = {}
    <3>1. /\ excused \cap Stale = {} /\ ~(key = 0 /\ localKey # 0)
          /\ ~(key # localKey /\ \E g \in Calls : attempt[g].pc = "handshake")
      BY <2>2, <1>1 DEF Stale
    <3>2. localKey' # 0 /\ \A g \in Calls : attempt'[g].pc = "handshake" =>
                              childKey'[attempt'[g].child] = localKey'
      BY <3>1, <1>1 DEF RunInv, Current
    <3>3. ASSUME R!isRunning', childKey'[proc'] # localKey'
          PROVE  \E g \in Calls : call'[g].pc = "pinged" /\ call'[g].changed
                                  /\ call'[g].running
      <4>1. R!isRunning
        BY <3>3, <1>1 DEF R!isRunning
      <4>2. CASE key # localKey
        BY <4>1, <4>2, <1>3
      <4>3. CASE key = localKey
        <5>1. PICK g \in Calls : call[g].pc = "pinged" /\ call[g].changed /\ call[g].running
          BY <4>1, <4>3, <3>1, <3>3, <1>1 DEF RunInv, Current
        <5>2. g # h
          BY <5>1, <1>1
        <5> QED
          BY <5>1, <5>2, <1>3
      <4> QED
        BY <4>2, <4>3
    <3> QED
      BY <3>2, <3>3 DEF Current
  <2> QED
    BY <2>1, <2>2
<1> QED
  BY <1>4, <1>5, <1>6, <1>7, <1>8, <1>9 DEF RunInv

(* Types of what a step of the callers leaves as it was.                   *)
LEMMA TypedKept ==
    ASSUME RunInv, NEW Moved \in SUBSET Calls, Shuffled(Moved),
           child' \in [R!Children -> {"none", "up", "told", "gone"}],
           UNCHANGED <<childKey, hostKey, localKey, addedKey>>,
           proc' \in 0..MaxChildren, initialized' \in BOOLEAN,
           dreamTimer' \in BOOLEAN, timers' \in Nat, dreams' \in Nat
    PROVE  RunTyped'
BY DEF RunInv, RunTyped, Shuffled

(* The bridge is told to end: its child, if any is up, no longer is, and   *)
(* no child appears.                                                       *)
LEMMA TellIs ==
    ASSUME RunInv, R!TellToEnd
    PROVE  /\ child' \in [R!Children -> {"none", "up", "told", "gone"}]
           /\ proc' = 0 /\ initialized' = FALSE /\ R!Spawned' = R!Spawned
           /\ "start beside close" \notin excused =>
                  \A c \in R!Children : child'[c] # "up"
<1>1. proc' = 0 /\ initialized' = FALSE
      /\ child' = IF proc = 0 \/ ~R!Alive(proc) THEN child ELSE
             [child EXCEPT ![proc] = "told"]
  BY DEF R!TellToEnd
<1>2. child \in [R!Children -> {"none", "up", "told", "gone"}] /\ proc \in 0..MaxChildren
  BY DEF RunInv, RunTyped
<1>3. "start beside close" \notin excused => \A c \in R!Children : child[c] = "up" =>
    c = proc
  BY DEF RunInv, R!NoChildIsLost
<1>4. CASE proc = 0 \/ ~R!Alive(proc)
  <2>1. child' = child
    BY <1>1, <1>4
  <2>2. proc # 0 => child[proc] # "up"
    BY <1>4 DEF R!Alive
  <2>3. \A c \in R!Children : c # 0
    BY RunBounds DEF R!Children
  <2> QED
    BY <1>1, <1>2, <1>3, <2>1, <2>2, <2>3 DEF R!Spawned
<1>5. CASE proc # 0 /\ R!Alive(proc)
  <2>1. /\ child' = [child EXCEPT ![proc] = "told"] /\ child[proc] # "none"
        /\ proc \in R!Children
    BY <1>1, <1>2, <1>5, RunBounds DEF R!Alive, R!Children
  <2> QED
    BY <1>1, <1>2, <1>3, <2>1 DEF R!Spawned
<1> QED
  BY <1>4, <1>5

(* A caller that closes the child, or stops, leaves nothing running.       *)
LEMMA ClosedKeeps ==
    ASSUME RunInv, NEW Moved \in SUBSET Calls, Shuffled(Moved), R!TellToEnd,
           excused \subseteq excused', UNCHANGED <<childKey, hostKey, localKey, addedKey>>,
           dreamTimer' \in BOOLEAN, timers' \in Nat, dreams' \in Nat, Dreams'
    PROVE  RunInv'
<1>1. /\ child' \in [R!Children -> {"none", "up", "told", "gone"}]
      /\ proc' = 0 /\ initialized' = FALSE /\ R!Spawned' = R!Spawned
      /\ "start beside close" \notin excused => \A c \in R!Children : child'[c] # "up"
  BY TellIs
<1>2. RunTyped'
  <2>1. proc' \in 0..MaxChildren
    <3>1. 0 \in 0..MaxChildren
      BY RunBounds
    <3> QED
      BY <1>1, <3>1, Zenon
  <2>2. initialized' \in BOOLEAN
    BY <1>1, Zenon
  <2> QED
    BY <1>1, <2>1, <2>2, TypedKept
<1>3. OwnStart' /\ Room'
  BY <1>1, RoomKept DEF Shuffled, RunInv
<1>4. HandsAreThere'
  <2>1. \A c \in R!Children : child[c] # "none" => child'[c] # "none"
    BY <1>1 DEF R!Spawned
  <2>2. \A h \in Calls : attempt'[h].pc = "handshake" => attempt'[h] = attempt[h]
    BY DEF Shuffled
  <2> QED
    BY <1>1, <2>1, <2>2 DEF HandsAreThere, RunInv, R!Children
<1>5. R!NoChildIsLost'
  BY <1>1 DEF R!NoChildIsLost
<1>6. Current'
  <2>1. ~R!isRunning'
    BY <1>1 DEF R!isRunning
  <2> QED
    BY <2>1, CurrentKept
<1> QED
  BY <1>2, <1>3, <1>4, <1>5, <1>6 DEF RunInv

(* The bridge has answered: go on, join a start or close the child first.  *)
LEMMA StepAfterPing == ASSUME RunInv, NEW h \in Calls, R!AfterPing(h) PROVE RunInv'
<1>1. /\ call[h].pc = "pinged" /\ attempt[h].pc = "none" /\ call[h] \in CallRec
      /\ attempt[h] \in StartRec
      /\ UNCHANGED <<hostKey, localKey, addedKey, dreamTimer, timers, dreams>>
  BY DEF R!AfterPing, RunInv, RunTyped, OwnStart, StartRec, R!keyVars, R!dreamVars
<1>t. /\ call \in [Calls -> CallRec] /\ attempt \in [Calls -> StartRec]
      /\ dreamTimer' \in BOOLEAN /\ timers' \in Nat /\ dreams' \in Nat
      /\ proc \in 0..MaxChildren /\ initialized \in BOOLEAN
      /\ child \in [R!Children -> {"none", "up", "told", "gone"}]
  BY <1>1 DEF RunInv, RunTyped
<1>2. CASE /\ call[h].running /\ ~call[h].changed
           /\ call' = [call EXCEPT ![h] = [R!Idle EXCEPT !.pc = "status"]]
           /\ UNCHANGED <<R!bridgeVars, excused>>
  <2>1. UNCHANGED <<attempt, startPromise, child, childKey, proc, initialized, excused>>
    BY <1>2 DEF R!bridgeVars
  <2>2. /\ call' \in [Calls -> CallRec] /\ call'[h].pc = "status"
        /\ \A g \in Calls \ {h} : call'[g] = call[g]
    BY <1>2, <1>t, StatusIs
  <2>3. Shuffled({h})
    BY <1>1, <2>1, <2>2 DEF Shuffled, RunInv, RunTyped, OwnStart, Starters
  <2>4. OwnStart' /\ Room' /\ HandsAreThere' /\ R!NoChildIsLost'
    BY <2>1, <2>3, CallsOnly
  <2>5. Current'
    BY <1>1, <1>2, <2>1, <2>3, CurrentKept
  <2>6. RunTyped' /\ Dreams'
    BY <1>1, <1>t, <2>1, <2>3, TypedKept, DreamsKept DEF R!dreamVars
  <2> QED
    BY <2>4, <2>5, <2>6 DEF RunInv
<1>3. CASE /\ call[h].running /\ call[h].changed /\ proc # 0
           /\ call' = [call EXCEPT ![h] = [R!Idle EXCEPT !.pc = "closing", !.old = proc]]
           /\ R!TellToEnd
           /\ R!Excused("start beside close", R!StartUnderWay)
           /\ UNCHANGED <<attempt, startPromise, childKey>>
  <2>1. /\ call' \in [Calls -> CallRec] /\ call'[h].pc = "closing"
        /\ \A g \in Calls \ {h} : call'[g] = call[g]
    BY <1>3, <1>t, ClosingIs
  <2>2. Shuffled({h})
    BY <1>1, <1>3, <2>1 DEF Shuffled, RunInv, RunTyped, OwnStart, Starters
  <2>3. excused \subseteq excused'
    BY <1>3 DEF R!Excused
  <2>4. Dreams'
    BY <1>1, <2>3, DreamsKept DEF R!dreamVars
  <2> QED
    BY <1>1, <1>3, <1>t, <2>2, <2>3, <2>4, ClosedKeeps
<1>4. CASE /\ ~call[h].running \/ (call[h].changed /\ proc = 0)
           /\ R!JoinStart(h)
           /\ UNCHANGED <<child, childKey, proc, initialized>>
  <2>1. Shuffled({h}) /\ excused \subseteq excused'
    BY <1>1, <1>4, JoinIs DEF RunInv
  <2>2. OwnStart' /\ Room' /\ HandsAreThere' /\ R!NoChildIsLost'
    BY <1>4, <2>1, CallsOnly
  <2>3. proc = 0 => ~R!isRunning'
    BY <1>4 DEF R!isRunning
  <2>4. Current'
    BY <1>1, <1>4, <2>1, <2>3, CurrentKept
  <2>5. RunTyped' /\ Dreams'
    BY <1>1, <1>4, <1>t, <2>1, TypedKept, DreamsKept DEF R!dreamVars
  <2> QED
    BY <2>2, <2>4, <2>5 DEF RunInv
<1> QED
  BY <1>2, <1>3, <1>4 DEF R!AfterPing

(* Steps that change no more than the callers, and perhaps a timer.        *)
LEMMA CallsMove ==
    ASSUME RunInv, Shuffled({}), excused \subseteq excused',
           UNCHANGED <<child, childKey, proc, initialized, hostKey, localKey, addedKey>>,
           dreamTimer' \in BOOLEAN, timers' \in Nat, dreams' \in Nat, Dreams'
    PROVE  RunInv'
<1>1. OwnStart' /\ Room' /\ HandsAreThere' /\ R!NoChildIsLost'
  BY CallsOnly
<1>2. Current'
  BY CurrentKept
<1>3. RunTyped'
  BY TypedKept DEF RunInv, RunTyped
<1> QED
  BY <1>1, <1>2, <1>3 DEF RunInv

(* A child does not end in time.                                           *)
LEMMA StepCloseOut == ASSUME RunInv, NEW h \in Calls, R!CloseTimesOut(h) PROVE RunInv'
<1>1. /\ call[h].pc = "closing" /\ R!RejectAllPending({h}) /\ excused \subseteq excused'
      /\ UNCHANGED <<child, childKey, proc, initialized, hostKey, localKey, addedKey,
                     dreamTimer, timers, dreams>>
  BY DEF R!CloseTimesOut, R!Excused, R!keyVars, R!dreamVars
<1>2. Shuffled({})
  BY <1>1, RejectIs DEF RunInv
<1>3. Dreams'
  BY <1>1, DreamsKept DEF R!dreamVars
<1>4. dreamTimer' \in BOOLEAN /\ timers' \in Nat /\ dreams' \in Nat
  BY <1>1 DEF RunInv, RunTyped
<1> QED
  BY <1>1, <1>2, <1>3, <1>4, CallsMove

(* The stop of the service does not wait any longer.                       *)
LEMMA StepStopOut == ASSUME RunInv, R!StopTimesOut PROVE RunInv'
<1>1. /\ R!RejectAllPending({}) /\ excused' = excused
      /\ UNCHANGED <<child, childKey, proc, initialized, hostKey, localKey, addedKey,
                     dreamTimer, timers, dreams>>
  BY DEF R!StopTimesOut, R!keyVars, R!dreamVars
<1>2. Shuffled({})
  BY <1>1, RejectIs DEF RunInv
<1>3. Dreams'
  BY <1>1, DreamsKept DEF R!dreamVars
<1>4. dreamTimer' \in BOOLEAN /\ timers' \in Nat /\ dreams' \in Nat
  BY <1>1 DEF RunInv, RunTyped
<1> QED
  BY <1>1, <1>2, <1>3, <1>4, CallsMove

(* The timer is armed, and the call ends.                                  *)
LEMMA StepArm ==
    ASSUME RunInv, NEW h \in Calls, R!ArmDreamTimer(h) \/ R!Return(h)
    PROVE RunInv'
<1>1. /\ UNCHANGED <<attempt, startPromise, child, childKey, proc, initialized, hostKey,
                     localKey, addedKey, dreams>>
      /\ call[h].pc \in {"status", "ready"}
      /\ \/ call' = [call EXCEPT ![h].pc = "ready"]
         \/ call' = [call EXCEPT ![h] = R!Idle]
      /\ \/ UNCHANGED <<dreamTimer, timers, excused>>
         \/ /\ ~dreamTimer /\ dreamTimer' = TRUE /\ timers' = timers + 1
            /\ excused' = excused \cup (IF dreams > 0 THEN {"armed during a run"} ELSE {})
  BY DEF R!ArmDreamTimer, R!Return, R!Excused, R!bridgeVars, R!keyVars, R!dreamVars
<1>t. /\ call \in [Calls -> CallRec] /\ attempt \in [Calls -> StartRec]
      /\ dreamTimer \in BOOLEAN /\ timers \in Nat /\ dreams \in Nat /\ call[h] \in CallRec
  BY DEF RunInv, RunTyped
<1>2. PICK e \in CallRec : call' = [call EXCEPT ![h] = e] /\ e.pc \in {"ready", "off"}
  <2>1. /\ [call[h] EXCEPT !.pc = "ready"] \in CallRec
        /\ [call[h] EXCEPT !.pc = "ready"].pc = "ready"
    BY <1>t DEF CallRec, Stages
  <2> QED
    BY <1>1, <2>1, IdleIs
<1>3. /\ call' \in [Calls -> CallRec] /\ call'[h].pc \in {"ready", "off"}
      /\ \A g \in Calls \ {h} : call'[g] = call[g]
  BY <1>2, <1>t
<1>4. Shuffled({})
  <2>1. attempt[h].pc = "none"
    BY <1>1, <1>t DEF RunInv, OwnStart, StartRec
  <2>2. UNCHANGED <<attempt, startPromise>> /\ call[h].pc # "pinged"
    BY <1>1
  <2>3. OwnStart'
    BY <1>3, <2>1, <2>2 DEF RunInv, OwnStart
  <2>4. Starters' \subseteq Starters
    BY <1>3, <2>2 DEF Starters
  <2> QED
    BY <1>3, <2>2, <2>3, <2>4 DEF Shuffled, RunInv, RunTyped
<1>5. /\ dreamTimer' \in BOOLEAN /\ timers' \in Nat /\ dreams' \in Nat
      /\ excused \subseteq excused'
  <2>1. dreamTimer' \in BOOLEAN
    BY <1>1, <1>t, Zenon
  <2>2. timers' \in {timers, timers + 1} /\ dreams' = dreams
    BY <1>1
  <2>3. excused \subseteq excused'
    BY <1>1
  <2> QED
    BY <2>1, <2>2, <2>3, <1>t
<1>6. Dreams'
  <2>1. CASE UNCHANGED <<dreamTimer, timers, excused>>
    BY <2>1, <1>1 DEF RunInv, Dreams
  <2>2. CASE /\ ~dreamTimer /\ dreamTimer' = TRUE /\ timers' = timers + 1
             /\ excused' = excused \cup (IF dreams > 0 THEN {"armed during a run"} ELSE
                    {})
    <3>0. timers' = timers + 1 /\ dreams' = dreams /\ timers \in Nat /\ dreams \in Nat
      BY <2>2, <1>1, <1>t
    <3>1. timers' >= 1
      BY <3>0
    <3>2. CASE "armed during a run" \in excused'
      BY <3>1, <3>2 DEF Dreams
    <3>3. CASE "armed during a run" \notin excused'
      <4>1. ~(dreams > 0) /\ "armed during a run" \notin excused
        BY <2>2, <3>3
      <4>2. ~(timers >= 1)
        BY <2>2, <4>1 DEF RunInv, Dreams
      <4>3. timers' + dreams' <= 1
        <5>1. timers = 0 /\ dreams = 0
          <6>1. timers = 0
            BY <1>t, <4>2
          <6>2. dreams = 0
            <7>1. ~(dreams > 0)
              BY <4>1
            <7> QED
              BY <1>t, <7>1
          <6> QED
            BY <6>1, <6>2
        <5>2. timers' = 0 + 1 /\ dreams' = 0
          BY <3>0, <5>1
        <5> QED
          BY <5>2
      <4>4. dreamTimer'
        BY <2>2
      <4> QED
        BY <3>1, <4>3, <4>4 DEF Dreams
    <3> QED
      BY <3>2, <3>3
  <2> QED
    BY <1>1, <2>1, <2>2
<1> QED
  BY <1>1, <1>4, <1>5, <1>6, CallsMove

(* The bridge has no child that is alive, and a start makes one.           *)
LEMMA StepSpawn == ASSUME RunInv, NEW h \in Calls, R!Spawn(h) PROVE RunInv'
<1> DEFINE c == Cardinality(R!Spawned) + 1
<1>1. /\ attempt[h].pc = "token"
      /\ addedKey' = IF localKey = 0 THEN addedKey ELSE localKey
      /\ \/ proc # 0 /\ R!Settled(h, FALSE) /\ UNCHANGED <<child, childKey, proc>>
         \/ /\ proc = 0
            /\ child' = [child EXCEPT ![c] = "up"]
            /\ childKey' = [childKey EXCEPT ![c] = addedKey'] /\ proc' = c
            /\ attempt' = [attempt EXCEPT ![h] = [pc |-> "handshake", child |-> c]]
            /\ UNCHANGED <<call, startPromise>>
      /\ UNCHANGED <<initialized, excused, hostKey, localKey, dreamTimer, timers, dreams>>
  BY DEF R!Spawn, R!dreamVars, R!Cardinality, Cardinality
<1> HIDE DEF c
<1>t. /\ call \in [Calls -> CallRec] /\ attempt \in [Calls -> StartRec]
      /\ child \in [R!Children -> {"none", "up", "told", "gone"}]
      /\ childKey \in [R!Children -> Nat] /\ proc \in 0..MaxChildren
      /\ {hostKey, localKey, addedKey} \subseteq Nat /\ addedKey' \in Nat
  BY <1>1 DEF RunInv, RunTyped
<1>d. Dreams'
  BY <1>1, DreamsKept DEF R!dreamVars
<1>2. CASE proc # 0 /\ R!Settled(h, FALSE) /\ UNCHANGED <<child, childKey, proc>>
  <2>1. Shuffled({})
    BY <1>2, SettledIs DEF RunInv
  <2>2. OwnStart' /\ Room' /\ HandsAreThere' /\ R!NoChildIsLost'
    BY <1>1, <1>2, <2>1, CallsOnly
  <2>3. Current'
    BY <1>1, <1>2, <2>1, CurrentKept
  <2>4. RunTyped'
    BY <1>1, <1>2, <1>t, <2>1 DEF RunInv, RunTyped, Shuffled
  <2> QED
    BY <2>2, <2>3, <2>4, <1>d DEF RunInv
<1>3. CASE /\ proc = 0
           /\ child' = [child EXCEPT ![c] = "up"]
           /\ childKey' = [childKey EXCEPT ![c] = addedKey'] /\ proc' = c
           /\ attempt' = [attempt EXCEPT ![h] = [pc |-> "handshake", child |-> c]]
           /\ UNCHANGED <<call, startPromise>>
  <2>1. PICK n \in 0..MaxChildren : R!Spawned = 1..n /\ n + Cardinality(Starters) <= MaxChildren
    BY DEF RunInv, Room
  <2>2. Cardinality(R!Spawned) = n
    BY <2>1, FS_Interval
  <2>3. h \in Starters /\ Starters \subseteq Calls
    BY <1>1 DEF Starters
  <2>4. /\ IsFiniteSet(Starters) /\ Cardinality(Starters) \in Nat
        /\ Cardinality(Starters \ {h}) = Cardinality(Starters) - 1
        /\ Cardinality(Starters \ {h}) \in Nat
    <3>1. IsFiniteSet(Starters)
      BY <2>3, StartersFinite
    <3> QED
      BY <2>3, <3>1, FS_RemoveElement, FS_CardinalityType
  <2>5. c = n + 1 /\ n \in Nat /\ c \in R!Children /\ c # 0
    BY <2>1, <2>2, <2>4, RunBounds DEF c, R!Children
  <2>6. child[c] = "none"
    <3>1. c \notin R!Spawned
      BY <2>1, <2>5
    <3> QED
      BY <3>1, <2>5 DEF R!Spawned
  <2>7. /\ child' \in [R!Children -> {"none", "up", "told", "gone"}] /\ child'[c] = "up"
        /\ childKey' \in [R!Children -> Nat] /\ childKey'[c] = addedKey'
        /\ \A d \in R!Children \ {c} : child'[d] = child[d] /\ childKey'[d] = childKey[d]
    BY <1>3, <1>t, <2>5
  <2>8. PICK e \in StartRec : /\ e = [pc |-> "handshake", child |-> c]
                              /\ e.pc = "handshake" /\ e.child = c
    <3>1. c \in 0..MaxChildren
      BY <2>5, RunBounds DEF R!Children
    <3>2. [pc |-> "handshake", child |-> c] \in StartRec
      BY <3>1 DEF StartRec
    <3> QED
      BY <3>2
  <2>9. /\ attempt' \in [Calls -> StartRec] /\ attempt'[h] = e
        /\ \A g \in Calls \ {h} : attempt'[g] = attempt[g]
    BY <1>3, <1>t, <2>8
  <2>10. RunTyped'
    <3>1. proc' \in 0..MaxChildren
      BY <1>3, <2>5 DEF R!Children
    <3> QED
      BY <1>1, <1>3, <1>t, <2>7, <2>9, <3>1 DEF RunInv, RunTyped
  <2>11. OwnStart'
    BY <1>1, <1>3, <2>9 DEF RunInv, OwnStart
  <2>12. Room'
    <3>1. R!Spawned' = 1..(n + 1)
      <4>1. R!Spawned' = R!Spawned \cup {c}
        BY <2>5, <2>7 DEF R!Spawned
      <4>2. (1..n) \cup {n + 1} = 1..(n + 1)
        BY <2>5
      <4> QED
        BY <4>1, <4>2, <2>1, <2>5
    <3>2. Starters' = Starters \ {h}
      <4>1. call[h].pc = "waiting"
        BY <1>1 DEF RunInv, OwnStart
      <4> QED
        BY <4>1, <1>3, <2>8, <2>9 DEF Starters
    <3>3. n + 1 \in 0..MaxChildren /\ (n + 1) + Cardinality(Starters') <= MaxChildren
      BY <2>1, <2>4, <2>5, <3>2, RunBounds DEF R!Children
    <3> QED
      BY <3>1, <3>3 DEF Room
  <2>13. HandsAreThere'
    BY <1>1, <1>3, <2>5, <2>7, <2>8, <2>9 DEF RunInv, HandsAreThere
  <2>14. R!NoChildIsLost'
    <3>1. \A d \in R!Children : d # 0
      BY RunBounds DEF R!Children
    <3> QED
      BY <3>1, <1>1, <1>3, <2>5, <2>7 DEF RunInv, R!NoChildIsLost
  <2>15. Current'
    <3>1. CASE excused \cap Stale # {}
      BY <3>1, <1>1 DEF Current
    <3>2. CASE excused \cap Stale = {}
      <4>1. localKey # 0 /\ \A g \in Calls : attempt[g].pc = "handshake" =>
                               childKey[attempt[g].child] = localKey
        BY <3>2 DEF RunInv, Current
      <4>2. addedKey' = localKey
        BY <4>1, <1>1
      <4>3. \A g \in Calls : attempt'[g].pc = "handshake" =>
               childKey'[attempt'[g].child] = localKey'
        <5> SUFFICES ASSUME NEW g \in Calls, attempt'[g].pc = "handshake"
                     PROVE  childKey'[attempt'[g].child] = localKey'
          OBVIOUS
        <5>1. CASE g = h
          BY <5>1, <4>2, <2>7, <2>8, <2>9, <1>1
        <5>2. CASE g # h
          <6>1. attempt'[g] = attempt[g]
            BY <5>2, <2>9
          <6>2. attempt[g].child \in R!Children /\ child[attempt[g].child] # "none"
            BY <6>1 DEF RunInv, HandsAreThere
          <6> QED
            BY <6>1, <6>2, <4>1, <2>6, <2>7, <1>1
        <5> QED
          BY <5>1, <5>2
      <4>4. ~R!isRunning'
        BY <1>1, <1>3 DEF RunInv, HandsAreThere, R!isRunning
      <4> QED
        BY <4>1, <4>3, <4>4, <1>1 DEF Current
    <3> QED
      BY <3>1, <3>2
  <2> QED
    BY <2>10, <2>11, <2>12, <2>13, <2>14, <2>15, <1>d DEF RunInv
<1> QED
  BY <1>1, <1>2, <1>3

(* The child has answered.                                                 *)
LEMMA StepAnswered ==
    ASSUME RunInv, NEW h \in Calls, R!HandshakeAnswered(h)
    PROVE RunInv'
<1>1. /\ attempt[h].pc = "handshake" /\ attempt[h].child = proc /\ child[proc] = "up"
      /\ initialized' = TRUE /\ R!Settled(h, TRUE)
      /\ UNCHANGED <<child, childKey, proc, excused, hostKey, localKey, addedKey,
                     dreamTimer, timers, dreams>>
  BY DEF R!HandshakeAnswered, R!keyVars, R!dreamVars
<1>2. Shuffled({})
  BY <1>1, SettledIs DEF RunInv
<1>3. proc \in R!Children /\ proc # 0
  BY <1>1, RunBounds DEF RunInv, HandsAreThere, R!Children
<1>4. RunTyped'
  <2>1. initialized' \in BOOLEAN
    BY <1>1, Zenon
  <2> QED
    BY <1>1, <1>2, <2>1 DEF RunInv, RunTyped, Shuffled
<1>5. OwnStart' /\ Starters' \subseteq Starters
  BY <1>2 DEF Shuffled
<1>6. Room'
  <2>1. R!Spawned' = R!Spawned
    BY <1>1 DEF R!Spawned
  <2> QED
    BY <2>1, <1>5, RoomKept DEF RunInv
<1>7. HandsAreThere'
  BY <1>1, <1>2, <1>3 DEF RunInv, HandsAreThere, Shuffled
<1>8. R!NoChildIsLost' /\ Dreams'
  BY <1>1, DreamsKept DEF RunInv, R!NoChildIsLost, R!dreamVars
<1>9. Current'
  BY <1>1, <1>2 DEF RunInv, Current, Shuffled
<1> QED
  BY <1>4, <1>5, <1>6, <1>7, <1>8, <1>9 DEF RunInv

(* The child has not answered in time.                                     *)
LEMMA StepTimeout ==
    ASSUME RunInv, NEW h \in Calls, R!HandshakeTimesOut(h)
    PROVE RunInv'
<1>1. /\ R!Settled(h, FALSE)
      /\ UNCHANGED <<child, childKey, proc, initialized, excused, hostKey, localKey,
                     addedKey, dreamTimer, timers, dreams>>
  BY DEF R!HandshakeTimesOut, R!keyVars, R!dreamVars
<1>2. Shuffled({})
  BY <1>1, SettledIs DEF RunInv
<1>3. Dreams'
  BY <1>1, DreamsKept DEF R!dreamVars
<1>4. dreamTimer' \in BOOLEAN /\ timers' \in Nat /\ dreams' \in Nat
  BY <1>1 DEF RunInv, RunTyped
<1> QED
  BY <1>1, <1>2, <1>3, <1>4, CallsMove

(* The child that goes may be another than the bridge's.                   *)
LEMMA StepExit == ASSUME RunInv, NEW c \in R!Children, R!ChildExits(c) PROVE RunInv'
<1> DEFINE closers == {h \in Calls : call[h].pc = "closing" /\ call[h].old = c}
<1>1. /\ R!Alive(c) /\ child' = [child EXCEPT ![c] = "gone"]
      /\ R!RejectAllPending(closers)
      /\ proc' = 0 /\ initialized' = FALSE
      /\ excused' = excused \cup
            (IF R!CloseUnderWay /\ \E d \in R!Children \ {c} : R!Alive(d)
             THEN {"start beside close"} ELSE {})
      /\ UNCHANGED <<childKey, hostKey, localKey, addedKey, dreamTimer, timers, dreams>>
  BY DEF R!ChildExits, R!Excused, R!keyVars, R!dreamVars
<1>2. Shuffled({})
  BY <1>1, RejectIs DEF RunInv
<1>t. child \in [R!Children -> {"none", "up", "told",
    "gone"}] /\ excused \subseteq excused'
  BY <1>1 DEF RunInv, RunTyped
<1>3. /\ child' \in [R!Children -> {"none", "up", "told", "gone"}] /\ child'[c] = "gone"
      /\ \A d \in R!Children \ {c} : child'[d] = child[d]
      /\ child[c] \in {"up", "told"}
  BY <1>1, <1>t DEF R!Alive
<1>4. RunTyped'
  <2>1. 0 \in 0..MaxChildren
    BY RunBounds
  <2>2. initialized' \in BOOLEAN /\ proc' \in 0..MaxChildren
    BY <1>1, <2>1, Zenon
  <2> QED
    BY <1>1, <1>2, <1>3, <2>2 DEF RunInv, RunTyped, Shuffled
<1>5. OwnStart' /\ Starters' \subseteq Starters
  BY <1>2 DEF Shuffled
<1>6. Room'
  <2>1. R!Spawned' = R!Spawned
    BY <1>3 DEF R!Spawned
  <2> QED
    BY <2>1, <1>5, RoomKept DEF RunInv
<1>7. HandsAreThere'
  BY <1>1, <1>2, <1>3 DEF RunInv, HandsAreThere, Shuffled
<1>8. R!NoChildIsLost'
  <2> SUFFICES ASSUME "start beside close" \notin excused',
      NEW d \in R!Children, child'[d] = "up"
               PROVE  FALSE
    BY DEF R!NoChildIsLost
  <2>1. /\ ~(R!CloseUnderWay /\ \E k \in R!Children \ {c} : R!Alive(k))
        /\ "start beside close" \notin excused
    BY <1>1
  <2>2. d # c /\ child[d] = "up" /\ d # 0
    <3>1. d # c
      BY <1>3
    <3>2. child'[d] = child[d]
      BY <3>1, <1>3
    <3>3. \A k \in R!Children : k # 0
      BY ChildrenCount
    <3> QED
      BY <3>1, <3>2, <3>3
  <2>3. R!Alive(d) /\ ~R!CloseUnderWay
    BY <2>1, <2>2 DEF R!Alive
  <2>4. child[c] = "up"
    BY <1>3, <2>3 DEF R!CloseUnderWay
  <2> QED
    BY <2>1, <2>2, <2>4 DEF RunInv, R!NoChildIsLost
<1>9. Dreams'
  BY <1>1, <1>t, DreamsKept DEF R!dreamVars
<1>10. Current'
  <2>1. ~R!isRunning'
    BY <1>1 DEF R!isRunning
  <2> QED
    BY <2>1, <1>1, <1>2, <1>t, CurrentKept
<1> QED
  BY <1>4, <1>5, <1>6, <1>7, <1>8, <1>9, <1>10 DEF RunInv

(* A timer fires, or a run ends and arms the next.                         *)
LEMMA StepDream == ASSUME RunInv, R!DreamTimerFires \/ R!DreamEnds PROVE RunInv'
<1>1. UNCHANGED <<call, attempt, startPromise, child, childKey, proc, initialized, hostKey,
                  localKey, addedKey, excused>>
  BY DEF R!DreamTimerFires, R!DreamEnds, R!bridgeVars, R!keyVars
<1>2. Shuffled({})
  BY <1>1, Rested DEF RunInv
<1>3. timers \in Nat /\ dreams \in Nat /\ dreamTimer \in BOOLEAN
  BY DEF RunInv, RunTyped
<1>4. CASE R!DreamTimerFires
  <2>1. timers > 0 /\ timers' = timers - 1 /\ dreamTimer' = FALSE /\ dreams' = dreams + 1
    BY <1>4 DEF R!DreamTimerFires
  <2>2. timers' \in Nat /\ dreams' \in Nat /\ timers' + dreams' = timers + dreams
    BY <2>1, <1>3
  <2>3. dreamTimer' \in BOOLEAN
    BY <2>1, Zenon
  <2>4. timers + dreams <= 1 => ~(timers' >= 1)
    BY <2>1, <1>3
  <2>5. Dreams'
    BY <1>1, <2>1, <2>2, <2>4 DEF RunInv, Dreams
  <2> QED
    BY <1>1, <1>2, <2>2, <2>3, <2>5, CallsMove
<1>5. CASE R!DreamEnds
  <2>1. dreams > 0 /\ dreams' = dreams - 1 /\ timers' = timers + 1 /\ dreamTimer' = TRUE
    BY <1>5 DEF R!DreamEnds
  <2>2. /\ timers' \in Nat /\ dreams' \in Nat /\ timers' + dreams' = timers + dreams
        /\ timers' >= 1
    BY <2>1, <1>3
  <2>3. dreamTimer' \in BOOLEAN /\ dreamTimer'
    BY <2>1, Zenon
  <2>5. Dreams'
    BY <1>1, <2>2, <2>3 DEF RunInv, Dreams
  <2> QED
    BY <1>1, <1>2, <2>2, <2>3, <2>5, CallsMove
<1> QED
  BY <1>4, <1>5

(* The service stops.                                                      *)
LEMMA StepStop == ASSUME RunInv, R!Stop PROVE RunInv'
<1>1. /\ startPromise' = Nobody /\ R!TellToEnd
      /\ dreamTimer' = FALSE /\ timers' = IF dreamTimer THEN timers - 1 ELSE timers
      /\ excused' = excused \cup (IF R!StartUnderWay THEN {"start beside close"} ELSE {})
      /\ UNCHANGED <<call, attempt, childKey, hostKey, localKey, addedKey, dreams>>
  BY DEF R!Stop, R!Excused, R!keyVars
<1>t. timers \in Nat /\ dreams \in Nat /\ dreamTimer \in BOOLEAN
  BY DEF RunInv, RunTyped
<1>2. Shuffled({}) /\ excused \subseteq excused'
  BY <1>1 DEF RunInv, RunTyped, OwnStart, Shuffled, Starters
<1>3. timers' \in Nat /\ timers' <= timers /\ (timers <= 1 /\ dreamTimer => timers' = 0)
  <2>1. CASE dreamTimer
    <3>1. timers' = timers - 1
      BY <1>1, <2>1
    <3>2. timers >= 1
      BY <2>1 DEF RunInv, Dreams
    <3> QED
      BY <3>1, <3>2, <1>t
  <2>2. CASE ~dreamTimer
    <3>1. timers' = timers
      BY <1>1, <2>2
    <3> QED
      BY <3>1, <2>2, <1>t
  <2> QED
    BY <2>1, <2>2
<1>4. dreamTimer' \in BOOLEAN /\ dreams' \in Nat
  <2>1. dreamTimer' \in BOOLEAN
    BY <1>1, Zenon
  <2> QED
    BY <1>1, <1>t, <2>1
<1>5. Dreams'
  <2>1. CASE "armed during a run" \in excused
    BY <2>1, <1>1, <1>2 DEF Dreams
  <2>2. CASE "armed during a run" \notin excused
    <3>1. timers + dreams <= 1 /\ (timers >= 1 => dreamTimer)
      BY <2>2 DEF RunInv, Dreams
    <3>2. timers' + dreams' <= 1 /\ ~(timers' >= 1)
      <4>1. dreams' = dreams
        BY <1>1
      <4>2. timers' = 0
        <5>1. CASE timers >= 1
          BY <5>1, <3>1, <1>3, <1>t
        <5>2. CASE ~(timers >= 1)
          BY <5>2, <1>3, <1>t
        <5> QED
          BY <5>1, <5>2
      <4> QED
        BY <4>1, <4>2, <3>1, <1>t
    <3> QED
      BY <3>2, <1>1 DEF Dreams
  <2> QED
    BY <2>1, <2>2
<1> QED
  BY <1>1, <1>2, <1>3, <1>4, <1>5, ClosedKeeps

(* Every step of the runtime keeps its invariant.                          *)
LEMMA RunStep == RunInv /\ [R!Next]_(R!vars) => RunInv'
<1> SUFFICES ASSUME RunInv, [R!Next]_(R!vars) PROVE RunInv'
  OBVIOUS
<1>1. CASE UNCHANGED R!vars
  <2>1. UNCHANGED <<call, attempt, startPromise, child, childKey, proc, initialized, hostKey,
                    localKey, addedKey, dreamTimer, timers, dreams, excused>>
    BY <1>1 DEF R!vars
  <2>2. Shuffled({}) /\ Dreams'
    BY <2>1, Rested, DreamsKept DEF RunInv, R!dreamVars
  <2>3. dreamTimer' \in BOOLEAN /\ timers' \in Nat /\ dreams' \in Nat
    BY <2>1 DEF RunInv, RunTyped
  <2> QED
    BY <2>1, <2>2, <2>3, CallsMove
<1> QED
  BY <1>1, StepHost, StepOutside, StepEnsure, StepAfterPing, StepCloseOut, StepStopOut,
     StepArm,
     StepSpawn, StepAnswered, StepTimeout, StepExit, StepDream, StepStop
     DEF R!Next, R!StartStep, R!Advance

(* The invariant says what is promised of the runtime.                     *)
LEMMA RunIsGood == RunInv => R!NothingRunsTwice /\ R!RunsWithCurrentKey
BY DEF RunInv, R!NothingRunsTwice, R!OneDreamAtATime, Dreams, R!RunsWithCurrentKey,
   Current, Stale

(***************************************************************************)
(* The hooks                                                               *)
(***************************************************************************)

(* What an activity may be doing, and what it knows.                       *)
Doing == {"off", "entering", "adding", "captured", "arming"} \cup S!Consolidating
AnySession == S!Sessions \cup {S!NoSession}
TaskRec == [pc : Doing, user : Users, in : S!Sessions \cup {S!NoSession}, message : Nat,
            read : SUBSET Nat]

SessionTyped ==
    /\ session \in S!Sessions \cup {S!NoSession} /\ seq \in [Users -> 0..MaxSessions]
    /\ task \in [S!Tasks -> TaskRec] /\ asked \subseteq Users /\ sent \in Nat
    /\ buffer \in [S!Sessions -> SUBSET Nat]
    /\ summarised \subseteq Nat /\ taken \subseteq Nat

(* What consolidates is alone.                                             *)
Alone ==
    \A t, u \in S!Tasks :
        t # u /\ task[t].pc \in S!Consolidating => task[u].pc = "off"

(* What an activity works on is a session that a user is in, and what it   *)
(* is about to clear has been read, or is in a summary.                    *)
Sound(r, numbers, held, sums) ==
    /\ r.pc \in {"adding"} \cup S!Consolidating =>
          r.in \in S!Sessions /\ numbers[r.in[1]] = r.in[2]
    /\ r.pc = "store" => held[r.in] \subseteq r.read
    /\ r.pc \in {"clear", "renew"} => held[r.in] \subseteq sums

(* What was taken is in a session or a summary, and what a session that no *)
(* user is in still holds is in a summary.                                 *)
Latest(numbers, u) == <<u, IF numbers[u] = 0 THEN 1 ELSE numbers[u]>>
Found(numbers, held, sums, had) ==
    /\ \A m \in had : m \in sums \/ \E s \in S!Sessions : m \in held[s]
    /\ \A s \in S!Sessions : s = Latest(numbers, s[1]) \/ held[s] \subseteq sums

Fine ==
    /\ SessionTyped /\ Alone
    /\ session # S!NoSession => seq[session[1]] = session[2]
    /\ \A t \in S!Tasks : Sound(task[t], seq, buffer, summarised)
    /\ Found(seq, buffer, summarised, taken)

SessionInv == excuses = {} => Fine

(* Users, sessions and the sentinel of no session.                         *)
LEMMA Named ==
    /\ Owner \in Users /\ MaxSessions \in Nat /\ MaxSessions >= 1
    /\ S!NoSession \notin S!Sessions
    /\ \A s \in S!Sessions :
          s[1] \in Users /\ s[2] \in 1..MaxSessions /\ s = <<s[1], s[2]>>
    /\ \A u \in Users, n \in 1..MaxSessions : <<u, n>> \in S!Sessions /\ <<u, n>>[1] = u
                                              /\ <<u, n>>[2] = n
BY OpenClawAssumption DEF S!SessionAssumption, S!Sessions, S!NoSession

(* An activity that is off.                                                *)
LEMMA NoTaskIs ==
    /\ S!NoTask \in TaskRec /\ S!NoTask.pc = "off" /\ S!NoTask.in = S!NoSession
BY Named DEF S!NoTask, TaskRec, Doing

(* At first nothing was taken.                                             *)
LEMMA SessionInit == S!Init => SessionInv
<1> SUFFICES ASSUME S!Init PROVE Fine
  BY DEF SessionInv
<1> USE DEF S!Init
<1>1. SessionTyped
  BY Named, NoTaskIs DEF SessionTyped
<1>2. Alone /\ \A t \in S!Tasks : Sound(task[t], seq, buffer, summarised)
  BY NoTaskIs DEF Alone, Sound, S!Consolidating
<1>3. Found(seq, buffer, summarised, taken)
  BY DEF Found
<1> QED
  BY <1>1, <1>2, <1>3 DEF Fine

(* An activity goes on without an excuse.                                  *)
Goes(t, r) ==
    /\ task' \in [S!Tasks -> TaskRec] /\ task'[t] = r
    /\ \A u \in S!Tasks \ {t} : task'[u] = task[u]
    /\ \A u \in S!Tasks \ {t} :
          task[u].pc # "off" =>
              r.pc \notin S!Consolidating /\ task[u].pc \notin S!Consolidating

(* A step of an activity that needs no excuse had none before.             *)
LEMMA StepIs ==
    ASSUME Fine, NEW t \in S!Tasks, NEW r \in TaskRec, NEW x, S!StepExcused(t, r, x)
    PROVE  excuses' = {} => Goes(t, r) /\ x = {} /\ excuses = {}
<1>1. /\ task' = [task EXCEPT ![t] = r]
      /\ excuses' = excuses \cup x \cup (IF S!Beside(t, r.pc) THEN {"overlap"} ELSE {})
  BY DEF S!StepExcused
<1>2. /\ task' \in [S!Tasks -> TaskRec] /\ task'[t] = r
      /\ \A u \in S!Tasks \ {t} : task'[u] = task[u]
  BY <1>1 DEF Fine, SessionTyped
<1>3. ASSUME excuses' = {} PROVE ~S!Beside(t, r.pc) /\ x = {} /\ excuses = {}
  BY <1>1, <1>3
<1> QED
  BY <1>2, <1>3 DEF Goes, S!Beside, S!Busy

(* An activity that goes on so leaves what consolidates alone.             *)
LEMMA AloneKept ==
    ASSUME Fine, NEW t \in S!Tasks, NEW r \in TaskRec, Goes(t, r)
    PROVE  Alone'
<1> SUFFICES ASSUME NEW u \in S!Tasks,
    NEW v \in S!Tasks, u # v, task'[u].pc \in S!Consolidating
             PROVE  task'[v].pc = "off"
  BY DEF Alone
<1>1. \A w \in S!Tasks \ {t} : task'[w] = task[w]
  BY DEF Goes
<1>2. task'[t] = r
  BY DEF Goes
<1>3. CASE u = t
  <2>1. task[v].pc = "off"
    BY <1>2, <1>3 DEF Goes
  <2> QED
    BY <1>1, <1>3, <2>1
<1>4. CASE u # t /\ v = t
  <2>1. task[u].pc \in S!Consolidating /\ task[u].pc # "off"
    BY <1>1, <1>4 DEF S!Consolidating
  <2> QED
    BY <2>1, <1>4 DEF Goes
<1>5. CASE u # t /\ v # t
  BY <1>1, <1>5 DEF Fine, Alone
<1> QED
  BY <1>3, <1>4, <1>5

(* An activity goes on, and nothing else changes that matters.             *)
LEMMA TaskKeeps ==
    ASSUME Fine, NEW t \in S!Tasks, NEW r \in TaskRec, Goes(t, r),
           UNCHANGED <<session, seq, buffer, summarised, taken>>,
           asked' \subseteq Users, sent' \in Nat, Sound(r, seq, buffer, summarised)
    PROVE  Fine'
<1>1. SessionTyped'
  BY DEF Fine, SessionTyped, Goes
<1>2. Alone'
  BY AloneKept
<1>3. \A u \in S!Tasks : Sound(task'[u], seq, buffer, summarised)
  BY DEF Fine, Goes
<1> QED
  BY <1>1, <1>2, <1>3 DEF Fine

(* An activity that works on no session is sound.                          *)
LEMMA OffIsSound ==
    ASSUME NEW r, r.pc \in {"off", "entering", "captured", "arming"}, NEW n, NEW h, NEW s
    PROVE  Sound(r, n, h, s)
BY DEF Sound, S!Consolidating

(* An activity that begins.                                                *)
LEMMA Enters ==
    ASSUME NEW u \in Users, NEW m \in Nat
    PROVE  /\ [S!NoTask EXCEPT !.pc = "entering", !.user = u, !.message = m] \in TaskRec
           /\ [S!NoTask EXCEPT !.pc = "entering", !.user = u,
                  !.message = m].pc = "entering"
           /\ [S!NoTask EXCEPT !.pc = "entering"] \in TaskRec
           /\ [S!NoTask EXCEPT !.pc = "entering"].pc = "entering"
<1>1. PICK e \in TaskRec : e = S!NoTask
  BY NoTaskIs
<1>2. /\ [e EXCEPT !.pc = "entering", !.user = u, !.message = m] \in TaskRec
      /\ [e EXCEPT !.pc = "entering", !.user = u, !.message = m].pc = "entering"
      /\ [e EXCEPT !.pc = "entering"] \in TaskRec
      /\ [e EXCEPT !.pc = "entering"].pc = "entering"
  BY DEF TaskRec, Doing
<1> QED
  BY <1>1, <1>2

(* A prompt or an answer.                                                  *)
LEMMA StepPrompt ==
    ASSUME Fine, excuses' = {}, NEW u \in Users, S!BeforePrompt(u) \/ S!AgentEnd(u)
    PROVE  Fine'
<1>1. PICK m \in Nat : m = sent + 1
  BY DEF Fine, SessionTyped
<1>2. PICK r \in TaskRec :
         /\ r = [S!NoTask EXCEPT !.pc = "entering", !.user = u, !.message = m]
         /\ r.pc = "entering"
  BY Enters
<1>3. PICK t \in {"prompt", "end"} : S!Step(t, r)
  BY <1>1, <1>2 DEF S!BeforePrompt, S!AgentEnd
<1>4. /\ sent' \in Nat /\ asked' \subseteq Users
      /\ UNCHANGED <<session, seq, buffer, summarised, taken>>
  BY <1>1 DEF S!BeforePrompt, S!AgentEnd, Fine, SessionTyped, S!sessionVars, S!backendVars
<1>5. Goes(t, r) /\ t \in S!Tasks
  BY <1>3, StepIs DEF S!Step, S!Tasks
<1>6. Sound(r, seq, buffer, summarised)
  BY <1>2 DEF Sound, S!Consolidating
<1> QED
  BY <1>2, <1>4, <1>5, <1>6, TaskKeeps

(* An activity that goes on.                                               *)
LEMMA Turns ==
    ASSUME NEW e \in TaskRec, NEW pc \in Doing
    PROVE  /\ [e EXCEPT !.pc = pc] \in TaskRec
           /\ [e EXCEPT !.pc = pc].pc = pc
           /\ [e EXCEPT !.pc = pc].in = e.in
           /\ [e EXCEPT !.pc = pc].read = e.read
BY DEF TaskRec

(* An activity that has read.                                              *)
LEMMA TurnsReading ==
    ASSUME NEW e \in TaskRec, NEW pc \in Doing, NEW read \in SUBSET Nat
    PROVE  /\ [e EXCEPT !.pc = pc, !.read = read] \in TaskRec
           /\ [e EXCEPT !.pc = pc, !.read = read].pc = pc
           /\ [e EXCEPT !.pc = pc, !.read = read].in = e.in
           /\ [e EXCEPT !.pc = pc, !.read = read].read = read
BY DEF TaskRec

(* An activity that has done its work.                                     *)
LEMMA StopsAt ==
    ASSUME NEW pc \in Doing
    PROVE  /\ [S!NoTask EXCEPT !.pc = pc] \in TaskRec
           /\ [S!NoTask EXCEPT !.pc = pc].pc = pc
<1>1. PICK e \in TaskRec : e = S!NoTask
  BY NoTaskIs
<1>2. /\ [e EXCEPT !.pc = pc] \in TaskRec
      /\ [e EXCEPT !.pc = pc].pc = pc
  BY Turns
<1> QED
  BY <1>1, <1>2

(* Every activity has its type and is sound.                               *)
LEMMA TaskIs ==
    ASSUME Fine, NEW t \in S!Tasks
    PROVE  task[t] \in TaskRec /\ Sound(task[t], seq, buffer, summarised)
BY DEF Fine, SessionTyped

(* The fields of an activity.                                              *)
LEMMA InIs ==
    ASSUME NEW e \in TaskRec
    PROVE  e.pc \in Doing /\ e.in \in S!Sessions \cup {S!NoSession} /\ e.message \in Nat
           /\ e.read \in SUBSET Nat
BY DEF TaskRec

(* What works on a session changes it; nobody else consolidates.           *)
LEMMA WorkKeeps ==
    ASSUME Fine, NEW t \in S!Tasks, NEW r \in TaskRec, Goes(t, r), task[t].pc # "off",
           UNCHANGED <<session, seq, asked, sent>>,
           buffer' \in [S!Sessions -> SUBSET Nat], summarised' \subseteq Nat, taken' \subseteq Nat,
           Sound(r, seq, buffer', summarised'),
           Found(seq, buffer', summarised', taken')
    PROVE  Fine'
<1>1. SessionTyped'
  BY DEF Fine, SessionTyped, Goes
<1>2. Alone'
  BY AloneKept
<1>3. ASSUME NEW u \in S!Tasks PROVE Sound(task'[u], seq, buffer', summarised')
  <2>1. CASE u = t
    BY <2>1 DEF Goes
  <2>2. CASE u # t
    <3>1. task'[u] = task[u]
      BY <2>2 DEF Goes
    <3>2. task[u].pc \notin S!Consolidating
      BY <2>2 DEF Fine, Alone
    <3>3. Sound(task[u], seq, buffer, summarised)
      BY TaskIs
    <3> QED
      BY <3>1, <3>2, <3>3 DEF Sound, S!Consolidating
  <2> QED
    BY <2>1, <2>2
<1> QED
  BY <1>1, <1>2, <1>3 DEF Fine

(* A message that the current session takes is found.                      *)
LEMMA FoundAdd ==
    ASSUME NEW n, NEW h \in [S!Sessions -> SUBSET Nat], NEW sums,
           NEW had, Found(n, h, sums, had),
           NEW s \in S!Sessions, n[s[1]] = s[2], NEW m \in Nat
    PROVE  Found(n, [h EXCEPT ![s] = @ \cup {m}], sums, had \cup {m})
<1> DEFINE g == [h EXCEPT ![s] = @ \cup {m}]
<1>1. /\ \A x \in S!Sessions : x # s => g[x] = h[x]
      /\ g[s] = h[s] \cup {m}
  OBVIOUS
<1>2. s = Latest(n, s[1])
  <2>1. s = <<s[1], s[2]>> /\ s[2] \in 1..MaxSessions
    BY Named
  <2>2. s[2] # 0
    BY <2>1
  <2> QED
    BY <2>1, <2>2 DEF Latest
<1> HIDE DEF g
<1>3. \A y \in had \cup {m} : y \in sums \/ \E x \in S!Sessions : y \in g[x]
  BY <1>1 DEF Found
<1>4. \A x \in S!Sessions : x = Latest(n, x[1]) \/ g[x] \subseteq sums
  BY <1>1, <1>2 DEF Found
<1>5. Found(n, g, sums, had \cup {m})
  BY <1>3, <1>4 DEF Found
<1> QED
  BY <1>5 DEF g

(* A summary more loses nothing.                                           *)
LEMMA FoundSum ==
    ASSUME NEW n, NEW h, NEW sums, NEW had, Found(n, h, sums, had), NEW more
    PROVE  Found(n, h, sums \cup more, had)
BY DEF Found

(* Clearing a session that is in summaries loses nothing.                  *)
LEMMA FoundClear ==
    ASSUME NEW n, NEW h \in [S!Sessions -> SUBSET Nat], NEW sums,
           NEW had, Found(n, h, sums, had),
           NEW s \in S!Sessions, h[s] \subseteq sums
    PROVE  Found(n, [h EXCEPT ![s] = {}], sums, had)
<1> DEFINE g == [h EXCEPT ![s] = {}]
<1>1. /\ \A x \in S!Sessions : x # s => g[x] = h[x]
      /\ g[s] = {}
  OBVIOUS
<1> HIDE DEF g
<1>2. Found(n, g, sums, had)
  BY <1>1 DEF Found
<1> QED
  BY <1>2 DEF g

(* The prompt is recorded in the session that is current, or in the first  *)
(* of its sender.                                                          *)
LEMMA StepRecord ==
    ASSUME Fine, excuses' = {}, S!RecordUserTurn
    PROVE  Fine'
<1> DEFINE e == task["prompt"]
           s == S!ScopedSession(e.user)
           r == [e EXCEPT !.pc = "adding", !.in = s]
<1>1. "prompt" \in S!Tasks /\ e \in TaskRec
  BY TaskIs DEF S!Tasks
<1>2. e.user \in Users
  BY <1>1 DEF TaskRec
<1>3. /\ s \in S!Sessions
      /\ seq[s[1]] = s[2] \/ (seq[s[1]] = 0 /\ s[2] = 1)
  <2>1. CASE s = S!LatestSession(e.user)
    <3>1. seq[e.user] \in 0..MaxSessions
      BY <1>2 DEF Fine, SessionTyped
    <3>2. CASE seq[e.user] = 0
      BY <3>2, <2>1, <1>2, Named DEF S!LatestSession
    <3>3. CASE seq[e.user] # 0
      <4>1. seq[e.user] \in 1..MaxSessions
        BY <3>1, <3>3
      <4>2. s = <<e.user, seq[e.user]>>
        BY <2>1, <3>3 DEF S!LatestSession
      <4> QED
        BY <4>1, <4>2, <1>2, Named
    <3> QED
      BY <3>2, <3>3
  <2>2. CASE s = session /\ session # S!NoSession
    BY <2>2 DEF Fine, SessionTyped
  <2> QED
    BY <2>1, <2>2 DEF S!ScopedSession
<1>4. r \in TaskRec /\ r.pc = "adding" /\ r.in = s
  <2>1. s \in AnySession /\ "adding" \in Doing
    BY <1>3 DEF AnySession, Doing
  <2>2. PICK d \in TaskRec : d = e
    BY <1>1
  <2>3. /\ [d EXCEPT !.pc = "adding", !.in = s] \in TaskRec
        /\ [d EXCEPT !.pc = "adding", !.in = s].pc = "adding"
        /\ [d EXCEPT !.pc = "adding", !.in = s].in = s
    <3> HIDE DEF s
    <3> QED
      BY <2>1 DEF TaskRec, AnySession
  <2> QED
    BY <2>2, <2>3
<1>5. /\ session' = s /\ S!Opened(s) /\ S!Step("prompt", r)
      /\ UNCHANGED <<asked, sent, buffer, summarised, taken>>
  BY DEF S!RecordUserTurn, S!backendVars
<1> HIDE DEF r, s
<1>6. Goes("prompt", r)
  BY <1>1, <1>4, <1>5, StepIs DEF S!Step
<1>7. s[1] \in Users /\ s[2] \in 1..MaxSessions /\ s = <<s[1], s[2]>>
  BY <1>3, Named
<1>8. seq' = [seq EXCEPT ![s[1]] = s[2]] /\ seq \in [Users -> 0..MaxSessions]
  BY <1>5 DEF S!Opened, Fine, SessionTyped
<1>9. s[2] \in 0..MaxSessions
  BY <1>7
<1>10. /\ seq' \in [Users -> 0..MaxSessions] /\ seq'[s[1]] = s[2]
       /\ \A u \in Users : u # s[1] => seq'[u] = seq[u]
  BY <1>7, <1>8, <1>9
<1>11. \A u \in Users : seq'[u] = seq[u] \/ (seq[u] = 0 /\ seq'[u] = 1)
  BY <1>3, <1>7, <1>10
<1>12. SessionTyped'
  BY <1>3, <1>5, <1>6, <1>10 DEF Fine, SessionTyped, Goes
<1>13. Alone'
  BY <1>1, <1>4, <1>6, AloneKept
<1>14. session' # S!NoSession => seq'[session'[1]] = session'[2]
  BY <1>5, <1>10
<1>15. ASSUME NEW t \in S!Tasks PROVE Sound(task'[t], seq', buffer', summarised')
  <2>1. CASE t = "prompt"
    <3>1. task'[t] = r
      BY <2>1, <1>6 DEF Goes
    <3> QED
      BY <3>1, <1>3, <1>4, <1>10 DEF Sound, S!Consolidating
  <2>2. CASE t # "prompt"
    <3>1. task'[t] = task[t]
      BY <2>2, <1>6 DEF Goes
    <3>2. task[t] \in TaskRec /\ Sound(task[t], seq, buffer, summarised)
      BY TaskIs
    <3>3. ASSUME task[t].pc \in {"adding"} \cup S!Consolidating
          PROVE  task[t].in \in S!Sessions /\ seq'[task[t].in[1]] = task[t].in[2]
      <4>1. task[t].in \in S!Sessions /\ seq[task[t].in[1]] = task[t].in[2]
        BY <3>2, <3>3 DEF Sound
      <4>2. task[t].in[1] \in Users /\ task[t].in[2] \in 1..MaxSessions
        BY <4>1, Named
      <4>3. seq[task[t].in[1]] # 0
        BY <4>1, <4>2
      <4>4. seq'[task[t].in[1]] = seq[task[t].in[1]]
        BY <4>2, <4>3, <1>11
      <4> QED
        BY <4>1, <4>4
    <3> QED
      BY <3>1, <3>2, <3>3, <1>5 DEF Sound
  <2> QED
    BY <2>1, <2>2
<1>16. \A u \in Users : Latest(seq', u) = Latest(seq, u)
  BY <1>11 DEF Latest
<1>17. Found(seq', buffer', summarised', taken')
  BY <1>5, <1>16, Named DEF Found, Fine
<1> QED
  BY <1>12, <1>13, <1>14, <1>15, <1>17 DEF Fine

(* The answer goes to the session that is current, or nowhere.             *)
LEMMA StepCapture ==
    ASSUME Fine, excuses' = {}, S!AutoCapture
    PROVE  Fine'
<1> DEFINE e == task["end"]
           r1 == [e EXCEPT !.pc = "adding", !.in = session]
           r2 == [e EXCEPT !.pc = "arming"]
<1>1. "end" \in S!Tasks /\ e \in TaskRec /\ session \in S!Sessions \cup {S!NoSession}
  BY TaskIs DEF S!Tasks, Fine, SessionTyped
<1>2. /\ r1 \in TaskRec /\ r1.pc = "adding" /\ r1.in = session
      /\ r2 \in TaskRec /\ r2.pc = "arming"
  <2>1. r1 \in TaskRec /\ r1.pc = "adding" /\ r1.in = session
    <3>1. session \in AnySession /\ "adding" \in Doing
      BY <1>1 DEF AnySession, Doing
    <3>2. PICK d \in TaskRec : d = e
      BY <1>1
    <3>3. /\ [d EXCEPT !.pc = "adding", !.in = session] \in TaskRec
          /\ [d EXCEPT !.pc = "adding", !.in = session].pc = "adding"
          /\ [d EXCEPT !.pc = "adding", !.in = session].in = session
      BY <3>1 DEF TaskRec, AnySession
    <3> QED
      BY <3>2, <3>3
  <2>2. r2 \in TaskRec /\ r2.pc = "arming"
    BY <1>1, Turns DEF Doing
  <2> QED
    BY <2>1, <2>2
<1>3. /\ (session # S!NoSession /\ S!Step("end", r1)) \/ S!Step("end", r2)
      /\ UNCHANGED <<session, seq, buffer, summarised, taken, asked, sent>>
  BY DEF S!AutoCapture, S!backendVars
<1> HIDE DEF r1, r2
<1>4. asked' \subseteq Users /\ sent' \in Nat
  BY <1>3 DEF Fine, SessionTyped
<1>5. CASE session # S!NoSession /\ S!Step("end", r1)
  <2>1. Goes("end", r1)
    BY <1>1, <1>2, <1>5, StepIs DEF S!Step
  <2>2. Sound(r1, seq, buffer, summarised)
    BY <1>1, <1>2, <1>5 DEF Sound, Fine, S!Consolidating
  <2> QED
    BY <2>1, <2>2, <1>1, <1>2, <1>3, <1>4, TaskKeeps
<1>6. CASE S!Step("end", r2)
  <2>1. Goes("end", r2)
    BY <1>1, <1>2, <1>6, StepIs DEF S!Step
  <2>2. Sound(r2, seq, buffer, summarised)
    BY <1>2 DEF Sound, S!Consolidating
  <2> QED
    BY <2>1, <2>2, <1>1, <1>2, <1>3, <1>4, TaskKeeps
<1> QED
  BY <1>3, <1>5, <1>6

(* Where an activity goes that is done.                                    *)
LEMMA GivesUp ==
    ASSUME Fine, excuses' = {}, NEW t \in S!Tasks, S!GiveUp(t) \/ S!Leave(t)
    PROVE  \E r \in TaskRec : r.pc \in {"off", "arming"} /\ Goes(t, r)
<1>1. CASE S!GiveUp(t)
  <2>1. PICK pc \in {"off", "arming"} : pc = S!Finished(t)
    BY DEF S!Finished
  <2>2. PICK r \in TaskRec : r = [S!NoTask EXCEPT !.pc = pc] /\ r.pc = pc
    <3>1. pc \in Doing
      BY DEF Doing
    <3> QED
      BY <3>1, StopsAt
  <2>3. S!Step(t, r)
    BY <1>1, <2>1, <2>2 DEF S!GiveUp
  <2> QED
    BY <2>2, <2>3, StepIs DEF S!Step
<1>2. CASE S!Leave(t)
  BY <1>2, StepIs, NoTaskIs DEF S!Leave, S!Step
<1> QED
  BY <1>1, <1>2

(* Where one goes that consolidates the current session.                   *)
LEMMA Consolidates ==
    ASSUME Fine, excuses' = {}, NEW t \in S!Tasks, S!Consolidate(t)
    PROVE  \E r \in TaskRec : Sound(r, seq, buffer, summarised) /\ Goes(t, r)
<1>1. CASE session = S!NoSession
  <2>1. S!GiveUp(t)
    BY <1>1 DEF S!Consolidate
  <2>2. PICK r \in TaskRec : r.pc \in {"off", "arming"} /\ Goes(t, r)
    BY <2>1, GivesUp
  <2> QED
    BY <2>2 DEF Sound, S!Consolidating
<1>2. CASE session # S!NoSession
  <2>1. PICK pc \in {"call", "read"} : pc = IF hasTool THEN "call" ELSE "read"
    BY Zenon
  <2>2. session \in S!Sessions \cup {S!NoSession} /\ seq[session[1]] = session[2]
    BY <1>2 DEF Fine, SessionTyped
  <2>3. PICK r \in TaskRec : r = [S!NoTask EXCEPT !.pc = pc, !.in = session] /\ r.pc = pc
                             /\ r.in = session
    <3>1. session \in AnySession /\ pc \in Doing
      BY <2>1, <2>2 DEF AnySession, Doing, S!Consolidating
    <3>2. /\ [S!NoTask EXCEPT !.pc = pc, !.in = session] \in TaskRec
          /\ [S!NoTask EXCEPT !.pc = pc, !.in = session].pc = pc
          /\ [S!NoTask EXCEPT !.pc = pc, !.in = session].in = session
      <4>1. PICK d \in TaskRec : d = S!NoTask
        BY NoTaskIs
      <4>2. /\ [d EXCEPT !.pc = pc, !.in = session] \in TaskRec
            /\ [d EXCEPT !.pc = pc, !.in = session].pc = pc
            /\ [d EXCEPT !.pc = pc, !.in = session].in = session
        BY <3>1 DEF TaskRec, AnySession
      <4> QED
        BY <4>1, <4>2
    <3> QED
      BY <3>2
  <2>4. S!Step(t, r)
    BY <1>2, <2>1, <2>3 DEF S!Consolidate
  <2>5. Goes(t, r)
    BY <2>4, StepIs DEF S!Step
  <2>6. Sound(r, seq, buffer, summarised)
    BY <1>2, <2>2, <2>3 DEF Sound
  <2> QED
    BY <2>5, <2>6
<1> QED
  BY <1>1, <1>2

(* The steps that only move an activity.                                   *)
LEMMA StepMove ==
    ASSUME Fine, excuses' = {},
           \/ S!AfterCapture \/ S!FlushSession \/ S!ArmIdleTimer \/ S!IdleTimerFires
           \/ S!BeforeCompaction \/ \E t \in S!Tasks : S!RuntimeFails(t)
    PROVE  Fine'
<1>1. UNCHANGED <<session, seq, buffer, summarised, taken, asked, sent>>
  BY DEF S!AfterCapture, S!FlushSession, S!ArmIdleTimer, S!IdleTimerFires,
     S!BeforeCompaction,
         S!RuntimeFails, S!backendVars, S!sessionVars
<1>2. asked' \subseteq Users /\ sent' \in Nat
  BY <1>1 DEF Fine, SessionTyped
<1>3. CASE task' = task
  BY <1>1, <1>3 DEF Fine, SessionTyped, Alone
<1>4. ASSUME NEW t \in S!Tasks,
    NEW r \in TaskRec, Sound(r, seq, buffer, summarised), Goes(t, r)
      PROVE  Fine'
  BY <1>1, <1>2, <1>4, TaskKeeps
<1>5. ASSUME NEW t \in S!Tasks, S!GiveUp(t) \/ S!Leave(t)
      PROVE  Fine'
  <2>1. PICK r \in TaskRec : r.pc \in {"off", "arming"} /\ Goes(t, r)
    BY <1>5, GivesUp
  <2>2. Sound(r, seq, buffer, summarised)
    BY <2>1 DEF Sound, S!Consolidating
  <2> QED
    BY <2>1, <2>2, <1>4
<1>6. ASSUME NEW t \in S!Tasks, S!Consolidate(t)
      PROVE  Fine'
  <2>1. PICK r \in TaskRec : Sound(r, seq, buffer, summarised) /\ Goes(t, r)
    BY <1>6, Consolidates
  <2> QED
    BY <2>1, <1>4
<1>7. ASSUME S!BeforeCompaction PROVE Fine'
  <2>1. PICK r \in TaskRec : r = [S!NoTask EXCEPT !.pc = "entering"] /\ r.pc = "entering"
    BY Named, Enters
  <2>2. S!Step("flush", r) /\ "flush" \in S!Tasks
    BY <1>7, <2>1 DEF S!BeforeCompaction, S!Tasks
  <2>3. Goes("flush", r)
    BY <2>2, StepIs DEF S!Step
  <2>4. Sound(r, seq, buffer, summarised)
    BY <2>1 DEF Sound, S!Consolidating
  <2> QED
    BY <2>2, <2>3, <2>4, <1>4
<1>8. {"end", "flush", "idle"} \subseteq S!Tasks
  BY DEF S!Tasks
<1>9. CASE S!AfterCapture
  BY <1>5, <1>6, <1>8, <1>9 DEF S!AfterCapture
<1>10. CASE S!FlushSession
  BY <1>5, <1>6, <1>8, <1>10 DEF S!FlushSession
<1>11. CASE S!ArmIdleTimer
  BY <1>5, <1>8, <1>11 DEF S!ArmIdleTimer
<1>12. CASE S!IdleTimerFires
  BY <1>3, <1>6, <1>8, <1>12 DEF S!IdleTimerFires
<1>13. CASE \E t \in S!Tasks : S!RuntimeFails(t)
  BY <1>5, <1>13 DEF S!RuntimeFails
<1> QED
  BY <1>7, <1>9, <1>10, <1>11, <1>12, <1>13

(* Work on a session: what it leaves in memory, and in summaries.          *)
LEMMA StepAdd ==
    ASSUME Fine, excuses' = {}, NEW t \in S!Tasks, S!ChatAdd(t)
    PROVE  Fine'
<1> DEFINE e == task[t]
<1>1. /\ e \in TaskRec /\ e.pc = "adding" /\ e.in \in S!Sessions /\ seq[e.in[1]] = e.in[2]
      /\ e.message \in Nat
  <2>1. e.pc = "adding"
    BY DEF S!ChatAdd
  <2>2. e \in TaskRec /\ Sound(e, seq, buffer, summarised)
    BY TaskIs
  <2> QED
    BY <2>1, <2>2, InIs DEF Sound
<1>2. PICK r \in TaskRec : r.pc \in {"off", "arming", "captured"} /\ Goes(t, r)
  <2>1. PICK r \in TaskRec : r = [e EXCEPT !.pc = "captured"] /\ r.pc = "captured"
    BY <1>1, Turns DEF Doing
  <2>2. S!Step(t, r) \/ S!Leave(t)
    BY <2>1 DEF S!ChatAdd
  <2> QED
    BY <2>1, <2>2, StepIs, GivesUp DEF S!Step
<1>3. /\ UNCHANGED <<session, seq, asked, sent, summarised>>
      /\ \/ UNCHANGED <<buffer, taken>>
         \/ /\ buffer' = [buffer EXCEPT ![e.in] = @ \cup {e.message}]
            /\ taken' = taken \cup {e.message}
  BY DEF S!ChatAdd, S!sessionVars
<1>4. /\ buffer \in [S!Sessions -> SUBSET Nat] /\ summarised \subseteq Nat
      /\ taken \subseteq Nat
      /\ Found(seq, buffer, summarised, taken)
  BY DEF Fine, SessionTyped
<1>5. /\ buffer' \in [S!Sessions -> SUBSET Nat] /\ taken' \subseteq Nat
      /\ summarised' \subseteq Nat
  <2>1. buffer[e.in] \cup {e.message} \in SUBSET Nat
    BY <1>1, <1>4
  <2>2. [buffer EXCEPT ![e.in] = @ \cup {e.message}] \in [S!Sessions -> SUBSET Nat]
    BY <2>1, <1>1, <1>4
  <2>3. taken \cup {e.message} \subseteq Nat
    BY <1>1, <1>4
  <2> HIDE DEF e
  <2> QED
    BY <2>2, <2>3, <1>3, <1>4
<1>6. Found(seq, buffer', summarised', taken')
  BY <1>1, <1>3, <1>4, FoundAdd
<1>7. Sound(r, seq, buffer', summarised')
  BY <1>2 DEF Sound, S!Consolidating
<1> QED
  BY <1>1, <1>2, <1>3, <1>5, <1>6, <1>7, WorkKeeps

(* What a consolidation may take for granted.                              *)
LEMMA ConsolidatingIs ==
    ASSUME Fine, NEW t \in S!Tasks, task[t].pc \in S!Consolidating
    PROVE  /\ task[t] \in TaskRec /\ task[t].in \in S!Sessions /\ task[t].pc # "off"
           /\ seq[task[t].in[1]] = task[t].in[2]
           /\ task[t].pc = "store" => buffer[task[t].in] \subseteq task[t].read
           /\ task[t].pc \in {"clear", "renew"} => buffer[task[t].in] \subseteq summarised
           /\ buffer \in [S!Sessions -> SUBSET Nat] /\ summarised \subseteq Nat
           /\ taken \subseteq Nat
           /\ Found(seq, buffer, summarised, taken)
           /\ buffer[task[t].in] \subseteq Nat
           /\ task[t].read \subseteq Nat
<1>1. task[t] \in TaskRec /\ Sound(task[t], seq, buffer, summarised)
  BY TaskIs
<1>2. task[t].pc # "off"
  BY DEF S!Consolidating
<1>3. /\ buffer \in [S!Sessions -> SUBSET Nat] /\ summarised \subseteq Nat
      /\ taken \subseteq Nat
      /\ Found(seq, buffer, summarised, taken)
  BY DEF Fine, SessionTyped
<1>4. task[t].read \subseteq Nat
  BY <1>1, InIs
<1> QED
  BY <1>1, <1>2, <1>3, <1>4 DEF Sound

(* The backend consolidates by itself.                                     *)
LEMMA StepCall ==
    ASSUME Fine, excuses' = {}, NEW t \in S!Tasks, S!BackendConsolidates(t)
    PROVE  Fine'
<1> DEFINE e == task[t]
           held == buffer[e.in]
<1>1. task[t].pc = "call" /\ task[t].pc \in S!Consolidating
  BY DEF S!BackendConsolidates, S!Consolidating
<1>2. /\ e \in TaskRec /\ e.in \in S!Sessions /\ e.pc # "off" /\ seq[e.in[1]] = e.in[2]
      /\ buffer \in [S!Sessions -> SUBSET Nat] /\ summarised \subseteq Nat
      /\ taken \subseteq Nat
      /\ Found(seq, buffer, summarised, taken)
      /\ held \subseteq Nat
  BY <1>1, ConsolidatingIs
<1>3. /\ UNCHANGED <<session, seq, asked, sent, taken>>
      /\ \/ UNCHANGED <<buffer, summarised>>
         \/ /\ buffer' = [buffer EXCEPT ![e.in] = {}]
            /\ summarised' = summarised \cup held
  BY DEF S!BackendConsolidates, S!sessionVars
<1>4. /\ buffer' \in [S!Sessions -> SUBSET Nat] /\ taken' \subseteq Nat
      /\ summarised' \subseteq Nat
      /\ Found(seq, buffer', summarised', taken')
  <2>1. [buffer EXCEPT ![e.in] = {}] \in [S!Sessions -> SUBSET Nat]
    BY <1>2
  <2>2. Found(seq, buffer, summarised \cup held, taken)
    BY <1>2, FoundSum
  <2>3. held \subseteq summarised \cup held
    OBVIOUS
  <2>4. Found(seq, [buffer EXCEPT ![e.in] = {}], summarised \cup held, taken)
    BY <1>2, <2>2, <2>3, FoundClear
  <2>5. summarised \cup held \subseteq Nat
    BY <1>2
  <2> HIDE DEF e, held
  <2> QED
    BY <1>2, <1>3, <2>1, <2>4, <2>5
<1>5. \E r \in TaskRec : Goes(t, r) /\ Sound(r, seq, buffer', summarised')
  <2>1. PICK r \in TaskRec : r = [e EXCEPT !.pc = "renew"] /\ r.pc = "renew" /\ r.in = e.in
    BY <1>2, Turns, ZenonT(60) DEF Doing, S!Consolidating
  <2>2. PICK q \in TaskRec : q = [e EXCEPT !.pc = "read"] /\ q.pc = "read" /\ q.in = e.in
    BY <1>2, Turns, ZenonT(60) DEF Doing, S!Consolidating
  <2>3. \/ S!Step(t, r) /\ buffer' = [buffer EXCEPT ![e.in] = {}]
        \/ S!GiveUp(t) \/ S!Step(t, q)
    BY <2>1, <2>2 DEF S!BackendConsolidates
  <2>4. CASE S!Step(t, r) /\ buffer' = [buffer EXCEPT ![e.in] = {}]
    <3>1. Goes(t, r)
      BY <2>4, StepIs DEF S!Step
    <3>2. buffer'[e.in] = {}
      BY <2>4, <1>2
    <3>3. Sound(r, seq, buffer', summarised')
      BY <2>1, <3>2, <1>2 DEF Sound
    <3> QED
      BY <3>1, <3>3
  <2>5. CASE S!GiveUp(t)
    <3>1. PICK x \in TaskRec : x.pc \in {"off", "arming"} /\ Goes(t, x)
      BY <2>5, GivesUp
    <3> QED
      BY <3>1 DEF Sound, S!Consolidating
  <2>6. CASE S!Step(t, q)
    <3>1. Goes(t, q)
      BY <2>6, StepIs DEF S!Step
    <3>2. Sound(q, seq, buffer', summarised')
      BY <2>2, <1>2 DEF Sound
    <3> QED
      BY <3>1, <3>2
  <2> QED
    BY <2>3, <2>4, <2>5, <2>6
<1> QED
  BY <1>2, <1>3, <1>4, <1>5, WorkKeeps

(* The messages are read, all of them.                                     *)
LEMMA StepRead ==
    ASSUME Fine, excuses' = {}, NEW t \in S!Tasks, S!ReadMessages(t)
    PROVE  Fine'
<1> DEFINE e == task[t]
<1>1. task[t].pc = "read" /\ task[t].pc \in S!Consolidating
  BY DEF S!ReadMessages, S!Consolidating
<1>2. /\ e \in TaskRec /\ e.in \in S!Sessions /\ e.pc # "off" /\ seq[e.in[1]] = e.in[2]
      /\ buffer \in [S!Sessions -> SUBSET Nat] /\ summarised \subseteq Nat
      /\ taken \subseteq Nat
      /\ Found(seq, buffer, summarised, taken)
      /\ buffer[e.in] \subseteq Nat
  BY <1>1, ConsolidatingIs
<1>3. UNCHANGED <<session, seq, asked, sent, buffer, summarised, taken>>
  BY DEF S!ReadMessages, S!sessionVars, S!backendVars
<1>4. \E r \in TaskRec : Goes(t, r) /\ Sound(r, seq, buffer, summarised)
  <2>1. CASE S!GiveUp(t)
    <3>1. PICK x \in TaskRec : x.pc \in {"off", "arming"} /\ Goes(t, x)
      BY <2>1, GivesUp
    <3> QED
      BY <3>1 DEF Sound, S!Consolidating
  <2>2. CASE \E read \in SUBSET buffer[e.in] :
               S!StepExcused(t, [e EXCEPT !.pc = "store", !.read = read],
                           IF read = buffer[e.in] THEN {} ELSE {"short read"})
    <3>1. PICK read \in SUBSET buffer[e.in] :
               S!StepExcused(t, [e EXCEPT !.pc = "store", !.read = read],
                           IF read = buffer[e.in] THEN {} ELSE {"short read"})
      BY <2>2
    <3>2. read \in SUBSET Nat /\ "store" \in Doing
      BY <1>2 DEF Doing, S!Consolidating
    <3>3. PICK r \in TaskRec : /\ r = [e EXCEPT !.pc = "store", !.read = read]
                               /\ r.pc = "store" /\ r.in = e.in /\ r.read = read
      <4>1. PICK d \in TaskRec : d = e
        BY <1>2
      <4>2. /\ [d EXCEPT !.pc = "store", !.read = read] \in TaskRec
            /\ [d EXCEPT !.pc = "store", !.read = read].pc = "store"
            /\ [d EXCEPT !.pc = "store", !.read = read].in = d.in
            /\ [d EXCEPT !.pc = "store", !.read = read].read = read
        BY <3>2 DEF TaskRec
      <4> QED
        BY <4>1, <4>2
    <3>4. S!StepExcused(t, r, IF read = buffer[e.in] THEN {} ELSE {"short read"})
      BY <3>1, <3>3
    <3>5. Goes(t, r) /\ (IF read = buffer[e.in] THEN {} ELSE {"short read"}) = {}
      BY <3>4, StepIs
    <3>6. read = buffer[e.in]
      BY <3>5
    <3>7. Sound(r, seq, buffer, summarised)
      BY <3>3, <3>6, <1>2 DEF Sound
    <3> QED
      BY <3>5, <3>7
  <2> QED
    BY <2>1, <2>2 DEF S!ReadMessages
<1> QED
  BY <1>2, <1>3, <1>4, WorkKeeps

(* Their summary is stored, or the consolidation is given up.              *)
LEMMA StepStore ==
    ASSUME Fine, excuses' = {}, NEW t \in S!Tasks, S!StoreSummary(t)
    PROVE  Fine'
<1> DEFINE e == task[t]
<1>1. task[t].pc = "store" /\ task[t].pc \in S!Consolidating
  BY DEF S!StoreSummary, S!Consolidating
<1>2. /\ e \in TaskRec /\ e.in \in S!Sessions /\ e.pc # "off" /\ seq[e.in[1]] = e.in[2]
      /\ buffer \in [S!Sessions -> SUBSET Nat] /\ summarised \subseteq Nat
      /\ taken \subseteq Nat
      /\ Found(seq, buffer, summarised, taken)
      /\ buffer[e.in] \subseteq e.read /\ e.read \subseteq Nat
  BY <1>1, ConsolidatingIs
<1>3. UNCHANGED <<session, seq, asked, sent, buffer, taken>>
  BY DEF S!StoreSummary, S!sessionVars
<1>4. PICK more \in {{}, e.read} : summarised' = summarised \cup more
  BY DEF S!StoreSummary
<1>5. /\ summarised' \subseteq Nat
      /\ Found(seq, buffer', summarised', taken')
  <2>1. Found(seq, buffer, summarised \cup more, taken)
    BY <1>2, FoundSum
  <2> QED
    BY <1>2, <1>3, <1>4, <2>1
<1>6. \E r \in TaskRec : Goes(t, r) /\ Sound(r, seq, buffer, summarised')
  <2>1. PICK r \in TaskRec : r = [e EXCEPT !.pc = "clear"] /\ r.pc = "clear" /\ r.in = e.in
    BY <1>2, Turns, ZenonT(60) DEF Doing, S!Consolidating
  <2>2. CASE S!GiveUp(t)
    <3>1. PICK x \in TaskRec : x.pc \in {"off", "arming"} /\ Goes(t, x)
      BY <2>2, GivesUp
    <3> QED
      BY <3>1 DEF Sound, S!Consolidating
  <2>3. CASE S!Step(t, r) /\ summarised' = summarised \cup e.read
    <3>1. Goes(t, r)
      BY <2>3, StepIs DEF S!Step
    <3>2. buffer[e.in] \subseteq summarised'
      BY <2>3, <1>2
    <3>3. Sound(r, seq, buffer, summarised')
      BY <2>1, <3>2, <1>2 DEF Sound
    <3> QED
      BY <3>1, <3>3
  <2>4. (S!Step(t, r) /\ summarised' = summarised \cup e.read) \/ S!GiveUp(t)
    BY <2>1 DEF S!StoreSummary
  <2> QED
    BY <2>2, <2>3, <2>4
<1> QED
  BY <1>2, <1>3, <1>5, <1>6, WorkKeeps

(* The session is cleared of what is in the summary.                       *)
LEMMA StepClear ==
    ASSUME Fine, excuses' = {}, NEW t \in S!Tasks, S!ClearMessages(t)
    PROVE  Fine'
<1> DEFINE e == task[t]
<1>1. task[t].pc = "clear" /\ task[t].pc \in S!Consolidating
  BY DEF S!ClearMessages, S!Consolidating
<1>2. /\ e \in TaskRec /\ e.in \in S!Sessions /\ e.pc # "off" /\ seq[e.in[1]] = e.in[2]
      /\ buffer \in [S!Sessions -> SUBSET Nat] /\ summarised \subseteq Nat
      /\ taken \subseteq Nat
      /\ Found(seq, buffer, summarised, taken)
      /\ buffer[e.in] \subseteq summarised
  BY <1>1, ConsolidatingIs
<1>3. UNCHANGED <<session, seq, asked, sent, summarised, taken>>
  BY DEF S!ClearMessages, S!sessionVars
<1>4. buffer' = buffer \/ buffer' = [buffer EXCEPT ![e.in] = {}]
  BY DEF S!ClearMessages
<1>5. /\ buffer' \in [S!Sessions -> SUBSET Nat]
      /\ Found(seq, buffer', summarised', taken')
      /\ buffer'[e.in] \subseteq summarised
  <2>1. /\ [buffer EXCEPT ![e.in] = {}] \in [S!Sessions -> SUBSET Nat]
        /\ [buffer EXCEPT ![e.in] = {}][e.in] = {}
    BY <1>2
  <2>2. Found(seq, [buffer EXCEPT ![e.in] = {}], summarised, taken)
    BY <1>2, FoundClear
  <2> HIDE DEF e
  <2> QED
    BY <1>2, <1>3, <1>4, <2>1, <2>2
<1>6. \E r \in TaskRec : Goes(t, r) /\ Sound(r, seq, buffer', summarised)
  <2>1. PICK r \in TaskRec : r = [e EXCEPT !.pc = "renew"] /\ r.pc = "renew" /\ r.in = e.in
    BY <1>2, Turns, ZenonT(60) DEF Doing, S!Consolidating
  <2>2. CASE S!GiveUp(t)
    <3>1. PICK x \in TaskRec : x.pc \in {"off", "arming"} /\ Goes(t, x)
      BY <2>2, GivesUp
    <3> QED
      BY <3>1 DEF Sound, S!Consolidating
  <2>3. CASE S!Step(t, r)
    <3>1. Goes(t, r)
      BY <2>3, StepIs DEF S!Step
    <3>2. Sound(r, seq, buffer', summarised)
      BY <2>1, <1>5, <1>2 DEF Sound
    <3> QED
      BY <3>1, <3>2
  <2>4. S!Step(t, r) \/ S!GiveUp(t)
    BY <2>1 DEF S!ClearMessages
  <2> QED
    BY <2>2, <2>3, <2>4
<1> QED
  BY <1>2, <1>3, <1>5, <1>6, WorkKeeps

(* A new session of the same user replaces the one that was consolidated.  *)
LEMMA StepRenew ==
    ASSUME Fine, excuses' = {}, NEW t \in S!Tasks, S!RenewSession(t)
    PROVE  Fine'
<1> DEFINE e == task[t]
           next == S!NewSession(Owner)
<1>1. task[t].pc = "renew" /\ task[t].pc \in S!Consolidating
  BY DEF S!RenewSession, S!Consolidating
<1>2. /\ e \in TaskRec /\ e.in \in S!Sessions /\ e.pc # "off" /\ seq[e.in[1]] = e.in[2]
      /\ buffer \in [S!Sessions -> SUBSET Nat] /\ summarised \subseteq Nat
      /\ taken \subseteq Nat
      /\ Found(seq, buffer, summarised, taken)
      /\ buffer[e.in] \subseteq summarised
  BY <1>1, ConsolidatingIs
<1>3. /\ UNCHANGED <<asked, sent, buffer, summarised, taken>>
      /\ session' = next /\ S!Opened(session') /\ seq[Owner] < MaxSessions
  BY DEF S!RenewSession, S!backendVars
<1>4. PICK r \in TaskRec : /\ r.pc \in {"off", "arming"} /\ Goes(t, r)
                           /\ e.in[1] = Owner
  <2>1. PICK pc \in {"off", "arming"} : pc = S!Finished(t)
    BY DEF S!Finished
  <2>2. pc \in Doing
    BY DEF Doing
  <2>3. PICK r \in TaskRec : r = [S!NoTask EXCEPT !.pc = pc] /\ r.pc = pc
    BY <2>2, StopsAt
  <2>4. S!StepExcused(t, r, IF e.in[1] = Owner THEN {} ELSE {"another sender"})
    BY <2>1, <2>3 DEF S!RenewSession
  <2>5. Goes(t, r) /\ (IF e.in[1] = Owner THEN {} ELSE {"another sender"}) = {}
    BY <2>4, StepIs
  <2> QED
    BY <2>3, <2>5
<1>5. seq \in [Users -> 0..MaxSessions] /\ seq[Owner] \in 0..MaxSessions
  BY Named DEF Fine, SessionTyped
<1>6. seq[Owner] + 1 \in 1..MaxSessions /\ seq[Owner] + 1 \in 0..MaxSessions
  BY <1>3, <1>5, Named
<1>7. next \in S!Sessions /\ next[1] = Owner /\ next[2] = seq[Owner] + 1
  BY <1>6, Named DEF S!NewSession
<1>8. seq' = [seq EXCEPT ![Owner] = seq[Owner] + 1]
  BY <1>3, <1>7 DEF S!Opened
<1>9. /\ seq' \in [Users -> 0..MaxSessions] /\ seq'[Owner] = seq[Owner] + 1
      /\ \A u \in Users : u # Owner => seq'[u] = seq[u]
  BY <1>5, <1>6, <1>8, Named
<1>10. SessionTyped'
  BY <1>3, <1>4, <1>7, <1>9 DEF Fine, SessionTyped, Goes
<1>11. Alone'
  BY <1>4, AloneKept
<1>12. session' # S!NoSession => seq'[session'[1]] = session'[2]
  BY <1>3, <1>7, <1>9
<1>13. ASSUME NEW u \in S!Tasks PROVE Sound(task'[u], seq', buffer', summarised')
  <2>1. CASE u = t
    BY <2>1, <1>4 DEF Goes, Sound, S!Consolidating
  <2>2. CASE u # t
    <3>1. task'[u] = task[u] /\ task[u].pc = "off"
      BY <2>2, <1>1, <1>4 DEF Goes, Fine, Alone
    <3> QED
      BY <3>1 DEF Sound, S!Consolidating
  <2> QED
    BY <2>1, <2>2
<1>14. ASSUME NEW s \in S!Sessions
    PROVE s = Latest(seq', s[1]) \/ buffer[s] \subseteq summarised
  <2>1. s = Latest(seq, s[1]) \/ buffer[s] \subseteq summarised
    BY <1>2 DEF Found
  <2>2. CASE s[1] # Owner
    <3>1. seq'[s[1]] = seq[s[1]]
      BY <2>2, <1>9, Named
    <3> QED
      BY <2>1, <3>1 DEF Latest
  <2>3. CASE s[1] = Owner /\ s = Latest(seq, s[1])
    <3>1. e.in = <<Owner, e.in[2]>> /\ seq[Owner] = e.in[2] /\ e.in[2] \in 1..MaxSessions
      BY <1>2, <1>4, Named
    <3>2. seq[Owner] # 0
      BY <3>1
    <3>3. s = <<Owner, seq[Owner]>>
      BY <2>3, <3>2 DEF Latest
    <3>4. s = e.in
      BY <3>1, <3>3
    <3> QED
      BY <3>4, <1>2
  <2> QED
    BY <2>1, <2>2, <2>3
<1>15. Found(seq', buffer', summarised', taken')
  BY <1>2, <1>3, <1>14 DEF Found
<1> QED
  BY <1>10, <1>11, <1>12, <1>13, <1>15 DEF Fine

(* A consolidation by hand.                                                *)
LEMMA StepByHand ==
    ASSUME Fine, excuses' = {}, NEW s \in {session, <<Owner, 1>>}, S!ConsolidateByHand(s)
    PROVE  Fine'
<1>1. /\ UNCHANGED <<session, seq, task, asked, sent, taken>>
      /\ summarised' = summarised \cup buffer[s]
      /\ buffer' = [buffer EXCEPT ![s] = {}]
      /\ s[2] > 0
  BY DEF S!ConsolidateByHand, S!sessionVars
<1>2. s \in S!Sessions
  <2>1. S!NoSession[2] = 0
    BY DEF S!NoSession
  <2>2. s # S!NoSession
    BY <1>1, <2>1
  <2>3. 1 \in 1..MaxSessions
    BY Named
  <2>4. <<Owner, 1>> \in S!Sessions
    BY <2>3, Named
  <2> QED
    BY <2>2, <2>4 DEF Fine, SessionTyped
<1>3. /\ buffer \in [S!Sessions -> SUBSET Nat] /\ summarised \subseteq Nat
      /\ taken \subseteq Nat
      /\ Found(seq, buffer, summarised, taken) /\ buffer[s] \subseteq Nat
  BY <1>2 DEF Fine, SessionTyped
<1>4. buffer' \in [S!Sessions -> SUBSET Nat] /\ summarised' \subseteq Nat
  BY <1>1, <1>2, <1>3
<1>5. Found(seq, buffer', summarised', taken)
  <2>1. Found(seq, buffer, summarised \cup buffer[s], taken)
    BY <1>3, FoundSum
  <2>2. buffer[s] \subseteq summarised \cup buffer[s]
    OBVIOUS
  <2>3. Found(seq, [buffer EXCEPT ![s] = {}], summarised \cup buffer[s], taken)
    BY <1>2, <1>3, <2>1, <2>2, FoundClear
  <2> QED
    BY <2>3, <1>1
<1>6. \A x \in S!Sessions : buffer'[x] \subseteq buffer[x]
  BY <1>1, <1>2, <1>3
<1>7. ASSUME NEW t \in S!Tasks PROVE Sound(task[t], seq, buffer', summarised')
  <2>1. task[t] \in TaskRec /\ Sound(task[t], seq, buffer, summarised)
    BY TaskIs
  <2>2. task[t].pc \in S!Consolidating => task[t].in \in S!Sessions
    BY <2>1 DEF Sound
  <2>3. task[t].pc \in {"store", "clear", "renew"} =>
      buffer'[task[t].in] \subseteq buffer[task[t].in]
    BY <2>2, <1>6 DEF S!Consolidating
  <2>4. summarised \subseteq summarised'
    BY <1>1
  <2> QED
    BY <2>1, <2>3, <2>4 DEF Sound
<1>8. SessionTyped' /\ Alone'
  BY <1>1, <1>4 DEF Fine, SessionTyped, Alone
<1> QED
  BY <1>1, <1>5, <1>7, <1>8 DEF Fine

(* A restart before any session was renewed.                               *)
LEMMA StepRestart ==
    ASSUME Fine, excuses' = {}, S!Restart
    PROVE  Fine'
<1>1. /\ session' = S!NoSession /\ seq' = [u \in Users |-> 0]
      /\ task' = [t \in S!Tasks |-> S!NoTask] /\ asked' = {}
      /\ UNCHANGED <<sent, buffer, summarised, taken>>
      /\ excuses' = excuses \cup (IF \E u \in Users : seq[u] > 1 THEN {"restart"} ELSE {})
  BY DEF S!Restart, S!backendVars
<1>2. \A u \in Users : ~(seq[u] > 1)
  BY <1>1
<1>3. seq \in [Users -> 0..MaxSessions] /\ MaxSessions \in Nat
  BY Named DEF Fine, SessionTyped
<1>4. \A u \in Users : seq[u] = 0 \/ seq[u] = 1
  BY <1>2, <1>3
<1>5. \A u \in Users : Latest(seq', u) = Latest(seq, u)
  BY <1>1, <1>4 DEF Latest
<1>6. Found(seq', buffer', summarised', taken')
  BY <1>1, <1>5, Named DEF Fine, Found
<1>7. SessionTyped'
  BY <1>1, <1>3, NoTaskIs DEF Fine, SessionTyped
<1>8. Alone' /\ \A t \in S!Tasks : Sound(task'[t], seq', buffer', summarised')
  BY <1>1, NoTaskIs DEF Alone, Sound, S!Consolidating
<1> QED
  BY <1>1, <1>6, <1>7, <1>8 DEF Fine

(* Excuses stay.                                                           *)
LEMMA ExcusesStay ==
    ASSUME [S!Next]_(S!vars)
    PROVE  excuses \subseteq excuses'
<1>1. ASSUME NEW t, NEW r, NEW x, S!StepExcused(t, r, x) PROVE excuses \subseteq excuses'
  BY <1>1 DEF S!StepExcused
<1>2. ASSUME NEW t, NEW r, S!Step(t, r) PROVE excuses \subseteq excuses'
  BY <1>1, <1>2 DEF S!Step
<1>3. ASSUME NEW t, S!GiveUp(t) \/ S!Leave(t) \/ S!Consolidate(t)
    PROVE excuses \subseteq excuses'
  BY <1>2, <1>3 DEF S!GiveUp, S!Leave, S!Consolidate
<1>4. ASSUME NEW u \in Users, S!BeforePrompt(u) \/ S!AgentEnd(u)
    PROVE excuses \subseteq excuses'
  BY <1>2, <1>4 DEF S!BeforePrompt, S!AgentEnd
<1>5. ASSUME NEW s, S!ConsolidateByHand(s) PROVE excuses \subseteq excuses'
  BY <1>5 DEF S!ConsolidateByHand
<1>6. CASE S!Restart
  BY <1>6 DEF S!Restart
<1>7. ASSUME NEW t, S!RuntimeFails(t) PROVE excuses \subseteq excuses'
  BY <1>3, <1>7 DEF S!RuntimeFails
<1>8. CASE S!BeforeCompaction
  BY <1>2, <1>8 DEF S!BeforeCompaction
<1>9. CASE S!RecordUserTurn
  BY <1>2, <1>9 DEF S!RecordUserTurn
<1>10. CASE S!AutoCapture
  BY <1>2, <1>10 DEF S!AutoCapture
<1>11. CASE S!AfterCapture \/ S!ArmIdleTimer \/ S!FlushSession
  BY <1>3, <1>11 DEF S!AfterCapture, S!ArmIdleTimer, S!FlushSession
<1>12. CASE S!IdleTimerFires
  BY <1>3, <1>12 DEF S!IdleTimerFires
<1>13. ASSUME NEW t, S!Advance(t) PROVE excuses \subseteq excuses'
  <2>1. CASE S!ChatAdd(t)
    BY <1>2, <1>3, <2>1 DEF S!ChatAdd
  <2>2. CASE S!BackendConsolidates(t)
    BY <1>2, <1>3, <2>2 DEF S!BackendConsolidates
  <2>3. CASE S!ReadMessages(t)
    BY <1>1, <1>3, <2>3 DEF S!ReadMessages
  <2>4. CASE S!StoreSummary(t)
    BY <1>2, <1>3, <2>4 DEF S!StoreSummary
  <2>5. CASE S!ClearMessages(t)
    BY <1>2, <1>3, <2>5 DEF S!ClearMessages
  <2>6. CASE S!RenewSession(t)
    BY <1>1, <2>6 DEF S!RenewSession
  <2> QED
    BY <1>13, <2>1, <2>2, <2>3, <2>4, <2>5, <2>6 DEF S!Advance
<1>14. CASE S!vars' = S!vars
  BY <1>14 DEF S!vars
<1> QED
  BY <1>4, <1>5, <1>6, <1>7, <1>8, <1>9, <1>10, <1>11, <1>12, <1>13, <1>14 DEF S!Next,
     S!Progress

(* Every step of the hooks keeps their invariant.                          *)
LEMMA HooksStep == SessionInv /\ [S!Next]_(S!vars) => SessionInv'
<1> SUFFICES ASSUME SessionInv, [S!Next]_(S!vars), excuses' = {} PROVE Fine'
  BY DEF SessionInv
<1>1. Fine
  BY ExcusesStay DEF SessionInv
<1>2. CASE \E u \in Users : S!BeforePrompt(u) \/ S!AgentEnd(u)
  BY <1>1, <1>2, StepPrompt
<1>3. CASE \E s \in {session, <<Owner, 1>>} : S!ConsolidateByHand(s)
  BY <1>1, <1>3, StepByHand
<1>4. CASE S!Restart
  BY <1>1, <1>4, StepRestart
<1>5. CASE \/ S!AfterCapture \/ S!FlushSession \/ S!ArmIdleTimer \/ S!IdleTimerFires
           \/ S!BeforeCompaction \/ \E t \in S!Tasks : S!RuntimeFails(t)
  BY <1>1, <1>5, StepMove
<1>6. CASE S!RecordUserTurn
  BY <1>1, <1>6, StepRecord
<1>7. CASE S!AutoCapture
  BY <1>1, <1>7, StepCapture
<1>8. ASSUME NEW t \in S!Tasks, S!Advance(t) PROVE Fine'
  BY <1>1, <1>8, StepAdd, StepCall, StepRead, StepStore, StepClear, StepRenew
     DEF S!Advance
<1>9. CASE S!vars' = S!vars
  BY <1>1, <1>9 DEF S!vars, Fine, SessionTyped, Alone
<1> QED
  BY <1>2, <1>3, <1>4, <1>5, <1>6, <1>7, <1>8, <1>9 DEF S!Next, S!Progress

(* The invariant says that what was taken is kept.                         *)
LEMMA FineIsKept == SessionInv => S!KeptUnlessExcused
<1> SUFFICES ASSUME Fine, NEW m \in taken, m \notin summarised
             PROVE  S!Reachable(m)
  BY DEF SessionInv, S!KeptUnlessExcused, S!Kept
<1>1. PICK s \in S!Sessions : m \in buffer[s]
  BY DEF Fine, Found
<1>2. s = Latest(seq, s[1])
  BY <1>1 DEF Fine, Found
<1>3. s[1] \in Users /\ s = S!LatestSession(s[1])
  BY <1>2, Named DEF Latest, S!LatestSession
<1> QED
  BY <1>1, <1>3 DEF S!Reachable

(***************************************************************************)
(* Types and bounds: the runtime                                           *)
(***************************************************************************)

(* What the proofs above do not need to know of the runtime's variables.   *)
Stories == {"start beside close", "refreshed outside", "logged out",
            "changed during start", "armed during a run"}

(* Credentials are those that the host has, or had.                        *)
KeysFit ==
    childKey \in [R!Children -> 0..MaxKeys] /\ {hostKey, localKey, addedKey} \subseteq 0..MaxKeys
(* There is room for one more timer while the variable names none.         *)
TimersFit == timers + dreams <= MaxTimers /\ (timers + dreams = MaxTimers => dreamTimer)
StopFits ==
    /\ stopping \in 0..MaxChildren /\ stopped \in BOOLEAN /\ idle \in BOOLEAN
    /\ events \in 0..MaxEvents
RunLimits == KeysFit /\ TimersFit /\ StopFits /\ excused \subseteq Stories

(* The other bounds of the runtime.                                        *)
LEMMA MoreBounds == MaxKeys \in Nat \ {0} /\ MaxTimers \in Nat \ {0} /\ MaxEvents \in Nat
BY OpenClawAssumption DEF OpenClawAssumption, R!RuntimeAssumption

(* At first nothing has happened.                                          *)
LEMMA LimitsInit == R!Init => RunLimits
<1> SUFFICES ASSUME R!Init PROVE RunLimits
  OBVIOUS
<1> USE DEF R!Init
<1>1. KeysFit
  BY MoreBounds DEF KeysFit
<1>2. TimersFit
  BY MoreBounds DEF TimersFit
<1>3. stopped \in BOOLEAN /\ idle \in BOOLEAN
  BY Zenon
<1>4. StopFits /\ excused \subseteq Stories
  BY <1>3, MoreBounds, RunBounds DEF StopFits
<1> QED
  BY <1>1, <1>2, <1>4 DEF RunLimits

(* Credentials are those that the host has, or had.                        *)
LEMMA KeysStep == ASSUME RunInv, RunLimits, R!Next PROVE KeysFit'
<1> USE MoreBounds DEF RunLimits, KeysFit
<1>1. CASE R!HostChangesKey
  BY <1>1 DEF R!HostChangesKey, R!bridgeVars
<1>2. CASE R!RefreshOutside
  <2>1. localKey' \in {0, hostKey} /\ UNCHANGED <<childKey, hostKey, addedKey>>
    BY <1>2 DEF R!RefreshOutside, R!bridgeVars, R!Latest
  <2> QED
    BY <2>1
<1>3. ASSUME NEW h \in Calls, R!EnsureRuntimeStarted(h) PROVE KeysFit'
  <2>1. localKey' = R!Latest
    BY <1>3, Zenon DEF R!EnsureRuntimeStarted
  <2>2. localKey' \in {0, hostKey} /\ UNCHANGED <<childKey, hostKey, addedKey>>
    BY <1>3, <2>1 DEF R!EnsureRuntimeStarted, R!bridgeVars, R!Latest
  <2> QED
    BY <2>2
<1>4. ASSUME NEW h \in Calls, R!Spawn(h) PROVE KeysFit'
  <2>1. addedKey' \in 0..MaxKeys /\ UNCHANGED <<hostKey, localKey>>
    BY <1>4 DEF R!Spawn
  <2>2. CASE proc # 0
    BY <1>4, <2>1, <2>2 DEF R!Spawn
  <2>3. CASE proc = 0
    <3>1. \E c : childKey' = [childKey EXCEPT ![c] = addedKey']
      BY <1>4, <2>3, Zenon DEF R!Spawn
    <3> QED
      BY <2>1, <3>1
  <2> QED
    BY <2>2, <2>3
<1>5. ASSUME NEW h \in Calls, R!AfterPing(h) \/ R!CloseTimesOut(h) \/ R!ArmDreamTimer(h)
                              \/ R!Return(h)
      PROVE  KeysFit'
  BY <1>5 DEF R!AfterPing, R!CloseTimesOut, R!ArmDreamTimer, R!Return, R!bridgeVars, R!keyVars
<1>6. ASSUME NEW h \in Calls, R!HandshakeAnswered(h) \/ R!HandshakeTimesOut(h) PROVE KeysFit'
  BY <1>6 DEF R!HandshakeAnswered, R!HandshakeTimesOut, R!keyVars
<1>7. ASSUME NEW c \in R!Children, R!ChildExits(c) PROVE KeysFit'
  BY <1>7 DEF R!ChildExits, R!keyVars
<1>8. CASE R!StopTimesOut \/ R!DreamTimerFires \/ R!DreamEnds \/ R!Stop
  BY <1>8 DEF R!StopTimesOut, R!DreamTimerFires, R!DreamEnds, R!Stop, R!keyVars, R!bridgeVars
<1> QED
  BY <1>1, <1>2, <1>3, <1>4, <1>5, <1>6, <1>7, <1>8 DEF R!Next, R!Advance, R!StartStep

(* A timer is armed when there is none, and a run only takes its place.    *)
LEMMA TimersStep == ASSUME RunInv, RunLimits, R!Next PROVE TimersFit'
<1>t. timers \in Nat /\ dreams \in Nat /\ TimersFit /\ (dreamTimer => timers >= 1)
  BY DEF RunInv, RunTyped, Dreams, RunLimits
<1>1. ASSUME UNCHANGED <<dreamTimer, timers, dreams>> PROVE TimersFit'
  BY <1>t, <1>1 DEF TimersFit
<1>2. ASSUME NEW h \in Calls, R!ArmDreamTimer(h) PROVE TimersFit'
  <2>1. CASE dreamTimer
    BY <2>1, <1>1, <1>2 DEF R!ArmDreamTimer
  <2>2. CASE ~dreamTimer
    <3>1. dreamTimer' /\ timers' = timers + 1 /\ dreams' = dreams
      BY <1>2, <2>2 DEF R!ArmDreamTimer
    <3>2. timers + dreams <= MaxTimers /\ timers + dreams # MaxTimers
      BY <2>2, <1>t DEF TimersFit
    <3>3. timers' + dreams' <= MaxTimers
      BY <3>1, <3>2, <1>t, MoreBounds
    <3> QED
      BY <3>1, <3>3 DEF TimersFit
  <2> QED
    BY <2>1, <2>2
<1>3. CASE R!DreamTimerFires
  <2>1. /\ timers > 0 /\ timers + dreams < MaxTimers
        /\ timers' = timers - 1 /\ dreams' = dreams + 1
    BY <1>3 DEF R!DreamTimerFires
  <2>2. timers' + dreams' <= MaxTimers /\ timers' + dreams' # MaxTimers
    BY <2>1, <1>t, MoreBounds
  <2> QED
    BY <2>2 DEF TimersFit
<1>4. CASE R!DreamEnds
  <2>1. dreams > 0 /\ dreams' = dreams - 1 /\ timers' = timers + 1 /\ dreamTimer'
    BY <1>4 DEF R!DreamEnds
  <2>2. timers' + dreams' = timers + dreams
    BY <2>1, <1>t
  <2> QED
    BY <2>1, <2>2, <1>t DEF TimersFit
<1>5. CASE R!Stop
  <2>1. timers' = (IF dreamTimer THEN timers - 1 ELSE timers) /\ dreams' = dreams
    BY <1>5 DEF R!Stop
  <2>2. CASE dreamTimer
    <3>1. timers' = timers - 1 /\ timers >= 1 /\ timers + dreams <= MaxTimers
      BY <2>1, <2>2, <1>t DEF TimersFit
    <3>2. timers' + dreams' <= MaxTimers /\ timers' + dreams' # MaxTimers
      BY <2>1, <3>1, <1>t, MoreBounds
    <3> QED
      BY <3>2 DEF TimersFit
  <2>3. CASE ~dreamTimer
    <3>1. timers' = timers /\ timers + dreams <= MaxTimers /\ timers + dreams # MaxTimers
      BY <2>1, <2>3, <1>t DEF TimersFit
    <3> QED
      BY <2>1, <3>1 DEF TimersFit
  <2> QED
    BY <2>2, <2>3
<1>6. CASE R!HostChangesKey \/ R!RefreshOutside \/ R!StopTimesOut
  BY <1>1, <1>6 DEF R!HostChangesKey, R!RefreshOutside, R!StopTimesOut, R!dreamVars
<1>7. ASSUME NEW h \in Calls, \/ R!EnsureRuntimeStarted(h) \/ R!AfterPing(h)
                              \/ R!CloseTimesOut(h) \/ R!Return(h) \/ R!StartStep(h)
      PROVE  TimersFit'
  BY <1>1, <1>7 DEF R!EnsureRuntimeStarted, R!AfterPing, R!CloseTimesOut, R!Return, R!StartStep,
     R!Spawn, R!HandshakeAnswered, R!HandshakeTimesOut, R!dreamVars
<1>8. ASSUME NEW c \in R!Children, R!ChildExits(c) PROVE TimersFit'
  BY <1>1, <1>8 DEF R!ChildExits, R!dreamVars
<1> QED
  BY <1>2, <1>3, <1>4, <1>5, <1>6, <1>7, <1>8 DEF R!Next, R!Advance

(* The end of the service, and what comes from outside.                    *)
LEMMA StopsStep == ASSUME RunInv, RunLimits, R!Next PROVE StopFits'
<1>t. StopFits /\ proc \in 0..MaxChildren /\ MaxChildren \in Nat /\ MaxEvents \in Nat
  BY MoreBounds, RunBounds DEF RunInv, RunTyped, RunLimits
<1>1. ASSUME UNCHANGED <<stopping, stopped>>, idle' \in BOOLEAN,
             UNCHANGED events \/ (events < MaxEvents /\ events' = events + 1)
      PROVE  StopFits'
  BY <1>t, <1>1 DEF StopFits
<1>i. idle \in BOOLEAN
  BY <1>t DEF StopFits
<1>u. 0 \in 0..MaxChildren /\ (events \in 0..MaxEvents /\ events < MaxEvents => events + 1 \in 0..MaxEvents)
  BY <1>t
<1>2. CASE R!Stop
  <2>1. stopped' = TRUE /\ idle' = FALSE /\ events < MaxEvents /\ events' = events + 1 /\ stopping' \in {proc, 0}
    BY <1>2, Zenon DEF R!Stop
  <2>2. stopped' \in BOOLEAN /\ idle' \in BOOLEAN
    BY <2>1, Zenon
  <2>3. stopping' \in 0..MaxChildren /\ events' \in 0..MaxEvents
    BY <1>t, <1>u, <2>1 DEF StopFits
  <2> QED
    BY <2>2, <2>3 DEF StopFits
<1>3. ASSUME NEW c \in R!Children, R!ChildExits(c) PROVE StopFits'
  <2>1. /\ UNCHANGED <<stopped, idle>> /\ stopping' \in {0, stopping}
        /\ events' = events \/ (events < MaxEvents /\ events' = events + 1)
    BY <1>3, Zenon DEF R!ChildExits
  <2>2. stopping' \in 0..MaxChildren /\ events' \in 0..MaxEvents
    BY <1>t, <1>u, <2>1 DEF StopFits
  <2> QED
    BY <1>t, <2>1, <2>2 DEF StopFits
<1>4. CASE R!StopTimesOut
  BY <1>t, <1>4 DEF R!StopTimesOut, StopFits
<1>5. CASE R!HostChangesKey \/ R!DreamTimerFires \/ R!DreamEnds
  BY <1>1, <1>i, <1>5 DEF R!HostChangesKey, R!DreamTimerFires, R!DreamEnds, R!stopVars
<1>8. ASSUME R!RefreshOutside \/ \E h \in Calls : R!EnsureRuntimeStarted(h) \/ R!Return(h)
      PROVE  StopFits'
  <2>1. UNCHANGED <<stopping, stopped, events>> /\ idle' \in {idle, FALSE, TRUE}
    BY <1>8, Zenon DEF R!RefreshOutside, R!EnsureRuntimeStarted, R!Return
  <2>2. idle' \in BOOLEAN
    BY <1>i, <2>1, Zenon
  <2> QED
    BY <1>1, <2>1, <2>2
<1>6. ASSUME NEW h \in Calls, R!AfterPing(h) \/ R!CloseTimesOut(h) \/ R!ArmDreamTimer(h)
      PROVE  StopFits'
  BY <1>1, <1>i, <1>6 DEF R!AfterPing, R!CloseTimesOut, R!ArmDreamTimer, R!stopVars
<1>7. ASSUME NEW h \in Calls, R!Spawn(h) \/ R!HandshakeAnswered(h) \/ R!HandshakeTimesOut(h)
      PROVE  StopFits'
  BY <1>1, <1>i, <1>7 DEF R!Spawn, R!HandshakeAnswered, R!HandshakeTimesOut, R!stopVars
<1> QED
  BY <1>2, <1>3, <1>4, <1>5, <1>6, <1>7, <1>8 DEF R!Next, R!Advance, R!StartStep

(* What excuses the runtime is one of five stories.                        *)
LEMMA StoriesStep == ASSUME RunLimits, R!Next PROVE excused' \subseteq Stories
<1>t. excused \subseteq Stories
  BY DEF RunLimits
<1>1. ASSUME NEW what \in Stories, NEW if, R!Excused(what, if) PROVE excused' \subseteq Stories
  BY <1>t, <1>1 DEF R!Excused
<1>s. /\ "start beside close" \in Stories /\ "refreshed outside" \in Stories
      /\ "armed during a run" \in Stories
  BY DEF Stories
<1>2. ASSUME NEW h \in Calls, R!EnsureRuntimeStarted(h) PROVE excused' \subseteq Stories
  BY <1>t, <1>2 DEF R!EnsureRuntimeStarted, Stories
<1>3. ASSUME NEW h \in Calls, R!AfterPing(h) PROVE excused' \subseteq Stories
  BY <1>t, <1>s, <1>1, <1>3 DEF R!AfterPing, R!JoinStart
<1>4. ASSUME NEW h \in Calls, R!CloseTimesOut(h) \/ R!ArmDreamTimer(h) \/ R!Return(h)
      PROVE  excused' \subseteq Stories
  BY <1>t, <1>s, <1>1, <1>4 DEF R!CloseTimesOut, R!ArmDreamTimer, R!Return
<1>5. ASSUME NEW h \in Calls, R!StartStep(h) PROVE excused' \subseteq Stories
  BY <1>t, <1>5 DEF R!StartStep, R!Spawn, R!HandshakeAnswered, R!HandshakeTimesOut
<1>6. ASSUME NEW c \in R!Children, R!ChildExits(c) PROVE excused' \subseteq Stories
  BY <1>t, <1>s, <1>1, <1>6 DEF R!ChildExits
<1>7. CASE R!RefreshOutside \/ R!Stop
  BY <1>t, <1>s, <1>1, <1>7 DEF R!RefreshOutside, R!Stop
<1>8. CASE R!HostChangesKey \/ R!StopTimesOut \/ R!DreamTimerFires \/ R!DreamEnds
  BY <1>t, <1>8 DEF R!HostChangesKey, R!StopTimesOut, R!DreamTimerFires, R!DreamEnds
<1> QED
  BY <1>2, <1>3, <1>4, <1>5, <1>6, <1>7, <1>8 DEF R!Next, R!Advance

(* Every step of the runtime keeps within the bounds.                      *)
LEMMA LimitsStep == RunInv /\ RunLimits /\ [R!Next]_(R!vars) => RunLimits'
<1> SUFFICES ASSUME RunInv, RunLimits, [R!Next]_(R!vars) PROVE RunLimits'
  OBVIOUS
<1>1. CASE UNCHANGED R!vars
  BY <1>1 DEF R!vars, RunLimits, KeysFit, TimersFit, StopFits
<1>2. CASE R!Next
  BY <1>2, KeysStep, TimersStep, StopsStep, StoriesStep DEF RunLimits
<1> QED
  BY <1>1, <1>2

(* The runtime has its types.                                              *)
LEMMA RunHasTypes == RunInv /\ RunLimits => R!TypeOK
<1> SUFFICES ASSUME RunInv, RunLimits PROVE R!TypeOK
  OBVIOUS
<1>1. timers \in 0..MaxTimers /\ dreams \in 0..MaxTimers
  BY MoreBounds DEF RunInv, RunTyped, RunLimits, TimersFit
<1> QED
  BY <1>1 DEF RunInv, RunTyped, CallRec, Stages, StartRec, RunLimits, KeysFit, StopFits, Stories,
     R!TypeOK

(***************************************************************************)
(* Types and bounds: the hooks                                             *)
(***************************************************************************)

(* An activity of the hooks within the bounds: a message that it brings    *)
(* has a number, and a session that it works on is one.                    *)
HookTask == [pc : Doing, user : Users, in : AnySession, message : 0..MaxMessages,
             read : SUBSET S!Messages]
Fits(t, r) ==
    /\ t \in {"prompt", "end"} /\ r.pc \in {"entering", "adding"} => r.message # 0
    /\ r.pc = "adding" => t \in {"prompt", "end"}
    /\ r.pc \in {"adding"} \cup S!Consolidating => r.in \in S!Sessions

(* The messages that are counted as soon as the runtime is up.             *)
Due(k) == (IF k["prompt"].pc = "entering" THEN 1 ELSE 0)
              + (IF k["end"].pc = "entering" THEN 1 ELSE 0)

Losses == {"overlap", "short read", "another sender", "restart"}
TasksFit == task \in [S!Tasks -> HookTask] /\ \A t \in S!Tasks : Fits(t, task[t])
MemoryFits ==
    /\ buffer \in [S!Sessions -> SUBSET S!Messages]
    /\ summarised \subseteq S!Messages /\ taken \subseteq S!Messages
SessionFits == session \in AnySession /\ seq \in [Users -> 0..MaxSessions]
FlagsFit ==
    wired \in {"events", "gateway"} /\ {hasTool, heard, idleTimer} \subseteq BOOLEAN
(* Every prompt that waits has room for its answer, and no more messages   *)
(* are counted than there were.                                            *)
CountsFit ==
    /\ asked \subseteq Users /\ IsFiniteSet(asked) /\ sent \in Nat /\ count \in Nat
    /\ sent + Cardinality(asked) <= MaxMessages
    /\ count + Due(task) <= sent
FailuresFit == failures \in 0..MaxFailures /\ excuses \subseteq Losses
HooksFit ==
    TasksFit /\ MemoryFits /\ SessionFits /\ FlagsFit /\ CountsFit /\ FailuresFit

(* The bounds of the hooks.                                                *)
LEMMA HookBounds ==
    /\ MaxMessages \in Nat \ {0} /\ MaxFailures \in Nat /\ MaxSessions \in Nat \ {0}
    /\ Owner \in Users
BY OpenClawAssumption DEF OpenClawAssumption, S!SessionAssumption

(* An activity that has done its work.                                     *)
LEMMA RestFits == S!NoTask \in HookTask /\ S!NoTask.pc = "off" /\ \A t : Fits(t, S!NoTask)
<1>1. S!NoTask \in HookTask /\ S!NoTask.pc = "off"
  BY HookBounds DEF S!NoTask, HookTask, Doing, AnySession
<1>2. \A t : Fits(t, S!NoTask)
  BY <1>1 DEF Fits, S!Consolidating
<1> QED
  BY <1>1, <1>2

(* One that is about to do something,                                      *)
LEMMA RestAt ==
    ASSUME NEW pc \in Doing
    PROVE  /\ [S!NoTask EXCEPT !.pc = pc] \in HookTask
           /\ [S!NoTask EXCEPT !.pc = pc].pc = pc
<1>1. PICK e \in HookTask : e = S!NoTask
  BY RestFits
<1>2. [e EXCEPT !.pc = pc] \in HookTask /\ [e EXCEPT !.pc = pc].pc = pc
  BY DEF HookTask
<1> QED
  BY <1>1, <1>2

(* to a session,                                                           *)
LEMMA RestIn ==
    ASSUME NEW pc \in Doing, NEW i \in AnySession
    PROVE  /\ [S!NoTask EXCEPT !.pc = pc, !.in = i] \in HookTask
           /\ [S!NoTask EXCEPT !.pc = pc, !.in = i].pc = pc
           /\ [S!NoTask EXCEPT !.pc = pc, !.in = i].in = i
<1>1. PICK e \in HookTask : e = S!NoTask
  BY RestFits
<1>2. /\ [e EXCEPT !.pc = pc, !.in = i] \in HookTask
      /\ [e EXCEPT !.pc = pc, !.in = i].pc = pc
      /\ [e EXCEPT !.pc = pc, !.in = i].in = i
  BY DEF HookTask
<1> QED
  BY <1>1, <1>2

(* An activity that goes on with what it has.                              *)
LEMMA NextFits ==
    ASSUME NEW e \in HookTask, NEW pc \in Doing
    PROVE  /\ [e EXCEPT !.pc = pc] \in HookTask
           /\ [e EXCEPT !.pc = pc].pc = pc
           /\ [e EXCEPT !.pc = pc].in = e.in /\ [e EXCEPT !.pc = pc].message = e.message
BY DEF HookTask

(* What an activity knows.                                                 *)
LEMMA FieldsFit ==
    ASSUME NEW e \in HookTask
    PROVE  /\ e.pc \in Doing /\ e.user \in Users /\ e.in \in AnySession
           /\ e.message \in 0..MaxMessages /\ e.read \in SUBSET S!Messages
BY DEF HookTask

(* At first nothing was said.                                              *)
LEMMA HooksFitInit == S!Init => HooksFit
<1> SUFFICES ASSUME S!Init PROVE HooksFit
  OBVIOUS
<1> USE DEF S!Init
<1>1. TasksFit
  BY RestFits DEF TasksFit
<1>2. MemoryFits /\ SessionFits
  BY HookBounds DEF MemoryFits, SessionFits, AnySession
<1>3. FlagsFit
  <2>1. heard \in BOOLEAN /\ idleTimer \in BOOLEAN
    BY Zenon
  <2> QED
    BY <2>1 DEF FlagsFit
<1>4. CountsFit
  <2>1. IsFiniteSet(asked) /\ Cardinality(asked) = 0
    BY FS_EmptySet
  <2>2. Due(task) = 0
    <3>1. task["prompt"] = S!NoTask /\ task["end"] = S!NoTask
      BY DEF S!Tasks
    <3> QED
      BY <3>1, RestFits DEF Due
  <2> QED
    BY <2>1, <2>2, HookBounds DEF CountsFit
<1>5. FailuresFit
  BY HookBounds DEF FailuresFit
<1> QED
  BY <1>1, <1>2, <1>3, <1>4, <1>5 DEF HooksFit

(* An activity goes on, and is none that has just begun.                   *)
Moves ==
    \/ UNCHANGED <<task, excuses>>
    \/ /\ excuses' \subseteq Losses
       /\ \E t \in S!Tasks, r \in HookTask :
             Fits(t, r) /\ r.pc # "entering" /\ task' = [task EXCEPT ![t] = r]

(* So it fits, and what is due does not grow.                              *)
LEMMA MovesFit ==
    ASSUME HooksFit, Moves
    PROVE  TasksFit' /\ excuses' \subseteq Losses /\ Due(task') \in Nat /\ Due(task) \in Nat
           /\ Due(task') <= Due(task)
<1>1. TasksFit /\ excuses \subseteq Losses
  BY DEF HooksFit, FailuresFit
<1>2. CASE UNCHANGED <<task, excuses>>
  BY <1>1, <1>2 DEF TasksFit, Due
<1>3. CASE excuses' \subseteq Losses
           /\ \E t \in S!Tasks, r \in HookTask :
                 Fits(t, r) /\ r.pc # "entering" /\ task' = [task EXCEPT ![t] = r]
  <2>1. PICK t \in S!Tasks, r \in HookTask :
           Fits(t, r) /\ r.pc # "entering" /\ task' = [task EXCEPT ![t] = r]
    BY <1>3
  <2>2. /\ task' \in [S!Tasks -> HookTask] /\ task'[t] = r
        /\ \A u \in S!Tasks \ {t} : task'[u] = task[u]
    BY <1>1, <2>1 DEF TasksFit
  <2>3. TasksFit'
    BY <1>1, <2>1, <2>2 DEF TasksFit
  <2>4. \A u \in S!Tasks : task'[u].pc = "entering" => task[u].pc = "entering"
    BY <2>1, <2>2
  <2>5. /\ task'["prompt"].pc = "entering" => task["prompt"].pc = "entering"
        /\ task'["end"].pc = "entering" => task["end"].pc = "entering"
    BY <2>4 DEF S!Tasks
  <2>6. Due(task') \in Nat /\ Due(task) \in Nat /\ Due(task') <= Due(task)
    BY <2>5 DEF Due
  <2> QED
    BY <1>3, <2>3, <2>6
<1> QED
  BY <1>2, <1>3 DEF Moves

(* A step of an activity is such a move.                                   *)
LEMMA MoveIs ==
    ASSUME HooksFit, NEW t \in S!Tasks, NEW r \in HookTask, Fits(t, r), r.pc # "entering",
           NEW x \in SUBSET Losses, S!StepExcused(t, r, x)
    PROVE  Moves
<1>1. task' = [task EXCEPT ![t] = r] /\ excuses' \subseteq excuses \cup x \cup {"overlap"}
  BY DEF S!StepExcused
<1>2. excuses' \subseteq Losses
  BY <1>1 DEF HooksFit, FailuresFit, Losses
<1> QED
  BY <1>1, <1>2 DEF Moves

(* ... also one that ends.                                                 *)
LEMMA EndIs ==
    ASSUME HooksFit, NEW t \in S!Tasks, S!GiveUp(t) \/ S!Leave(t)
    PROVE  Moves
<1>1. {} \in SUBSET Losses
  OBVIOUS
<1>2. CASE S!GiveUp(t)
  <2>1. PICK pc \in {"off", "arming"} : pc = S!Finished(t)
    BY DEF S!Finished
  <2>2. pc \in Doing
    BY <2>1 DEF Doing
  <2>3. PICK r \in HookTask : r = [S!NoTask EXCEPT !.pc = pc] /\ r.pc = pc
    BY <2>2, RestAt
  <2>4. Fits(t, r) /\ r.pc # "entering"
    BY <2>3 DEF Fits, S!Consolidating
  <2>5. S!StepExcused(t, r, {})
    BY <1>2, <2>1, <2>3 DEF S!GiveUp, S!Step
  <2> QED
    BY <1>1, <2>4, <2>5, MoveIs
<1>3. CASE S!Leave(t)
  <2>1. S!StepExcused(t, S!NoTask, {})
    BY <1>3 DEF S!Leave, S!Step
  <2> QED
    BY <1>1, <2>1, RestFits, MoveIs
<1> QED
  BY <1>2, <1>3

(* ... and one that begins to consolidate.                                 *)
LEMMA ConsolidateIs ==
    ASSUME HooksFit, NEW t \in S!Tasks, S!Consolidate(t)
    PROVE  Moves
<1>1. CASE session = S!NoSession
  BY <1>1, EndIs DEF S!Consolidate
<1>2. CASE session # S!NoSession
  <2>1. PICK pc \in {"call", "read"} : pc = IF hasTool THEN "call" ELSE "read"
    BY Zenon
  <2>2. session \in S!Sessions /\ session \in AnySession /\ pc \in Doing
    BY <1>2 DEF HooksFit, SessionFits, AnySession, Doing, S!Consolidating
  <2>3. PICK r \in HookTask : r = [S!NoTask EXCEPT !.pc = pc, !.in = session] /\ r.pc = pc
                              /\ r.in = session
    <3>1. /\ [S!NoTask EXCEPT !.pc = pc, !.in = session] \in HookTask
          /\ [S!NoTask EXCEPT !.pc = pc, !.in = session].pc = pc
          /\ [S!NoTask EXCEPT !.pc = pc, !.in = session].in = session
      BY <2>2, RestIn
    <3> QED
      BY <3>1
  <2>4. Fits(t, r) /\ r.pc # "entering"
    BY <2>2, <2>3 DEF Fits
  <2>5. S!StepExcused(t, r, {})
    BY <1>2, <2>1, <2>3 DEF S!Consolidate, S!Step
  <2> QED
    BY <2>4, <2>5, MoveIs
<1> QED
  BY <1>1, <1>2

(* A step that moves an activity and counts nothing.                       *)
LEMMA CountsKept ==
    ASSUME HooksFit, Moves, UNCHANGED <<asked, sent, count>>
    PROVE  CountsFit'
<1>1. Due(task') \in Nat /\ Due(task) \in Nat /\ Due(task') <= Due(task)
  BY MovesFit
<1>2. sent \in Nat /\ count \in Nat /\ count + Due(task) <= sent
  BY DEF HooksFit, CountsFit
<1>3. count + Due(task') <= sent
  BY <1>1, <1>2
<1> QED
  BY <1>3 DEF HooksFit, CountsFit

(* A call that fails is one of those that may.                             *)
LEMMA CountedIs ==
    ASSUME HooksFit, NEW outcome \in S!Outcomes, S!Counted(outcome)
    PROVE  failures' \in 0..MaxFailures
<1>1. failures \in 0..MaxFailures /\ MaxFailures \in Nat
  BY HookBounds DEF HooksFit, FailuresFit
<1>2. outcome = "ok" \/ failures < MaxFailures
  BY DEF S!Outcomes
<1>3. failures' = failures + (IF outcome = "ok" THEN 0 ELSE 1)
  BY DEF S!Counted
<1> QED
  BY <1>1, <1>2, <1>3

(* The steps that only move an activity.                                   *)
LEMMA FitMove ==
    ASSUME HooksFit,
           \/ S!AfterCapture \/ S!FlushSession \/ S!ArmIdleTimer \/ S!IdleTimerFires
           \/ \E t \in S!Tasks : S!RuntimeFails(t)
    PROVE  HooksFit'
<1>1. UNCHANGED <<session, seq, count, heard, buffer, summarised, taken, asked, sent, wired,
                  hasTool>>
  BY DEF S!AfterCapture, S!FlushSession, S!ArmIdleTimer, S!IdleTimerFires, S!RuntimeFails,
     S!backendVars, S!sessionVars, S!wiring
<1>2. {"end", "flush", "idle"} \subseteq S!Tasks
  BY DEF S!Tasks
<1>3. Moves
  <2>1. CASE S!AfterCapture
    BY <2>1, <1>2, EndIs, ConsolidateIs DEF S!AfterCapture
  <2>2. CASE S!FlushSession
    BY <2>2, <1>2, EndIs, ConsolidateIs DEF S!FlushSession
  <2>3. CASE S!ArmIdleTimer
    BY <2>3, <1>2, EndIs DEF S!ArmIdleTimer
  <2>4. CASE S!IdleTimerFires
    BY <2>4, <1>2, ConsolidateIs DEF S!IdleTimerFires, Moves
  <2>5. CASE \E t \in S!Tasks : S!RuntimeFails(t)
    BY <2>5, EndIs DEF S!RuntimeFails
  <2> QED
    BY <2>1, <2>2, <2>3, <2>4, <2>5
<1>4. idleTimer' \in BOOLEAN
  <2>0. idleTimer \in BOOLEAN
    BY DEF HooksFit, FlagsFit
  <2>1. CASE S!ArmIdleTimer
    <3>1. idleTimer' = (idleTimer \/ (wired = "events" /\ count > 0))
      BY <2>1 DEF S!ArmIdleTimer
    <3> QED
      BY <3>1, Zenon
  <2>2. CASE S!IdleTimerFires
    BY <2>2, Zenon DEF S!IdleTimerFires
  <2>3. CASE UNCHANGED idleTimer
    BY <2>0, <2>3, Zenon
  <2>4. S!AfterCapture \/ S!FlushSession \/ (\E t \in S!Tasks : S!RuntimeFails(t))
           => UNCHANGED idleTimer
    BY DEF S!AfterCapture, S!FlushSession, S!RuntimeFails, S!sessionVars
  <2> QED
    BY <2>1, <2>2, <2>3, <2>4
<1>5. failures' \in 0..MaxFailures
  <2>1. failures \in 0..MaxFailures /\ MaxFailures \in Nat
    BY HookBounds DEF HooksFit, FailuresFit
  <2>2. failures' = failures \/ (failures < MaxFailures /\ failures' = failures + 1)
    BY DEF S!AfterCapture, S!FlushSession, S!ArmIdleTimer, S!IdleTimerFires, S!RuntimeFails
  <2> QED
    BY <2>1, <2>2
<1>6. CountsFit'
  BY <1>1, <1>3, CountsKept
<1>7. MemoryFits' /\ SessionFits' /\ FlagsFit'
  BY <1>1, <1>4 DEF HooksFit, MemoryFits, SessionFits, FlagsFit
<1> QED
  BY <1>3, <1>5, <1>6, <1>7, MovesFit DEF HooksFit, FailuresFit

(* The steps on working memory: what they move, *)
LEMMA WorkMoves ==
    ASSUME HooksFit, NEW t \in S!Tasks,
           \/ S!ChatAdd(t) \/ S!BackendConsolidates(t) \/ S!ReadMessages(t)
           \/ S!StoreSummary(t) \/ S!ClearMessages(t)
    PROVE  Moves
<1> DEFINE e == task[t]
<1>1. e \in HookTask /\ Fits(t, e) /\ {} \in SUBSET Losses
  BY DEF HooksFit, TasksFit
<1>g. S!GiveUp(t) \/ S!Leave(t) => Moves
  BY EndIs
<1> HIDE DEF e
<1>p. {"captured", "renew", "read", "store", "clear"} \subseteq Doing
  BY DEF Doing, S!Consolidating
<1>2. ASSUME NEW pc \in {"renew", "read", "clear"}, e.in \in S!Sessions,
             S!Step(t, [e EXCEPT !.pc = pc])
      PROVE  Moves
  <2>1. PICK r \in HookTask : r = [e EXCEPT !.pc = pc] /\ r.pc = pc /\ r.in = e.in
    <3>1. /\ [e EXCEPT !.pc = pc] \in HookTask /\ [e EXCEPT !.pc = pc].pc = pc
          /\ [e EXCEPT !.pc = pc].in = e.in
      <4>1. e.in \in AnySession /\ pc \in Doing
        BY <1>1, <1>p, FieldsFit
      <4> QED
        BY <1>1, <4>1, NextFits
    <3> QED
      BY <3>1
  <2>2. Fits(t, r) /\ r.pc # "entering"
    BY <2>1, <1>2 DEF Fits
  <2>3. S!StepExcused(t, r, {})
    BY <2>1, <1>2 DEF S!Step
  <2> QED
    BY <1>1, <2>2, <2>3, MoveIs
<1>3. CASE S!ChatAdd(t)
  <2>1. \/ t = "end" /\ S!Step(t, [e EXCEPT !.pc = "captured"])
        \/ S!Leave(t)
    BY <1>3 DEF S!ChatAdd, e
  <2>2. CASE S!Leave(t)
    BY <2>2, <1>g
  <2>3. CASE t = "end" /\ S!Step(t, [e EXCEPT !.pc = "captured"])
    <3>1. PICK r \in HookTask : r = [e EXCEPT !.pc = "captured"] /\ r.pc = "captured"
      <4>1. /\ [e EXCEPT !.pc = "captured"] \in HookTask
            /\ [e EXCEPT !.pc = "captured"].pc = "captured"
        <5>1. e.in \in AnySession /\ "captured" \in Doing
          BY <1>1, <1>p, FieldsFit
        <5> QED
          BY <1>1, <5>1, NextFits
      <4> QED
        BY <4>1
    <3>2. Fits(t, r) /\ r.pc # "entering"
      BY <3>1 DEF Fits, S!Consolidating
    <3>3. S!StepExcused(t, r, {})
      BY <3>1, <2>3 DEF S!Step
    <3> QED
      BY <1>1, <3>2, <3>3, MoveIs
  <2> QED
    BY <2>1, <2>2, <2>3
<1>4. CASE S!BackendConsolidates(t)
  <2>1. e.in \in S!Sessions
    BY <1>1, <1>4 DEF S!BackendConsolidates, e, Fits, S!Consolidating
  <2>2. \/ S!GiveUp(t) \/ S!Step(t, [e EXCEPT !.pc = "renew"])
        \/ S!Step(t, [e EXCEPT !.pc = "read"])
    BY <1>4 DEF S!BackendConsolidates, e
  <2> QED
    BY <2>1, <2>2, <1>2, <1>g
<1>5. CASE S!ReadMessages(t)
  <2>1. e.in \in S!Sessions /\ buffer[e.in] \in SUBSET S!Messages
    BY <1>1, <1>5 DEF S!ReadMessages, e, Fits, S!Consolidating, HooksFit, MemoryFits
  <2>2. \/ S!GiveUp(t)
        \/ \E read \in SUBSET buffer[e.in], x \in SUBSET {"short read"} :
              S!StepExcused(t, [e EXCEPT !.pc = "store", !.read = read], x)
    BY <1>5 DEF S!ReadMessages, e
  <2>3. ASSUME NEW read \in SUBSET buffer[e.in], NEW x \in SUBSET {"short read"},
               S!StepExcused(t, [e EXCEPT !.pc = "store", !.read = read], x)
        PROVE  Moves
    <3>1. PICK r \in HookTask : r = [e EXCEPT !.pc = "store", !.read = read]
                                /\ r.pc = "store" /\ r.in = e.in
      <4>1. PICK d \in HookTask, m \in SUBSET S!Messages : d = e /\ m = read
        BY <1>1, <2>1
      <4>2. "store" \in Doing
        BY <1>p
      <4>3. /\ [d EXCEPT !.pc = "store", !.read = m] \in HookTask
            /\ [d EXCEPT !.pc = "store", !.read = m].pc = "store"
            /\ [d EXCEPT !.pc = "store", !.read = m].in = d.in
        BY <4>2 DEF HookTask
      <4> QED
        BY <4>1, <4>3
    <3>2. Fits(t, r) /\ r.pc # "entering"
      BY <3>1, <2>1 DEF Fits
    <3>3. S!StepExcused(t, r, x)
      BY <3>1, <2>3
    <3>4. x \in SUBSET Losses
      BY DEF Losses
    <3> QED
      BY <3>2, <3>3, <3>4, MoveIs
  <2> QED
    BY <2>2, <2>3, <1>g
<1>6. CASE S!StoreSummary(t)
  <2>1. e.in \in S!Sessions
    BY <1>1, <1>6 DEF S!StoreSummary, e, Fits, S!Consolidating
  <2>2. S!GiveUp(t) \/ S!Step(t, [e EXCEPT !.pc = "clear"])
    BY <1>6 DEF S!StoreSummary, e
  <2> QED
    BY <2>1, <2>2, <1>2, <1>g
<1>7. CASE S!ClearMessages(t)
  <2>1. e.in \in S!Sessions
    BY <1>1, <1>7 DEF S!ClearMessages, e, Fits, S!Consolidating
  <2>2. S!GiveUp(t) \/ S!Step(t, [e EXCEPT !.pc = "renew"])
    BY <1>7 DEF S!ClearMessages, e
  <2> QED
    BY <2>1, <2>2, <1>2, <1>g
<1> QED
  BY <1>3, <1>4, <1>5, <1>6, <1>7

(* ... and what they leave in it.                                          *)
LEMMA FitWork ==
    ASSUME HooksFit, NEW t \in S!Tasks,
           \/ S!ChatAdd(t) \/ S!BackendConsolidates(t) \/ S!ReadMessages(t)
           \/ S!StoreSummary(t) \/ S!ClearMessages(t)
    PROVE  HooksFit'
<1>1. Moves
  BY WorkMoves
<1>2. UNCHANGED <<session, seq, count, heard, idleTimer, asked, sent, wired, hasTool>>
  BY DEF S!ChatAdd, S!BackendConsolidates, S!ReadMessages, S!StoreSummary, S!ClearMessages,
     S!sessionVars, S!wiring
<1>3. task[t] \in HookTask /\ Fits(t, task[t]) /\ MemoryFits
  BY DEF HooksFit, TasksFit
<1>4. /\ task[t].in \in AnySession /\ task[t].message \in 0..MaxMessages
      /\ task[t].read \in SUBSET S!Messages
  BY <1>3, FieldsFit
<1>5. MemoryFits'
  <2>1. CASE S!ChatAdd(t)
    <3>1. task[t].message \in S!Messages /\ task[t].in \in S!Sessions
      BY <1>3, <1>4, <2>1, HookBounds DEF Fits, S!ChatAdd, S!Messages
    <3>2. /\ buffer' \in {buffer, [buffer EXCEPT ![task[t].in] = @ \cup {task[t].message}]}
          /\ taken' \in {taken, taken \cup {task[t].message}} /\ summarised' = summarised
      BY <2>1 DEF S!ChatAdd
    <3> QED
      BY <1>3, <3>1, <3>2 DEF MemoryFits
  <2>2. CASE S!BackendConsolidates(t)
    <3>1. task[t].in \in S!Sessions
      BY <1>3, <2>2 DEF Fits, S!BackendConsolidates, S!Consolidating
    <3>2. /\ buffer' \in {buffer, [buffer EXCEPT ![task[t].in] = {}]}
          /\ summarised' \in {summarised, summarised \cup buffer[task[t].in]}
          /\ taken' = taken
      BY <2>2 DEF S!BackendConsolidates
    <3> QED
      BY <1>3, <3>1, <3>2 DEF MemoryFits
  <2>3. CASE S!ReadMessages(t)
    BY <1>3, <2>3 DEF S!ReadMessages, S!backendVars, MemoryFits
  <2>4. CASE S!StoreSummary(t)
    <3>1. /\ summarised' \subseteq summarised \cup task[t].read
          /\ UNCHANGED <<buffer, taken>>
      BY <2>4 DEF S!StoreSummary
    <3> QED
      BY <1>3, <1>4, <3>1 DEF MemoryFits
  <2>5. CASE S!ClearMessages(t)
    <3>1. /\ buffer' \in {buffer, [buffer EXCEPT ![task[t].in] = {}]}
          /\ UNCHANGED <<summarised, taken>>
      BY <2>5 DEF S!ClearMessages
    <3> QED
      BY <1>3, <3>1 DEF MemoryFits
  <2> QED
    BY <2>1, <2>2, <2>3, <2>4, <2>5
<1>6. failures' \in 0..MaxFailures
  <2>1. \E outcome \in S!Outcomes : S!Counted(outcome)
    BY DEF S!ChatAdd, S!BackendConsolidates, S!ReadMessages, S!StoreSummary, S!ClearMessages
  <2> QED
    BY <2>1, CountedIs
<1>7. CountsFit'
  BY <1>1, <1>2, CountsKept
<1>8. SessionFits' /\ FlagsFit'
  BY <1>2 DEF HooksFit, SessionFits, FlagsFit
<1> QED
  BY <1>1, <1>5, <1>6, <1>7, <1>8, MovesFit DEF HooksFit, FailuresFit

(* A new session.                                                          *)
LEMMA FitRenew == ASSUME HooksFit, NEW t \in S!Tasks, S!RenewSession(t) PROVE HooksFit'
<1>1. /\ seq[Owner] < MaxSessions /\ session' = <<Owner, seq[Owner] + 1>>
      /\ seq' = [seq EXCEPT ![session'[1]] = session'[2]] /\ count' = 0
      /\ UNCHANGED <<heard, idleTimer, asked, sent, buffer, summarised, taken, failures, wired,
                     hasTool>>
  BY DEF S!RenewSession, S!NewSession, S!Opened, S!backendVars, S!wiring
<1>2. seq[Owner] \in 0..MaxSessions /\ MaxSessions \in Nat
  BY HookBounds DEF HooksFit, SessionFits
<1>3. PICK n \in 1..MaxSessions : n = seq[Owner] + 1
  BY <1>1, <1>2
<1>4. session' = <<Owner, n>> /\ <<Owner, n>>[1] = Owner /\ <<Owner, n>>[2] = n
  BY <1>1, <1>3
<1>5. SessionFits'
  <2>0. session'[1] = Owner /\ session'[2] = n
    BY <1>4
  <2>3. seq' = [seq EXCEPT ![Owner] = n]
    BY <1>1, <2>0, Zenon
  <2>1. seq' = [seq EXCEPT ![Owner] = n] /\ n \in 0..MaxSessions
    BY <2>3
  <2>2. session' \in S!Sessions
    BY <1>4, HookBounds DEF S!Sessions
  <2> QED
    BY <2>1, <2>2, HookBounds DEF HooksFit, SessionFits, AnySession
<1>6. Moves
  <2>1. PICK pc \in {"off", "arming"} : pc = S!Finished(t)
    BY DEF S!Finished
  <2>2. pc \in Doing
    BY <2>1 DEF Doing
  <2>3. PICK r \in HookTask : r = [S!NoTask EXCEPT !.pc = pc] /\ r.pc = pc
    BY <2>2, RestAt
  <2>4. Fits(t, r) /\ r.pc # "entering"
    BY <2>3 DEF Fits, S!Consolidating
  <2>5. PICK x \in SUBSET {"another sender"} : S!StepExcused(t, r, x)
    <3>1. \E x \in SUBSET {"another sender"} :
             S!StepExcused(t, [S!NoTask EXCEPT !.pc = S!Finished(t)], x)
      BY DEF S!RenewSession
    <3> QED
      BY <3>1, <2>1, <2>3
  <2>6. x \in SUBSET Losses
    BY DEF Losses
  <2> QED
    BY <2>4, <2>5, <2>6, MoveIs
<1>7. CountsFit'
  <2>1. Due(task') \in Nat /\ Due(task) \in Nat /\ Due(task') <= Due(task)
    BY <1>6, MovesFit
  <2>2. sent \in Nat /\ count \in Nat /\ count + Due(task) <= sent
    BY DEF HooksFit, CountsFit
  <2>3. count' + Due(task') <= sent
    BY <1>1, <2>1, <2>2
  <2> QED
    BY <1>1, <2>3 DEF HooksFit, CountsFit
<1>8. MemoryFits' /\ FlagsFit'
  BY <1>1 DEF HooksFit, MemoryFits, FlagsFit
<1> QED
  BY <1>1, <1>5, <1>6, <1>7, <1>8, MovesFit DEF HooksFit, FailuresFit

(* A turn that is counted: the prompt,                                     *)
LEMMA FitRecord == ASSUME HooksFit, S!RecordUserTurn PROVE HooksFit'
<1> DEFINE e == task["prompt"]
           s == S!ScopedSession(e.user)
<1>1. /\ e.pc = "entering" /\ session' = s /\ seq' = [seq EXCEPT ![s[1]] = s[2]]
      /\ S!StepExcused("prompt", [e EXCEPT !.pc = "adding", !.in = s], {})
      /\ heard' = TRUE /\ count' = count + 1
      /\ UNCHANGED <<idleTimer, asked, sent, buffer, summarised, taken, failures, wired, hasTool>>
  BY DEF S!RecordUserTurn, S!Opened, S!Step, S!backendVars, S!wiring
<1>2. "prompt" \in S!Tasks /\ "end" \in S!Tasks
  BY DEF S!Tasks
<1>3. e \in HookTask /\ Fits("prompt", e)
  BY <1>2 DEF HooksFit, TasksFit
<1>4. s \in S!Sessions
  <2>1. CASE s = session /\ session # S!NoSession
    BY <2>1 DEF HooksFit, SessionFits, AnySession
  <2>2. CASE s = S!LatestSession(e.user)
    <3>1. e.user \in Users /\ seq[e.user] \in 0..MaxSessions
      BY <1>3, FieldsFit DEF HooksFit, SessionFits
    <3>2. PICK n \in 1..MaxSessions : n = IF seq[e.user] = 0 THEN 1 ELSE seq[e.user]
      BY <3>1, HookBounds
    <3>3. s = <<e.user, n>>
      BY <2>2, <3>2 DEF S!LatestSession
    <3> QED
      BY <3>1, <3>3 DEF S!Sessions
  <2> QED
    BY <2>1, <2>2 DEF S!ScopedSession
<1>5. SessionFits'
  <2>1. s[1] \in Users /\ s[2] \in 0..MaxSessions
    BY <1>4, Named
  <2> QED
    BY <1>1, <1>4, <2>1 DEF HooksFit, SessionFits, AnySession
<1>6. PICK r \in HookTask : /\ r = [e EXCEPT !.pc = "adding", !.in = s] /\ r.pc = "adding"
                            /\ r.in = s /\ r.message = e.message
  <2>1. PICK i \in AnySession : i = s
    BY <1>4 DEF AnySession
  <2>2. PICK d \in HookTask : d = e
    BY <1>3
  <2>3. "adding" \in Doing
    BY DEF Doing
  <2>4. /\ [d EXCEPT !.pc = "adding", !.in = i] \in HookTask
        /\ [d EXCEPT !.pc = "adding", !.in = i].pc = "adding"
        /\ [d EXCEPT !.pc = "adding", !.in = i].in = i
        /\ [d EXCEPT !.pc = "adding", !.in = i].message = d.message
    BY <2>3 DEF HookTask
  <2> QED
    BY <2>1, <2>2, <2>4
<1>7. Fits("prompt", r) /\ r.pc # "entering"
  BY <1>1, <1>3, <1>4, <1>6 DEF Fits
<1>8. S!StepExcused("prompt", r, {})
  BY <1>1, <1>6
<1>9. Moves
  BY <1>2, <1>7, <1>8, MoveIs
<1>10. task'["prompt"].pc # "entering" /\ task'["end"] = task["end"]
  BY <1>2, <1>7, <1>8 DEF S!StepExcused, HooksFit, TasksFit
<1>11. CountsFit'
  <2>1. Due(task') + 1 = Due(task) /\ Due(task') \in Nat
    BY <1>1, <1>10 DEF Due
  <2>2. sent \in Nat /\ count \in Nat /\ count + Due(task) <= sent
    BY DEF HooksFit, CountsFit
  <2>3. count' \in Nat /\ count' + Due(task') <= sent
    BY <1>1, <2>1, <2>2
  <2> QED
    BY <1>1, <2>3 DEF HooksFit, CountsFit
<1>12. FlagsFit'
  <2>1. heard' \in BOOLEAN
    BY <1>1, Zenon
  <2> QED
    BY <1>1, <2>1 DEF HooksFit, FlagsFit
<1>13. MemoryFits'
  BY <1>1 DEF HooksFit, MemoryFits
<1> QED
  BY <1>1, <1>5, <1>9, <1>11, <1>12, <1>13, MovesFit DEF HooksFit, FailuresFit

(* and its answer.                                                         *)
LEMMA FitCapture == ASSUME HooksFit, S!AutoCapture PROVE HooksFit'
<1> DEFINE e == task["end"]
<1>1. /\ e.pc = "entering"
      /\ \/ /\ session # S!NoSession /\ count' = count + 1
            /\ S!StepExcused("end", [e EXCEPT !.pc = "adding", !.in = session], {})
         \/ count' = count /\ S!StepExcused("end", [e EXCEPT !.pc = "arming"], {})
      /\ UNCHANGED <<session, seq, heard, idleTimer, asked, sent, buffer, summarised, taken,
                     failures, wired, hasTool>>
  BY DEF S!AutoCapture, S!Step, S!backendVars, S!wiring
<1>2. "prompt" \in S!Tasks /\ "end" \in S!Tasks
  BY DEF S!Tasks
<1>3. PICK d \in HookTask : d = e /\ Fits("end", d)
  BY <1>2 DEF HooksFit, TasksFit
<1>4. "adding" \in Doing /\ "arming" \in Doing /\ session \in AnySession
  BY DEF Doing, HooksFit, SessionFits
<1>5. \E r \in HookTask : Fits("end", r) /\ r.pc # "entering" /\ S!StepExcused("end", r, {})
  <2>1. CASE session # S!NoSession
             /\ S!StepExcused("end", [d EXCEPT !.pc = "adding", !.in = session], {})
    <3>1. /\ [d EXCEPT !.pc = "adding", !.in = session] \in HookTask
          /\ [d EXCEPT !.pc = "adding", !.in = session].pc = "adding"
          /\ [d EXCEPT !.pc = "adding", !.in = session].in = session
          /\ [d EXCEPT !.pc = "adding", !.in = session].message = d.message
      BY <1>4 DEF HookTask
    <3>2. PICK r \in HookTask : /\ r = [d EXCEPT !.pc = "adding", !.in = session]
                                /\ r.pc = "adding" /\ r.in = session /\ r.message = d.message
      BY <3>1
    <3>3. Fits("end", r)
      BY <1>1, <1>3, <1>4, <2>1, <3>2 DEF Fits, AnySession
    <3> QED
      BY <2>1, <3>2, <3>3
  <2>2. CASE S!StepExcused("end", [d EXCEPT !.pc = "arming"], {})
    <3>1. [d EXCEPT !.pc = "arming"] \in HookTask /\ [d EXCEPT !.pc = "arming"].pc = "arming"
      BY <1>4, NextFits
    <3>2. PICK r \in HookTask : r = [d EXCEPT !.pc = "arming"] /\ r.pc = "arming"
      BY <3>1
    <3>3. Fits("end", r)
      BY <3>2 DEF Fits, S!Consolidating
    <3> QED
      BY <2>2, <3>2, <3>3
  <2> QED
    BY <1>1, <1>3, <2>1, <2>2
<1>6. PICK r \in HookTask : Fits("end", r) /\ r.pc # "entering" /\ S!StepExcused("end", r, {})
  BY <1>5
<1>7. Moves
  BY <1>2, <1>6, MoveIs
<1>8. task'["end"].pc # "entering" /\ task'["prompt"] = task["prompt"]
  BY <1>2, <1>6 DEF S!StepExcused, HooksFit, TasksFit
<1>9. CountsFit'
  <2>1. Due(task') + 1 = Due(task) /\ Due(task') \in Nat
    BY <1>1, <1>8 DEF Due
  <2>2. sent \in Nat /\ count \in Nat /\ count + Due(task) <= sent
    BY DEF HooksFit, CountsFit
  <2>3. count' \in Nat /\ count' + Due(task') <= sent
    BY <1>1, <2>1, <2>2
  <2> QED
    BY <1>1, <2>3 DEF HooksFit, CountsFit
<1>10. MemoryFits' /\ SessionFits' /\ FlagsFit'
  BY <1>1 DEF HooksFit, MemoryFits, SessionFits, FlagsFit
<1> QED
  BY <1>1, <1>7, <1>9, <1>10, MovesFit DEF HooksFit, FailuresFit

(* An activity begins.                                                     *)
LEMMA BeginIs ==
    ASSUME HooksFit, NEW t \in S!Tasks, NEW r \in HookTask, Fits(t, r), r.pc = "entering",
           S!Step(t, r)
    PROVE  /\ TasksFit' /\ excuses' \subseteq Losses /\ task'[t] = r
           /\ \A u \in S!Tasks \ {t} : task'[u] = task[u]
<1>1. task' = [task EXCEPT ![t] = r] /\ excuses' \subseteq excuses \cup {"overlap"}
  BY DEF S!Step, S!StepExcused
<1>2. excuses' \subseteq Losses
  BY <1>1 DEF HooksFit, FailuresFit, Losses
<1> QED
  BY <1>1, <1>2 DEF HooksFit, TasksFit

(* A prompt, for which there is room, and for its answer.                  *)
LEMMA FitPrompt == ASSUME HooksFit, NEW u \in Users, S!BeforePrompt(u) PROVE HooksFit'
<1>1. /\ task["prompt"].pc = "off" /\ sent + Cardinality(asked) + 2 <= MaxMessages
      /\ sent' = sent + 1 /\ asked' = asked \cup {u}
      /\ idleTimer' = (idleTimer /\ wired = "gateway")
      /\ S!Step("prompt", [S!NoTask EXCEPT !.pc = "entering", !.user = u, !.message = sent + 1])
      /\ UNCHANGED <<session, seq, count, heard, buffer, summarised, taken, failures, wired,
                     hasTool>>
  BY DEF S!BeforePrompt, S!Busy, S!wiring, S!backendVars, S!Cardinality, Cardinality
<1>2. /\ IsFiniteSet(asked) /\ asked \subseteq Users /\ sent \in Nat /\ count \in Nat
      /\ count + Due(task) <= sent /\ MaxMessages \in Nat
  BY HookBounds DEF HooksFit, CountsFit
<1>3. /\ Cardinality(asked) \in Nat /\ IsFiniteSet(asked')
      /\ Cardinality(asked') \in {Cardinality(asked), Cardinality(asked) + 1}
  BY <1>1, <1>2, FS_CardinalityType, FS_AddElement
<1>4. PICK m \in 0..MaxMessages : m = sent + 1 /\ m # 0
  BY <1>1, <1>2, <1>3
<1>5. "entering" \in Doing /\ "prompt" \in S!Tasks /\ "end" \in S!Tasks
  BY DEF Doing, S!Tasks
<1>6. PICK r \in HookTask :
         /\ r = [S!NoTask EXCEPT !.pc = "entering", !.user = u, !.message = m]
         /\ r.pc = "entering" /\ r.message = m
  <2>1. PICK e \in HookTask : e = S!NoTask
    BY RestFits
  <2>2. /\ [e EXCEPT !.pc = "entering", !.user = u, !.message = m] \in HookTask
        /\ [e EXCEPT !.pc = "entering", !.user = u, !.message = m].pc = "entering"
        /\ [e EXCEPT !.pc = "entering", !.user = u, !.message = m].message = m
    BY <1>5 DEF HookTask
  <2> QED
    BY <2>1, <2>2
<1>7. Fits("prompt", r)
  BY <1>4, <1>6 DEF Fits, S!Consolidating
<1>8. S!Step("prompt", r)
  BY <1>1, <1>4, <1>6
<1>9. /\ TasksFit' /\ excuses' \subseteq Losses /\ task'["prompt"].pc = "entering"
      /\ task'["end"] = task["end"]
  BY <1>5, <1>6, <1>7, <1>8, BeginIs
<1>10. CountsFit'
  <2>1. Due(task') = Due(task) + 1 /\ Due(task) \in Nat
    BY <1>1, <1>9 DEF Due
  <2>2. count + Due(task') <= sent + 1
    BY <1>2, <2>1
  <2>3. sent + 1 + Cardinality(asked') <= MaxMessages
    BY <1>1, <1>2, <1>3
  <2>4. asked' \subseteq Users
    BY <1>1, <1>2
  <2> QED
    BY <1>1, <1>2, <1>3, <2>2, <2>3, <2>4 DEF CountsFit
<1>11. FlagsFit'
  <2>1. idleTimer' \in BOOLEAN
    BY <1>1, Zenon
  <2> QED
    BY <1>1, <2>1 DEF HooksFit, FlagsFit
<1>12. MemoryFits' /\ SessionFits' /\ FailuresFit'
  BY <1>1, <1>9 DEF HooksFit, MemoryFits, SessionFits, FailuresFit
<1> QED
  BY <1>9, <1>10, <1>11, <1>12 DEF HooksFit

(* An answer, for which its prompt had kept room.                          *)
LEMMA FitAnswer == ASSUME HooksFit, NEW u \in Users, S!AgentEnd(u) PROVE HooksFit'
<1>1. /\ task["end"].pc = "off" /\ u \in asked
      /\ sent' = sent + 1 /\ asked' = asked \ {u}
      /\ S!Step("end", [S!NoTask EXCEPT !.pc = "entering", !.user = u, !.message = sent + 1])
      /\ UNCHANGED <<session, seq, count, heard, idleTimer, buffer, summarised, taken, failures,
                     wired, hasTool>>
  BY DEF S!AgentEnd, S!Busy, S!wiring, S!sessionVars, S!backendVars
<1>2. /\ IsFiniteSet(asked) /\ asked \subseteq Users /\ sent \in Nat /\ count \in Nat
      /\ count + Due(task) <= sent /\ MaxMessages \in Nat
      /\ sent + Cardinality(asked) <= MaxMessages
  BY HookBounds DEF HooksFit, CountsFit
<1>3. /\ Cardinality(asked) \in Nat /\ IsFiniteSet(asked')
      /\ Cardinality(asked') = Cardinality(asked) - 1 /\ Cardinality(asked') \in Nat
  BY <1>1, <1>2, FS_CardinalityType, FS_RemoveElement
<1>4. PICK m \in 0..MaxMessages : m = sent + 1 /\ m # 0
  BY <1>1, <1>2, <1>3
<1>5. "entering" \in Doing /\ "prompt" \in S!Tasks /\ "end" \in S!Tasks
  BY DEF Doing, S!Tasks
<1>6. PICK r \in HookTask :
         /\ r = [S!NoTask EXCEPT !.pc = "entering", !.user = u, !.message = m]
         /\ r.pc = "entering" /\ r.message = m
  <2>1. PICK e \in HookTask : e = S!NoTask
    BY RestFits
  <2>2. /\ [e EXCEPT !.pc = "entering", !.user = u, !.message = m] \in HookTask
        /\ [e EXCEPT !.pc = "entering", !.user = u, !.message = m].pc = "entering"
        /\ [e EXCEPT !.pc = "entering", !.user = u, !.message = m].message = m
    BY <1>5 DEF HookTask
  <2> QED
    BY <2>1, <2>2
<1>7. Fits("end", r)
  BY <1>4, <1>6 DEF Fits, S!Consolidating
<1>8. S!Step("end", r)
  BY <1>1, <1>4, <1>6
<1>9. /\ TasksFit' /\ excuses' \subseteq Losses /\ task'["end"].pc = "entering"
      /\ task'["prompt"] = task["prompt"]
  BY <1>5, <1>6, <1>7, <1>8, BeginIs
<1>10. CountsFit'
  <2>1. Due(task') = Due(task) + 1 /\ Due(task) \in Nat
    BY <1>1, <1>9 DEF Due
  <2>2. count + Due(task') <= sent + 1
    BY <1>2, <2>1
  <2>3. sent + 1 + Cardinality(asked') <= MaxMessages
    BY <1>1, <1>2, <1>3
  <2>4. asked' \subseteq Users
    BY <1>1, <1>2
  <2> QED
    BY <1>1, <1>2, <1>3, <2>2, <2>3, <2>4 DEF CountsFit
<1>11. MemoryFits' /\ SessionFits' /\ FlagsFit' /\ FailuresFit'
  BY <1>1, <1>9 DEF HooksFit, MemoryFits, SessionFits, FlagsFit, FailuresFit
<1> QED
  BY <1>9, <1>10, <1>11 DEF HooksFit

(* The host is about to compact its context.                               *)
LEMMA FitCompaction == ASSUME HooksFit, S!BeforeCompaction PROVE HooksFit'
<1>1. /\ S!Step("flush", [S!NoTask EXCEPT !.pc = "entering"]) /\ idleTimer' = FALSE
      /\ UNCHANGED <<session, seq, count, heard, asked, sent, buffer, summarised, taken, failures,
                     wired, hasTool>>
  BY DEF S!BeforeCompaction, S!wiring, S!backendVars
<1>2. {"flush", "prompt", "end"} \subseteq S!Tasks /\ "entering" \in Doing
  BY DEF S!Tasks, Doing
<1>3. PICK r \in HookTask : r = [S!NoTask EXCEPT !.pc = "entering"] /\ r.pc = "entering"
  BY <1>2, RestAt
<1>4. Fits("flush", r)
  BY <1>3 DEF Fits, S!Consolidating
<1>5. /\ TasksFit' /\ excuses' \subseteq Losses
      /\ task'["prompt"] = task["prompt"] /\ task'["end"] = task["end"]
  BY <1>1, <1>2, <1>3, <1>4, BeginIs
<1>6. Due(task') = Due(task)
  BY <1>5 DEF Due
<1>7. CountsFit'
  BY <1>1, <1>6 DEF HooksFit, CountsFit
<1>8. FlagsFit'
  <2>1. idleTimer' \in BOOLEAN
    BY <1>1, Zenon
  <2> QED
    BY <1>1, <2>1 DEF HooksFit, FlagsFit
<1>9. MemoryFits' /\ SessionFits' /\ FailuresFit'
  BY <1>1, <1>5 DEF HooksFit, MemoryFits, SessionFits, FailuresFit
<1> QED
  BY <1>5, <1>7, <1>8, <1>9 DEF HooksFit

(* The gateway starts again.                                               *)
LEMMA FitRestart == ASSUME HooksFit, S!Restart PROVE HooksFit'
<1>1. /\ failures < MaxFailures /\ failures' = failures + 1
      /\ session' = S!NoSession /\ count' = 0 /\ heard' = FALSE /\ idleTimer' = FALSE
      /\ seq' = [u \in Users |-> 0] /\ task' = [t \in S!Tasks |-> S!NoTask] /\ asked' = {}
      /\ excuses' \subseteq excuses \cup {"restart"}
      /\ UNCHANGED <<sent, buffer, summarised, taken, wired, hasTool>>
  BY DEF S!Restart, S!wiring, S!backendVars
<1>2. TasksFit'
  BY <1>1, RestFits DEF TasksFit
<1>3. SessionFits' /\ MemoryFits'
  BY <1>1, HookBounds DEF HooksFit, SessionFits, MemoryFits, AnySession
<1>4. FlagsFit'
  <2>1. heard' \in BOOLEAN /\ idleTimer' \in BOOLEAN
    BY <1>1, Zenon
  <2> QED
    BY <1>1, <2>1 DEF HooksFit, FlagsFit
<1>5. CountsFit'
  <2>1. IsFiniteSet(asked') /\ Cardinality(asked') = 0
    BY <1>1, FS_EmptySet
  <2>2. Due(task') = 0
    <3>1. task'["prompt"] = S!NoTask /\ task'["end"] = S!NoTask
      BY <1>1 DEF S!Tasks
    <3> QED
      BY <3>1, RestFits DEF Due
  <2>3. sent \in Nat /\ sent <= MaxMessages
    <3>1. sent \in Nat /\ IsFiniteSet(asked) /\ sent + Cardinality(asked) <= MaxMessages
      BY DEF HooksFit, CountsFit
    <3> QED
      BY <3>1, FS_CardinalityType, HookBounds
  <2> QED
    BY <1>1, <2>1, <2>2, <2>3, HookBounds DEF CountsFit
<1>6. FailuresFit'
  <2>1. failures' \in 0..MaxFailures
    BY <1>1, HookBounds DEF HooksFit, FailuresFit
  <2>2. excuses' \subseteq Losses
    BY <1>1 DEF HooksFit, FailuresFit, Losses
  <2> QED
    BY <2>1, <2>2 DEF FailuresFit
<1> QED
  BY <1>2, <1>3, <1>4, <1>5, <1>6 DEF HooksFit

(* A session is consolidated by hand.                                      *)
LEMMA FitByHand ==
    ASSUME HooksFit, NEW s \in {session, <<Owner, 1>>}, S!ConsolidateByHand(s)
    PROVE  HooksFit'
<1>1. /\ s[2] > 0 /\ summarised' = summarised \cup buffer[s]
      /\ buffer' = [buffer EXCEPT ![s] = {}]
      /\ UNCHANGED <<session, seq, count, heard, idleTimer, task, asked, sent, taken, failures,
                     excuses, wired, hasTool>>
  BY DEF S!ConsolidateByHand, S!wiring, S!sessionVars
<1>2. s \in S!Sessions
  <2>1. <<Owner, 1>> \in S!Sessions
    BY HookBounds DEF S!Sessions
  <2>2. session \in S!Sessions \cup {S!NoSession}
    BY DEF HooksFit, SessionFits, AnySession
  <2>3. S!NoSession[2] = 0
    BY DEF S!NoSession
  <2>4. s # S!NoSession
    BY <1>1, <2>3
  <2> QED
    BY <2>1, <2>2, <2>4
<1>3. MemoryFits'
  BY <1>1, <1>2 DEF HooksFit, MemoryFits
<1> QED
  BY <1>1, <1>3 DEF HooksFit, TasksFit, SessionFits, FlagsFit, CountsFit, FailuresFit

(* Every step of the hooks keeps within the bounds.                        *)
LEMMA HooksFitStep == HooksFit /\ [S!Next]_(S!vars) => HooksFit'
<1> SUFFICES ASSUME HooksFit, [S!Next]_(S!vars) PROVE HooksFit'
  OBVIOUS
<1>1. CASE UNCHANGED S!vars
  BY <1>1 DEF S!vars, HooksFit, TasksFit, MemoryFits, SessionFits, FlagsFit, CountsFit,
     FailuresFit
<1>2. CASE S!Next
  BY <1>2, FitPrompt, FitAnswer, FitCompaction, FitByHand, FitRestart, FitRecord, FitCapture,
     FitMove, FitWork, FitRenew DEF S!Next, S!Progress, S!Advance
<1> QED
  BY <1>1, <1>2

(* The hooks have their types.                                             *)
LEMMA HooksHaveTypes == HooksFit => S!TypeOK
<1> SUFFICES ASSUME HooksFit PROVE S!TypeOK
  OBVIOUS
<1>1. sent \in 0..MaxMessages /\ count \in 0..MaxMessages
  <2>1. /\ sent \in Nat /\ count \in Nat /\ IsFiniteSet(asked)
        /\ sent + Cardinality(asked) <= MaxMessages /\ count + Due(task) <= sent
    BY DEF HooksFit, CountsFit
  <2>2. Cardinality(asked) \in Nat /\ Due(task) \in Nat /\ MaxMessages \in Nat
    BY <2>1, FS_CardinalityType, HookBounds DEF Due
  <2> QED
    BY <2>1, <2>2
<1> QED
  BY <1>1 DEF HooksFit, TasksFit, MemoryFits, SessionFits, FlagsFit, CountsFit, FailuresFit,
     HookTask, Doing, AnySession, Losses, S!TypeOK

(***************************************************************************)
(* The run                                                                 *)
(***************************************************************************)

(* A step of the run is one of each half, or leaves its variables alone.   *)
LEMMA HalvesMove ==
    ASSUME [Next]_allVars
    PROVE  [S!Next]_(S!vars) /\ [R!Next]_(R!vars)
BY DEF Next, allVars, hookVars, runtimeVars, SessionStep, RuntimeStep, S!Next, S!vars,
   R!vars

(* A child that is up is the one the bridge talks to, unless a start met a *)
(* child that was being closed; and one Dream State timer is armed or one  *)
(* run awaited at a time, unless a call armed a timer during a run         *)
(* (ensureRuntimeStarted and scheduleDreamState of index.ts).              *)
THEOREM NothingEverRunsTwice == Spec => []NothingRunsTwice
<1>1. Init => RunInv
  BY RunInit DEF Init
<1>2. RunInv /\ [Next]_allVars => RunInv'
  BY HalvesMove, RunStep
<1>3. RunInv => NothingRunsTwice
  BY RunIsGood DEF NothingRunsTwice
<1> QED
  BY <1>1, <1>2, <1>3, PTL DEF Spec

(* A child that runs and that no caller is about to restart has the        *)
(* credentials of the configuration, unless they changed while it started, *)
(* were refreshed outside or taken away, or a start met a child that was   *)
(* being closed (ensureRuntimeStarted of index.ts).                        *)
THEOREM CredentialsAlwaysCurrent == Spec => []RunsWithCurrentKey
<1>1. Init => RunInv
  BY RunInit DEF Init
<1>2. RunInv /\ [Next]_allVars => RunInv'
  BY HalvesMove, RunStep
<1>3. RunInv => RunsWithCurrentKey
  BY RunIsGood DEF RunsWithCurrentKey
<1> QED
  BY <1>1, <1>2, <1>3, PTL DEF Spec

(* Whatever calls fail or answer late, a message that working memory has   *)
(* taken is in a summary or in a session that a later turn or flush finds  *)
(* again, unless a behaviour has had one of the four excuses               *)
(* (consolidateSession of hooks.ts).                                       *)
THEOREM TakenAlwaysKept == Spec => []KeptUnlessExcused
<1>1. Init => SessionInv
  BY SessionInit DEF Init
<1>2. SessionInv /\ [Next]_allVars => SessionInv'
  BY HalvesMove, HooksStep
<1>3. SessionInv => KeptUnlessExcused
  BY FineIsKept DEF KeptUnlessExcused
<1> QED
  BY <1>1, <1>2, <1>3, PTL DEF Spec

(* Every variable of both halves has its type and keeps its bound: each    *)
(* timer, message and failure counted was allowed for, and an activity     *)
(* works on a session that exists (index.ts, hooks.ts, mcp-bridge.ts).     *)
THEOREM OpenClawTyped == Spec => []TypesOK
<1>1. Init => RunInv /\ RunLimits /\ HooksFit
  BY RunInit, LimitsInit, HooksFitInit DEF Init
<1>2. RunInv /\ RunLimits /\ HooksFit /\ [Next]_allVars => RunInv' /\ RunLimits' /\ HooksFit'
  BY HalvesMove, RunStep, LimitsStep, HooksFitStep
<1>3. RunInv /\ RunLimits /\ HooksFit => TypesOK
  BY RunHasTypes, HooksHaveTypes DEF TypesOK
<1> QED
  BY <1>1, <1>2, <1>3, PTL DEF Spec
=============================================================================
