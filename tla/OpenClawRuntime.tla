-------------------------- MODULE OpenClawRuntime --------------------------
(***************************************************************************)
(* The child process of the OpenClaw plugin: a Python server that one      *)
(* bridge object starts, talks to and closes.                              *)
(*                                                                         *)
(* Every hook, command and tool first awaits ensureRuntimeStarted.  It     *)
(* takes over the host's model credentials, restarts a child that runs     *)
(* with other ones, shares one start among its callers, and arms the Dream *)
(* State timer.  Calls overlap: one action runs from one await to the      *)
(* next.  The events of a child process (its answer, its exit) come        *)
(* between any two of them, and the handler of an exit does not look at    *)
(* which child has gone.                                                   *)
(***************************************************************************)
EXTENDS Naturals, FiniteSets

CONSTANTS
    Calls,         \* callers of ensureRuntimeStarted that can overlap
    Nobody,        \* no caller
    MaxChildren,   \* bound: child processes started
    MaxKeys,       \* bound: credentials that the host will have had
    MaxTimers,     \* bound: Dream State timers and runs at a time
    MaxEvents      \* bound: logins, stops, timers, children that die or do not answer

(* What a run may give the constants; the module of the run assumes it.    *)
RuntimeAssumption ==
    /\ Nobody \notin Calls /\ IsFiniteSet(Calls)
    /\ {MaxChildren, MaxKeys, MaxTimers} \subseteq Nat \ {0} /\ MaxEvents \in Nat

VARIABLES
    call,          \* the callers
    attempt,       \* the start that each caller has begun
    startPromise,  \* whose start the variable startPromise refers to
    child,         \* the child processes: "none", "up", "told" to end, "gone"
    childKey,      \* credential in the environment of each child
    proc,          \* bridge.proc (0: null)
    initialized,   \* bridge.initialized
    hostKey,       \* credential that the host has now (0: none)
    localKey,      \* credential in config.local.env
    addedKey,      \* credential in bridge.extraEnv
    dreamTimer,    \* whether dreamStateTimer is set
    timers,        \* Dream State timers that are armed
    dreams,        \* Dream State runs that their timer awaits
    stopping,      \* the service is being stopped, and waits for this child
    stopped,       \* the service was told to stop
    idle,          \* whether the hooks have armed their timer for a quiet user
    events,        \* number of events from outside
    excused        \* ghost: what has happened that may break a promise

bridgeVars == <<attempt, startPromise, child, childKey, proc, initialized>>
keyVars == <<hostKey, localKey, addedKey>>
dreamVars == <<dreamTimer, timers, dreams>>
stopVars == <<stopping, stopped, idle>>
vars == <<call, attempt, startPromise, child, childKey, proc, initialized,
          hostKey, localKey, addedKey, dreamTimer, timers, dreams, stopping,
          stopped, idle, events, excused>>

Children == 1..MaxChildren
Alive(c) == c # 0 /\ child[c] \in {"up", "told"}
Idle == [pc |-> "off", changed |-> FALSE, running |-> FALSE, on |-> Nobody, old |-> 0]
NoAttempt == [pc |-> "none", child |-> 0]
Spawned == {c \in Children : child[c] # "none"}

isRunning == proc # 0 /\ initialized

(* A start is under way, or a child that was told to end has not yet gone. *)
StartUnderWay == \E h \in Calls : attempt[h].pc # "none"
CloseUnderWay == \E c \in Children : child[c] = "told"
Excused(what, condition) == excused' = excused \cup (IF condition THEN {what} ELSE {})

-----------------------------------------------------------------------------
Init ==
    /\ call = [h \in Calls |-> Idle]
    /\ attempt = [h \in Calls |-> NoAttempt]
    /\ startPromise = Nobody
    /\ child = [c \in Children |-> "none"]
    /\ childKey = [c \in Children |-> 0]
    /\ proc = 0 /\ initialized = FALSE
    /\ hostKey = 1 /\ localKey = hostKey /\ addedKey = 0
    /\ dreamTimer = FALSE /\ timers = 0 /\ dreams = 0
    /\ stopping = 0 /\ stopped = FALSE /\ idle = FALSE
    /\ events = 0 /\ excused = {}

(* The host logs in with another provider, or logs out.                    *)
HostChangesKey ==
    /\ hostKey < MaxKeys /\ events < MaxEvents
    /\ events' = events + 1
    /\ hostKey' \in {0, hostKey + 1} \ {hostKey}
    /\ UNCHANGED <<call, bridgeVars, localKey, addedKey, dreamVars, stopVars, excused>>

(* The credentials that resolveLatestHostLlm finds: a service that has    *)
(* stopped forgets how to ask the host, and finds none.                    *)
Latest == IF stopped THEN 0 ELSE hostKey

(* A hook method with its runtime refreshes the credentials once more by   *)
(* itself, and so does the timer that fires when the user went quiet, with *)
(* no caller at all: a change found there restarts nothing, and the next   *)
(* call finds none.                                                        *)
RefreshOutside ==
    /\ \/ (\E h \in Calls : call[h].pc = "ready") /\ UNCHANGED idle
       \/ idle /\ idle' = FALSE
    /\ localKey' = Latest
    /\ Excused("refreshed outside", localKey # Latest)
    /\ UNCHANGED <<call, bridgeVars, hostKey, addedKey, dreamVars, stopping, stopped, events>>

(* ensureRuntimeStarted, to its first await: the credentials are taken     *)
(* over and the bridge is asked whether it runs.  Some hooks first cancel  *)
(* the timer for a quiet user.                                             *)
EnsureRuntimeStarted(h) ==
    /\ call[h].pc = "off"
    /\ Cardinality(Spawned) + Cardinality({g \in Calls : call[g].pc # "off"}) < MaxChildren
    /\ localKey' = Latest
    /\ excused' = excused
           \cup (IF Latest = 0 /\ localKey # 0 THEN {"logged out"} ELSE {})
           \cup (IF Latest # localKey /\ \E g \in Calls : attempt[g].pc = "handshake"
                 THEN {"changed during start"} ELSE {})
    /\ call' = [call EXCEPT ![h] = [Idle EXCEPT !.pc = "pinged",
                    !.changed = (Latest # localKey), !.running = isRunning]]
    /\ idle' \in {idle, FALSE}
    /\ UNCHANGED <<bridgeVars, hostKey, addedKey, dreamVars, stopping, stopped, events>>

(* Share the start that is under way, or begin one: it awaits the token.   *)
JoinStart(h) ==
    IF startPromise = Nobody
    THEN /\ attempt' = [attempt EXCEPT ![h].pc = "token"]
         /\ startPromise' = h
         /\ call' = [call EXCEPT ![h] = [Idle EXCEPT !.pc = "waiting", !.on = h]]
         /\ Excused("start beside close", CloseUnderWay)
    ELSE /\ call' = [call EXCEPT ![h] = [Idle EXCEPT !.pc = "waiting", !.on = startPromise]]
         /\ UNCHANGED <<attempt, startPromise, excused>>

(* close: the bridge forgets its child and tells it to end.                *)
TellToEnd ==
    /\ proc' = 0 /\ initialized' = FALSE
    /\ child' = IF proc = 0 \/ ~Alive(proc) THEN child ELSE [child EXCEPT ![proc] = "told"]

(* Mutant: a running child is kept whatever credentials it has.            *)
KeepRunning(h) ==
    /\ call[h].pc = "pinged"
    /\ \/ /\ call[h].running
          /\ call' = [call EXCEPT ![h] = [Idle EXCEPT !.pc = "status"]]
          /\ UNCHANGED <<bridgeVars, excused>>
       \/ /\ ~call[h].running
          /\ JoinStart(h)
          /\ UNCHANGED <<child, childKey, proc, initialized>>
    /\ UNCHANGED <<keyVars, dreamVars, stopVars, events>>

(* A child that runs with other credentials is closed first, one that does *)
(* not run is started.                                                     *)
AfterPing(h) ==
    /\ call[h].pc = "pinged"
    /\ \/ /\ call[h].running /\ ~call[h].changed
          /\ call' = [call EXCEPT ![h] = [Idle EXCEPT !.pc = "status"]]
          /\ UNCHANGED <<bridgeVars, excused>>
       \/ /\ call[h].running /\ call[h].changed /\ proc # 0
          /\ call' = [call EXCEPT ![h] = [Idle EXCEPT !.pc = "closing", !.old = proc]]
          /\ TellToEnd
          /\ Excused("start beside close", StartUnderWay)
          /\ UNCHANGED <<attempt, startPromise, childKey>>
       \/ /\ ~call[h].running \/ (call[h].changed /\ proc = 0)
          /\ JoinStart(h)
          /\ UNCHANGED <<child, childKey, proc, initialized>>
    /\ UNCHANGED <<keyVars, dreamVars, stopVars, events>>

(* A start is over: it clears the variable, whoever's start it names, and  *)
(* all that awaited it go on or fail.                                      *)
Settled(h, ok) ==
    /\ attempt' = [attempt EXCEPT ![h] = NoAttempt]
    /\ startPromise' = Nobody
    /\ call' = [g \in Calls |->
                  IF call[g].pc # "waiting" \/ call[g].on # h THEN call[g]
                  ELSE IF ok THEN [Idle EXCEPT !.pc = "status"] ELSE Idle]

(* The requests in flight are rejected: each handshake that waits for its  *)
(* answer fails.  The caller whose close this ends, if any, looks at the   *)
(* variable before such a failure has cleared it: it shares a start that   *)
(* has failed, or begins one.                                              *)
RejectAllPending(closers) ==
    LET failed == {h \in Calls : attempt[h].pc = "handshake"}
        begins == IF startPromise = Nobody THEN closers ELSE {}
        shares(g) == g \in closers \ begins
    IN /\ attempt' = [h \in Calls |-> IF h \in begins THEN [pc |-> "token", child |-> 0]
                                      ELSE IF h \in failed THEN NoAttempt ELSE attempt[h]]
       /\ startPromise' \in IF failed # {} THEN {Nobody}
                            ELSE IF begins # {} THEN begins ELSE {startPromise}
       /\ call' = [g \in Calls |->
                     IF g \in begins THEN [Idle EXCEPT !.pc = "waiting", !.on = g]
                     ELSE IF shares(g) /\ startPromise \notin failed
                     THEN [Idle EXCEPT !.pc = "waiting", !.on = startPromise]
                     ELSE IF shares(g) \/ (call[g].pc = "waiting" /\ call[g].on \in failed)
                     THEN Idle ELSE call[g]]

(* Mutant: start does not look for a child that is there already.          *)
SpawnAnyway(h) ==
    /\ attempt[h].pc = "token"
    /\ addedKey' = IF localKey = 0 THEN addedKey ELSE localKey
    /\ LET c == Cardinality(Spawned) + 1
       IN /\ child' = [child EXCEPT ![c] = "up"]
          /\ childKey' = [childKey EXCEPT ![c] = addedKey']
          /\ proc' = c
          /\ attempt' = [attempt EXCEPT ![h] = [pc |-> "handshake", child |-> c]]
    /\ UNCHANGED <<call, startPromise, initialized, excused, hostKey, localKey,
                   dreamVars, stopVars, events>>

(* The token is there: the environment is put together, the child spawned  *)
(* and the handshake sent, unless the bridge still has a child.            *)
Spawn(h) ==
    /\ attempt[h].pc = "token"
    /\ addedKey' = IF localKey = 0 THEN addedKey ELSE localKey
    /\ IF proc # 0
       THEN Settled(h, FALSE) /\ UNCHANGED <<child, childKey, proc>>
       ELSE LET c == Cardinality(Spawned) + 1
            IN /\ child' = [child EXCEPT ![c] = "up"]
               /\ childKey' = [childKey EXCEPT ![c] = addedKey']
               /\ proc' = c
               /\ attempt' = [attempt EXCEPT ![h] = [pc |-> "handshake", child |-> c]]
               /\ UNCHANGED <<call, startPromise>>
    /\ UNCHANGED <<initialized, excused, hostKey, localKey, dreamVars, stopVars, events>>

HandshakeAnswered(h) ==
    /\ attempt[h].pc = "handshake" /\ attempt[h].child = proc /\ child[proc] = "up"
    /\ initialized' = TRUE
    /\ Settled(h, TRUE)
    /\ UNCHANGED <<child, childKey, proc, excused, keyVars, dreamVars, stopVars, events>>

(* No answer in time: the start fails, and the bridge keeps its child.     *)
HandshakeTimesOut(h) ==
    /\ attempt[h].pc = "handshake"
    /\ IF attempt[h].child = proc
       THEN events < MaxEvents /\ events' = events + 1
       ELSE UNCHANGED events
    /\ Settled(h, FALSE)
    /\ UNCHANGED <<child, childKey, proc, initialized, excused, keyVars, dreamVars, stopVars>>

(* A child goes, told to or not.  The handler rejects what is in flight    *)
(* and clears the bridge, whose child this need not be; a close that       *)
(* awaited the exit is over.                                               *)
ChildExits(c) ==
    /\ Alive(c)
    /\ child[c] = "up" => events < MaxEvents
    /\ events' = IF child[c] = "up" THEN events + 1 ELSE events
    /\ child' = [child EXCEPT ![c] = "gone"]
    /\ RejectAllPending({h \in Calls : call[h].pc = "closing" /\ call[h].old = c})
    /\ proc' = 0 /\ initialized' = FALSE
    /\ stopping' = IF stopping = c THEN 0 ELSE stopping
    /\ Excused("start beside close", CloseUnderWay /\ \E d \in Children \ {c} : Alive(d))
    /\ UNCHANGED <<childKey, keyVars, dreamVars, stopped, idle>>

(* Mutant: close waits for the exit of its child, however long.            *)
CloseWaits(h) == FALSE /\ UNCHANGED vars

(* The child does not end in three seconds: it is killed, and the close is *)
(* over before it has gone.                                                *)
CloseTimesOut(h) ==
    /\ call[h].pc = "closing" /\ Alive(call[h].old)
    /\ RejectAllPending({h})
    /\ Excused("start beside close", TRUE)
    /\ UNCHANGED <<child, childKey, proc, initialized, keyVars, dreamVars, stopVars, events>>

StopTimesOut ==
    /\ stopping # 0
    /\ RejectAllPending({})
    /\ stopping' = 0
    /\ UNCHANGED <<child, childKey, proc, initialized, excused, keyVars, dreamVars,
                   stopped, idle, events>>

-----------------------------------------------------------------------------
(* Mutant: each call arms a timer.                                         *)
ArmOneMore(h) ==
    /\ call[h].pc = "status"
    /\ call' = [call EXCEPT ![h].pc = "ready"]
    /\ dreamTimer' = TRUE /\ timers' = timers + 1
    /\ Excused("armed during a run", dreams > 0)
    /\ UNCHANGED <<bridgeVars, keyVars, dreams, stopVars, events>>

(* The last part of ensureRuntimeStarted: the Dream State timer is armed   *)
(* if the variable names none.                                             *)
ArmDreamTimer(h) ==
    /\ call[h].pc = "status"
    /\ call' = [call EXCEPT ![h].pc = "ready"]
    /\ IF dreamTimer THEN UNCHANGED <<dreamTimer, timers, excused>>
       ELSE /\ dreamTimer' = TRUE /\ timers' = timers + 1
            /\ Excused("armed during a run", dreams > 0)
    /\ UNCHANGED <<bridgeVars, keyVars, dreams, stopVars, events>>

(* What awaited the runtime goes on with it.  A hook that ends a turn arms *)
(* the timer for a quiet user.                                             *)
Return(h) ==
    /\ call[h].pc = "ready"
    /\ call' = [call EXCEPT ![h] = Idle]
    /\ idle' \in {idle, TRUE}
    /\ UNCHANGED <<bridgeVars, keyVars, dreamVars, stopping, stopped, events, excused>>

(* A timer fires, and clears the variable, whichever timer that names.     *)
DreamTimerFires ==
    /\ timers > 0 /\ timers + dreams < MaxTimers
    /\ events < MaxEvents /\ events' = events + 1
    /\ timers' = timers - 1 /\ dreamTimer' = FALSE /\ dreams' = dreams + 1
    /\ UNCHANGED <<call, bridgeVars, keyVars, stopVars, excused>>

(* The run is over, or has failed, and arms the next timer.                *)
DreamEnds ==
    /\ dreams > 0
    /\ dreams' = dreams - 1 /\ timers' = timers + 1 /\ dreamTimer' = TRUE
    /\ UNCHANGED <<call, bridgeVars, keyVars, stopVars, events, excused>>

(* The service stops: what it knows of the host and of a start under way   *)
(* is forgotten, the timers cleared and the child told to end.             *)
Stop ==
    /\ ~stopped /\ events < MaxEvents
    /\ events' = events + 1
    /\ stopped' = TRUE /\ stopping' = IF proc # 0 /\ Alive(proc) THEN proc ELSE 0
    /\ startPromise' = Nobody
    /\ idle' = FALSE /\ dreamTimer' = FALSE /\ timers' = IF dreamTimer THEN timers - 1 ELSE timers
    /\ TellToEnd
    /\ Excused("start beside close", StartUnderWay)
    /\ UNCHANGED <<call, attempt, childKey, keyVars, dreams>>

-----------------------------------------------------------------------------
StartStep(h) == Spawn(h) \/ HandshakeAnswered(h) \/ HandshakeTimesOut(h)
Advance(h) == AfterPing(h) \/ CloseTimesOut(h) \/ ArmDreamTimer(h) \/ Return(h)

Next ==
    \/ HostChangesKey \/ RefreshOutside
    \/ \E h \in Calls : EnsureRuntimeStarted(h) \/ Advance(h) \/ StartStep(h)
    \/ \E c \in Children : ChildExits(c)
    \/ StopTimesOut \/ DreamTimerFires \/ DreamEnds \/ Stop

(* The steps of a call follow from timers and answered requests; a start   *)
(* is answered or times out.  Nothing is said of when a child exits.       *)
Fairness == \A h \in Calls : WF_vars(Advance(h)) /\ WF_vars(StartStep(h))

Spec == Init /\ [][Next]_vars /\ Fairness

-----------------------------------------------------------------------------
TypeOK ==
    /\ call \in [Calls -> [pc : {"off", "pinged", "closing", "waiting", "status", "ready"},
                           changed : BOOLEAN, running : BOOLEAN, on : Calls \cup {Nobody},
                           old : 0..MaxChildren]]
    /\ attempt \in [Calls -> [pc : {"none", "token", "handshake"}, child : 0..MaxChildren]]
    /\ startPromise \in Calls \cup {Nobody}
    /\ child \in [Children -> {"none", "up", "told", "gone"}]
    /\ childKey \in [Children -> 0..MaxKeys]
    /\ proc \in 0..MaxChildren /\ initialized \in BOOLEAN
    /\ {hostKey, localKey, addedKey} \subseteq 0..MaxKeys
    /\ dreamTimer \in BOOLEAN /\ {timers, dreams} \subseteq 0..MaxTimers
    /\ stopping \in 0..MaxChildren /\ {stopped, idle} \subseteq BOOLEAN /\ events \in 0..MaxEvents
    /\ excused \subseteq {"start beside close", "refreshed outside", "logged out",
                          "changed during start", "armed during a run"}

(* Until a start has overlapped a close, a child that runs and was not     *)
(* told to end is the one the bridge talks to, so it is closed with the    *)
(* service (start and close of the bridge).  Beside a close the exit of    *)
(* the old child makes the bridge forget the new one.                      *)
NoChildIsLost ==
    \/ "start beside close" \in excused
    \/ \A c \in Children : child[c] = "up" => c = proc

(* A running bridge that no caller is about to restart has a child with    *)
(* the credentials of the configuration (ensureRuntimeStarted).  Four      *)
(* things are excused, for good: a change taken over during a handshake,   *)
(* one that a hook or the timer for a quiet user took over by itself, a    *)
(* logout, whose old credential stays in the bridge, and a start that      *)
(* overlaps a close.                                                       *)
RunsWithCurrentKey ==
    \/ excused \cap {"changed during start", "refreshed outside", "logged out",
                     "start beside close"} # {}
    \/ ~isRunning \/ childKey[proc] = localKey
    \/ \E h \in Calls : call[h].pc = "pinged" /\ call[h].changed

(* One Dream State timer or run at a time (scheduleDreamState), unless a   *)
(* call came while a run was awaited and armed a second one.               *)
OneDreamAtATime == "armed during a run" \in excused \/ timers + dreams <= 1

(* A call of ensureRuntimeStarted ends, whatever children and other calls  *)
(* do: nobody waits for a start or a close that will not be over.          *)
EveryCallEnds == \A h \in Calls : call[h].pc # "off" ~> call[h].pc = "off"

(* Until a start has overlapped a close there is one child that was not    *)
(* told to end, and until a call has come during a Dream State run there   *)
(* is one timer or run of it.                                              *)
NothingRunsTwice == NoChildIsLost /\ OneDreamAtATime
=============================================================================
