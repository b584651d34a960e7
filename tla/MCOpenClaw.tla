----------------------------- MODULE MCOpenClaw -----------------------------
(***************************************************************************)
(* The two halves of the OpenClaw plugin in one run: a behaviour follows   *)
(* either the hooks or the runtime, and the other half rests in one of its *)
(* initial states.  They share no variable: a hook only waits for the      *)
(* runtime, which OpenClawSession has as its "entering" steps.             *)
(***************************************************************************)
EXTENDS Naturals, FiniteSets

CONSTANTS Users, Owner, MaxMessages, MaxSessions, Threshold, ReadLimit,
          MaxFailures, FollowExcused,
          Calls, Nobody, MaxChildren, MaxKeys, MaxTimers, MaxEvents

VARIABLES
    live,
    wired, hasTool, session, count, heard, seq, idleTimer, task, asked, sent,
    buffer, summarised, taken, failures, excuses,
    call, attempt, startPromise, child, childKey, proc, initialized, hostKey,
    localKey, addedKey, dreamTimer, timers, dreams, stopping, stopped, idle,
    events, excused

S == INSTANCE OpenClawSession
R == INSTANCE OpenClawRuntime

ASSUME OpenClawAssumption == S!SessionAssumption /\ R!RuntimeAssumption

hookVars == <<wired, hasTool, session, count, heard, seq, idleTimer, task, asked,
              sent, buffer, summarised, taken, failures, excuses>>
runtimeVars == <<call, attempt, startPromise, child, childKey, proc, initialized,
                 hostKey, localKey, addedKey, dreamTimer, timers, dreams, stopping,
                 stopped, idle, events, excused>>
allVars == <<live, hookVars, runtimeVars>>

Init ==
    /\ S!Init /\ R!Init
    /\ \/ live = "hooks" /\ hostKey = 1
       \/ live = "runtime" /\ wired = "events" /\ hasTool

SessionStep(step) == live = "hooks" /\ step /\ UNCHANGED <<live, runtimeVars>>
RuntimeStep(step) == live = "runtime" /\ step /\ UNCHANGED <<live, hookVars>>

Next ==
    \/ \E u \in Users : SessionStep(S!BeforePrompt(u)) \/ SessionStep(S!AgentEnd(u))
    \/ SessionStep(S!BeforeCompaction)
    \/ \E s \in {session, <<Owner, 1>>} : SessionStep(S!ConsolidateByHand(s))
    \/ SessionStep(S!Restart)
    \/ \E t \in S!Tasks : SessionStep(S!RuntimeFails(t))
    \/ SessionStep(S!Progress)
    \/ RuntimeStep(R!Next)

(* The half that rests has nothing enabled that fairness would ask for.    *)
Spec == Init /\ [][Next]_allVars /\ S!Fairness /\ R!Fairness

(* Every variable of the two modules has its type.                         *)
TypesOK == S!TypeOK /\ R!TypeOK

(* What working memory has taken is not lost (S!KeptUnlessExcused).        *)
KeptUnlessExcused == S!KeptUnlessExcused

(* The child runs with the credentials of the configuration, unless they   *)
(* changed during a handshake, were refreshed outside ensureRuntimeStarted *)
(* or logged out, or a start overlapped a close (R!RunsWithCurrentKey).    *)
RunsWithCurrentKey == R!RunsWithCurrentKey

(* Until a start has overlapped a close a child that was not told to end   *)
(* is the one the bridge talks to; until a call has come during a Dream    *)
(* State run there is one timer or run at a time (R!NothingRunsTwice).     *)
NothingRunsTwice == R!NothingRunsTwice

(* When the user goes quiet, what was said reaches the graph, and a call of*)
(* ensureRuntimeStarted ends.                                              *)
NobodyWaits == S!FlushedWhenQuiet /\ R!EveryCallEnds
=============================================================================
