-------------------------- MODULE OpenClawSession --------------------------
(***************************************************************************)
(* The hooks of the OpenClaw plugin and the working memory they share.     *)
(*                                                                         *)
(* One Node process holds one hook state: the current session, a message   *)
(* counter and an idle timer.  Four activities change it and await remote  *)
(* calls in between: the hook before a prompt, the hook after the agent's  *)
(* answer, the flush before the host compacts its context, and the idle    *)
(* timer.  The last three consolidate: they summarise the session's        *)
(* messages into the graph, clear them and open a new session.  One action *)
(* runs from one await to the next.                                        *)
(*                                                                         *)
(* The backend (working memory, graph, summariser) is external: a call     *)
(* answers ("ok"), fails without effect ("error"), or takes effect after   *)
(* its caller has stopped waiting ("late").                                *)
(***************************************************************************)
EXTENDS Naturals, FiniteSets

CONSTANTS
    Users,         \* the senders
    Owner,         \* config.userId
    MaxMessages,   \* bound: messages of users and agent
    MaxSessions,   \* bound: sessions of one user in a day
    Threshold,     \* config.consolidationThreshold
    ReadLimit,     \* messages that one chatGet of the consolidation returns
    MaxFailures,   \* bound: remote calls that fail
    FollowExcused  \* bound: whether a behaviour is followed past its first excuse

(* What a run may give the constants; the module of the run assumes it.    *)
SessionAssumption ==
    /\ Owner \in Users
    /\ {MaxMessages, MaxSessions, Threshold, ReadLimit} \subseteq Nat \ {0}
    /\ MaxFailures \in Nat /\ FollowExcused \in BOOLEAN

VARIABLES
    wired,       \* "events": the host's lifecycle events; "gateway": its hook methods
    hasTool,     \* whether the backend offers its own consolidation
    session,     \* hookState.sessionId, a user and a number (0 before the first)
    count,       \* hookState.messageCount
    heard,       \* whether hookState.lastUserMessage is set
    seq,         \* sequenceCounters of session.ts
    idleTimer,   \* whether the idle consolidation timer is armed
    task,        \* the four activities
    asked,       \* senders whose prompt has had no answer
    sent,        \* number of messages so far
    buffer,      \* working memory: messages of each session
    summarised,  \* messages that some summary in the graph holds
    failures,    \* remote calls that failed
    taken,       \* ghost: messages that working memory has taken
    excuses      \* ghost: what has happened that may lose messages

sessionVars == <<session, count, heard, seq, idleTimer>>
backendVars == <<buffer, summarised, taken>>
wiring == <<wired, hasTool>>
vars == <<wired, hasTool, session, count, heard, seq, idleTimer, task, asked,
          sent, buffer, summarised, taken, failures, excuses>>

Tasks == {"prompt", "end", "flush", "idle"}
Messages == 1..MaxMessages
Sessions == Users \X (1..MaxSessions)
NoSession == <<Owner, 0>>
Consolidating == {"call", "read", "store", "clear", "renew"}
NoTask == [pc |-> "off", user |-> Owner, in |-> NoSession, message |-> 0, read |-> {}]

Busy(t) == task[t].pc # "off"
Outcomes == {"ok"} \cup (IF failures < MaxFailures THEN {"late", "error"} ELSE {})
Counted(outcome) == failures' = failures + (IF outcome = "ok" THEN 0 ELSE 1)

(* Whether the activity t and some other one ran together, one of them     *)
(* consolidating.                                                          *)
Beside(t, pc) ==
    \E u \in Tasks \ {t} :
        Busy(u) /\ (pc \in Consolidating \/ task[u].pc \in Consolidating)

(* An activity goes on, perhaps with an excuse for what it may lose.       *)
StepExcused(t, record, excuse) ==
    /\ excuses = {} \/ FollowExcused
    /\ task' = [task EXCEPT ![t] = record]
    /\ excuses' = excuses \cup excuse
                    \cup (IF Beside(t, record.pc) THEN {"overlap"} ELSE {})
Step(t, record) == StepExcused(t, record, {})
Leave(t) == Step(t, NoTask)

-----------------------------------------------------------------------------
(* Session ids.  generateSessionId repeats the last number of a user and   *)
(* day unless a new session is asked for.                                  *)

LatestSession(u) == <<u, IF seq[u] = 0 THEN 1 ELSE seq[u]>>
NewSession(u) == <<u, seq[u] + 1>>
Opened(s) == seq' = [seq EXCEPT ![s[1]] = s[2]]

(* What becomes the session when u speaks: a hook method that names        *)
(* another sender than the configured one forgets the current session.     *)
ScopedSession(u) ==
    IF (wired = "gateway" /\ u # Owner) \/ session = NoSession
    THEN LatestSession(u) ELSE session

-----------------------------------------------------------------------------
Init ==
    /\ wired \in {"events", "gateway"}
    /\ hasTool \in BOOLEAN
    /\ session = NoSession /\ count = 0 /\ heard = FALSE
    /\ seq = [u \in Users |-> 0]
    /\ idleTimer = FALSE
    /\ task = [t \in Tasks |-> NoTask]
    /\ asked = {} /\ sent = 0
    /\ buffer = [s \in Sessions |-> {}]
    /\ summarised = {}
    /\ taken = {} /\ failures = 0 /\ excuses = {}

(* A prompt: the lifecycle event comes without a sender and cancels the    *)
(* idle timer at once; the hook method leaves the timer.                   *)
BeforePrompt(u) ==
    /\ ~Busy("prompt") /\ sent + Cardinality(asked) + 2 <= MaxMessages
    /\ wired = "events" => u = Owner
    /\ idleTimer' = (idleTimer /\ wired = "gateway")
    /\ sent' = sent + 1
    /\ asked' = asked \cup {u}
    /\ Step("prompt", [NoTask EXCEPT !.pc = "entering", !.user = u, !.message = sent + 1])
    /\ UNCHANGED <<wiring, session, count, heard, seq, backendVars, failures>>

(* The runtime is up: the session is found or opened, the turn is counted  *)
(* and its message is on the way to working memory (recordUserTurn after a *)
(* prefetched recall, autoRecall otherwise: both do this).                 *)
RecordUserTurn ==
    /\ task["prompt"].pc = "entering"
    /\ LET s == ScopedSession(task["prompt"].user)
       IN /\ session' = s /\ Opened(s)
          /\ Step("prompt", [task["prompt"] EXCEPT !.pc = "adding", !.in = s])
    /\ heard' = TRUE
    /\ count' = count + 1
    /\ UNCHANGED <<wiring, idleTimer, asked, sent, backendVars, failures>>

(* The agent has answered somebody, whose prompt hook had returned.        *)
AgentEnd(u) ==
    /\ ~Busy("end") /\ u \in asked
    /\ task["prompt"].pc = "entering" => task["prompt"].user # u
    /\ asked' = asked \ {u}
    /\ sent' = sent + 1
    /\ Step("end", [NoTask EXCEPT !.pc = "entering", !.user = u, !.message = sent + 1])
    /\ UNCHANGED <<wiring, sessionVars, backendVars, failures>>

(* autoCapture: the answer goes to the session that is current now.  A     *)
(* turn without text, or before any prompt was recorded, is not captured.  *)
AutoCapture ==
    /\ task["end"].pc = "entering"
    /\ \/ /\ session # NoSession /\ heard
          /\ count' = count + 1
          /\ Step("end", [task["end"] EXCEPT !.pc = "adding", !.in = session])
       \/ /\ count' = count
          /\ Step("end", [task["end"] EXCEPT !.pc = "arming"])
    /\ UNCHANGED <<wiring, session, heard, seq, idleTimer, asked, sent,
                   backendVars, failures>>

(* chat_add reaches working memory, or not.  An error ends the hook: the   *)
(* answer's hook then arms no timer.                                       *)
ChatAdd(t) ==
    /\ task[t].pc = "adding"
    /\ \E outcome \in Outcomes :
        /\ Counted(outcome)
        /\ buffer' = IF outcome = "error" THEN buffer
                     ELSE [buffer EXCEPT ![task[t].in] = @ \cup {task[t].message}]
        /\ taken' = IF outcome = "error" THEN taken ELSE taken \cup {task[t].message}
        /\ IF t = "end" /\ outcome = "ok"
           THEN Step(t, [task[t] EXCEPT !.pc = "captured"]) ELSE Leave(t)
    /\ UNCHANGED <<wiring, sessionVars, asked, sent, summarised>>

-----------------------------------------------------------------------------
(* Consolidation, the same for the three activities that call it.          *)

Finished(t) == IF t = "end" THEN "arming" ELSE "off"
GiveUp(t) == Step(t, [NoTask EXCEPT !.pc = Finished(t)])

(* The session is remembered before the first await.                       *)
Consolidate(t) ==
    IF session = NoSession THEN GiveUp(t)
    ELSE Step(t, [NoTask EXCEPT !.pc = IF hasTool THEN "call" ELSE "read", !.in = session])

(* Twenty messages since the last consolidation start one.                 *)
AfterCapture ==
    /\ task["end"].pc = "captured"
    /\ IF count >= Threshold THEN Consolidate("end") ELSE GiveUp("end")
    /\ UNCHANGED <<wiring, sessionVars, asked, sent, backendVars, failures>>

(* The backend's own consolidation: it reads, summarises and clears, and   *)
(* refuses a session without messages.  An error that names the tool, as   *)
(* each error of the tool does, is taken for a backend without it.         *)
BackendConsolidates(t) ==
    /\ task[t].pc = "call"
    /\ LET held == buffer[task[t].in]
       IN \E outcome \in Outcomes :
            /\ Counted(outcome)
            /\ IF outcome = "error" \/ held = {}
               THEN UNCHANGED <<buffer, summarised>>
               ELSE /\ summarised' = summarised \cup held
                    /\ buffer' = [buffer EXCEPT ![task[t].in] = {}]
            /\ IF outcome = "ok" /\ held # {}
               THEN Step(t, [task[t] EXCEPT !.pc = "renew"])
               ELSE \/ GiveUp(t)
                    \/ outcome = "error" /\ Step(t, [task[t] EXCEPT !.pc = "read"])
    /\ UNCHANGED <<wiring, sessionVars, asked, sent, taken>>

(* Without it: read the messages, *)
ReadMessages(t) ==
    /\ task[t].pc = "read"
    /\ \E outcome \in Outcomes \ {"late"} :
        /\ Counted(outcome)
        /\ IF outcome = "error" \/ buffer[task[t].in] = {}
           THEN GiveUp(t)
           ELSE \E read \in SUBSET buffer[task[t].in] :
                    /\ \/ read = buffer[task[t].in] /\ Cardinality(read) <= ReadLimit
                       \/ Cardinality(read) = ReadLimit
                    /\ StepExcused(t, [task[t] EXCEPT !.pc = "store", !.read = read],
                           IF read = buffer[task[t].in] THEN {} ELSE {"short read"})
    /\ UNCHANGED <<wiring, sessionVars, asked, sent, backendVars>>

(* Mutant: a failed store does not stop the consolidation.                 *)
StoreSummaryRegardless(t) ==
    /\ task[t].pc = "store"
    /\ \E outcome \in Outcomes :
        /\ Counted(outcome)
        /\ summarised' = summarised \cup (IF outcome = "error" THEN {} ELSE task[t].read)
        /\ Step(t, [task[t] EXCEPT !.pc = "clear"])
    /\ UNCHANGED <<wiring, sessionVars, asked, sent, buffer, taken>>

(* store their summary, *)
StoreSummary(t) ==
    /\ task[t].pc = "store"
    /\ \E outcome \in Outcomes :
        /\ Counted(outcome)
        /\ summarised' = summarised \cup (IF outcome = "error" THEN {} ELSE task[t].read)
        /\ IF outcome = "ok" THEN Step(t, [task[t] EXCEPT !.pc = "clear"]) ELSE GiveUp(t)
    /\ UNCHANGED <<wiring, sessionVars, asked, sent, buffer, taken>>

(* clear the session, whatever it holds by now. *)
ClearMessages(t) ==
    /\ task[t].pc = "clear"
    /\ \E outcome \in Outcomes :
        /\ Counted(outcome)
        /\ buffer' = IF outcome = "error" THEN buffer
                     ELSE [buffer EXCEPT ![task[t].in] = {}]
        /\ IF outcome = "ok" THEN Step(t, [task[t] EXCEPT !.pc = "renew"]) ELSE GiveUp(t)
    /\ UNCHANGED <<wiring, sessionVars, asked, sent, summarised, taken>>

(* A new session of the configured user replaces the current one, which    *)
(* need not be the one that was consolidated.                              *)
RenewSession(t) ==
    /\ task[t].pc = "renew" /\ seq[Owner] < MaxSessions
    /\ session' = NewSession(Owner) /\ Opened(session')
    /\ count' = 0
    /\ StepExcused(t, [NoTask EXCEPT !.pc = Finished(t)],
           IF task[t].in[1] = Owner THEN {} ELSE {"another sender"})
    /\ UNCHANGED <<wiring, heard, idleTimer, asked, sent, backendVars, failures>>

-----------------------------------------------------------------------------
(* Mutant: the hook ends without arming the timer.                         *)
ArmNoTimer ==
    /\ task["end"].pc = "arming"
    /\ Leave("end")
    /\ UNCHANGED <<wiring, sessionVars, asked, sent, backendVars, failures>>

(* The last part of the lifecycle event after an answer.  The hook method  *)
(* has no such part.                                                       *)
ArmIdleTimer ==
    /\ task["end"].pc = "arming"
    /\ idleTimer' = (idleTimer \/ (wired = "events" /\ count > 0))
    /\ Leave("end")
    /\ UNCHANGED <<wiring, session, count, heard, seq, asked, sent, backendVars,
                   failures>>

IdleTimerFires ==
    /\ idleTimer /\ ~Busy("idle")
    /\ idleTimer' = FALSE
    /\ IF count = 0 THEN UNCHANGED <<task, excuses>> ELSE Consolidate("idle")
    /\ UNCHANGED <<wiring, session, count, heard, seq, asked, sent, backendVars,
                   failures>>

BeforeCompaction ==
    /\ wired = "events" /\ ~Busy("flush") /\ count > 0
    /\ idleTimer' = FALSE
    /\ Step("flush", [NoTask EXCEPT !.pc = "entering"])
    /\ UNCHANGED <<wiring, session, count, heard, seq, asked, sent, backendVars,
                   failures>>

(* The runtime is up, and nothing was counted since, or a consolidation.   *)
FlushSession ==
    /\ task["flush"].pc = "entering"
    /\ IF count = 0 THEN Leave("flush") ELSE Consolidate("flush")
    /\ UNCHANGED <<wiring, sessionVars, asked, sent, backendVars, failures>>

(* The memory_consolidate tool, or the command of the same name in a       *)
(* process of its own: that one knows of no session but the first.         *)
(* Neither renews the session of the hooks.                                *)
ConsolidateByHand(s) ==
    /\ excuses = {} \/ FollowExcused
    /\ hasTool /\ s[2] > 0 /\ buffer[s] # {}
    /\ summarised' = summarised \cup buffer[s]
    /\ buffer' = [buffer EXCEPT ![s] = {}]
    /\ UNCHANGED <<wiring, sessionVars, task, asked, sent, taken, failures, excuses>>

(* The gateway dies and starts again: session ids are counted from one.    *)
Restart ==
    /\ excuses = {} \/ FollowExcused
    /\ failures < MaxFailures /\ session # NoSession
    /\ failures' = failures + 1
    /\ session' = NoSession /\ count' = 0 /\ heard' = FALSE /\ idleTimer' = FALSE
    /\ seq' = [u \in Users |-> 0]
    /\ task' = [t \in Tasks |-> NoTask]
    /\ asked' = {}
    /\ excuses' = excuses \cup (IF \E u \in Users : seq[u] > 1 THEN {"restart"} ELSE {})
    /\ UNCHANGED <<wiring, sent, backendVars>>

(* The child process cannot be started: the hook logs it and ends.         *)
RuntimeFails(t) ==
    /\ task[t].pc = "entering" /\ failures < MaxFailures
    /\ failures' = failures + 1
    /\ Leave(t)
    /\ UNCHANGED <<wiring, sessionVars, asked, sent, backendVars>>

Advance(t) ==
    ChatAdd(t) \/ BackendConsolidates(t) \/ ReadMessages(t) \/ StoreSummary(t)
        \/ ClearMessages(t) \/ RenewSession(t)

(* What the process does by itself once a hook has been called.            *)
Progress ==
    \/ RecordUserTurn \/ AutoCapture \/ AfterCapture \/ ArmIdleTimer
    \/ FlushSession \/ IdleTimerFires
    \/ \E t \in Tasks : Advance(t)

Next ==
    \/ \E u \in Users : BeforePrompt(u) \/ AgentEnd(u)
    \/ BeforeCompaction
    \/ \E s \in {session, <<Owner, 1>>} : ConsolidateByHand(s)
    \/ Restart
    \/ \E t \in Tasks : RuntimeFails(t)
    \/ Progress

(* The host answers every prompt; awaited calls return (a timeout of the   *)
(* bridge bounds each of them) and timers fire.                            *)
Fairness ==
    /\ WF_vars(RecordUserTurn) /\ WF_vars(AutoCapture) /\ WF_vars(AfterCapture)
    /\ WF_vars(ArmIdleTimer) /\ WF_vars(FlushSession) /\ WF_vars(IdleTimerFires)
    /\ \A t \in Tasks : WF_vars(Advance(t))
    /\ \A u \in Users : WF_vars(AgentEnd(u))

Spec == Init /\ [][Next]_vars /\ Fairness

-----------------------------------------------------------------------------
TypeOK ==
    /\ wired \in {"events", "gateway"} /\ hasTool \in BOOLEAN
    /\ session \in Sessions \cup {NoSession}
    /\ count \in 0..MaxMessages /\ heard \in BOOLEAN /\ idleTimer \in BOOLEAN
    /\ seq \in [Users -> 0..MaxSessions]
    /\ asked \subseteq Users /\ sent \in 0..MaxMessages
    /\ buffer \in [Sessions -> SUBSET Messages]
    /\ summarised \subseteq Messages
    /\ failures \in 0..MaxFailures
    /\ taken \subseteq Messages /\ excuses \subseteq {"overlap", "short read", "another sender", "restart"}
    /\ task \in [Tasks -> [pc : {"off", "entering", "adding", "captured", "arming"} \cup Consolidating,
                           user : Users, in : Sessions \cup {NoSession},
                           message : 0..MaxMessages, read : SUBSET Messages]]

Reachable(m) == \E u \in Users : m \in buffer[LatestSession(u)]
Kept(m) == m \in summarised \/ Reachable(m)

(* A message that working memory took is in the graph, or in a session     *)
(* some later turn or flush will find again, unless a hook ran beside a    *)
(* consolidation, a session outgrew one read of it, a session of another   *)
(* sender was consolidated, which renews the configured user's, or the     *)
(* gateway restarted past the first session of the day: failed and late    *)
(* calls alone lose nothing (consolidateSession of hooks.ts).              *)
KeptUnlessExcused == excuses # {} \/ \A m \in taken : Kept(m)

(* When the user goes quiet, what was said reaches the graph (idle timer   *)
(* of index.ts), unless hooks overlapped or a call failed on the way.      *)
FlushedWhenQuiet ==
    \/ <>(excuses # {} \/ failures > 0)
    \/ wired = "gateway"
    \/ <>[](taken \subseteq summarised)
=============================================================================
