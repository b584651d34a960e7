---------------------------- MODULE CodexBridge -----------------------------
(***************************************************************************)
(* How a call of a tool keeps the identity of its Codex thread on its way  *)
(* to the memory server, and how its answer becomes a receipt of the turn. *)
(*                                                                         *)
(* One server serves every thread of Codex.  run_kumiho_mcp.mjs starts it  *)
(* and stands between the two: thread_id_bridge.mjs cuts what Codex writes *)
(* into lines and moves the thread id of a request's metadata into a       *)
(* private argument.  codex_thread_context.py takes the argument out again *)
(* and binds it, while the handler runs, to a variable of the context.     *)
(* Handlers overlap: in threads, which are used again, and as coroutines.  *)
(* The answer comes back as an event of a hook, which                      *)
(* lifecycle_event_filter.mjs reduces and codex_lifecycle.py judges.       *)
(*                                                                         *)
(* The server's backend is external: which of the captures it stores, and  *)
(* under which session: the one an argument names, or the host's.  Batches *)
(* of messages, which the protocol no longer has, are left out.            *)
(***************************************************************************)
EXTENDS Integers, Sequences, FiniteSets

CONSTANTS
    Threads, NoThread,
    Bad,            \* a value of the metadata that is no thread id
    Historical,     \* a session that a caller names itself
    Tasks,          \* the threads and tasks that run handlers
    MaxLines,       \* bound: lines that Codex writes
    MaxCaptures     \* bound: captures of a reflect

(* What a run may give the constants; the module of the run assumes it.    *)
BridgeAssumption ==
    /\ MaxLines \in Nat /\ MaxCaptures \in Nat
    /\ {NoThread, Bad, Historical} \cap Threads = {} /\ Historical # NoThread

VARIABLES
    child,          \* the server: none, running, exited
    ambient,        \* the session id in the server's environment
    asked,          \* the messages that Codex has written, a line each
    wire,           \* the pieces of lines that the bridge has not read
    closed,         \* Codex has closed its end
    pending,        \* the pieces that the bridge has read of the next line
    inbox,          \* the messages that the server has not taken
    task,           \* what each task runs
    context,        \* _thread_id in the context of each task
    answers,        \* ghost: what the calls were answered
    receipts        \* ghost: calls whose answers were taken as a receipt

bridgeVars == <<child, ambient, asked, wire, closed, pending, inbox, task, context,
                answers, receipts>>

Idle == [at |-> "idle", n |-> 0, before |-> NoThread]
Forms == {"session", "plain", "hook", "noise"}
Messages ==
    [form : Forms, by : Threads, meta : Seq(Threads \cup {Bad}),
     carrier : Threads \cup {NoThread}, given : {NoThread, Historical}, of : 0..MaxLines]

Message(form, by) ==
    [form |-> form, by |-> by, meta |-> <<>>, carrier |-> NoThread, given |-> NoThread,
     of |-> 0]

Init ==
    /\ child = "none" /\ ambient = NoThread
    /\ asked = <<>> /\ wire = <<>> /\ closed = FALSE /\ pending = <<>> /\ inbox = <<>>
    /\ task = [t \in Tasks |-> Idle] /\ context = [t \in Tasks |-> NoThread]
    /\ answers = [n \in {} |-> 0] /\ receipts = {}

-----------------------------------------------------------------------------
(* The launcher.                                                           *)

(* The candidates in their order, and the first that its probe accepts.    *)
Candidates == <<"managed", "override", "path">>
FindPython(usable) ==
    {i \in DOMAIN Candidates : Candidates[i] \in usable
        /\ \A j \in DOMAIN Candidates : Candidates[j] \in usable => i <= j}

(* mcpEnvironment: an id that another host left behind is not passed on.   *)
SessionEnv(threadId, sessionId, inherited) ==
    IF threadId # NoThread THEN threadId ELSE sessionId

Start(usable, threadId, sessionId, inherited) ==
    /\ child = "none"
    /\ child' = IF FindPython(usable) = {} THEN "exited" ELSE "running"
    /\ ambient' = SessionEnv(threadId, sessionId, inherited)
    /\ UNCHANGED <<asked, wire, closed, pending, inbox, task, context, answers, receipts>>

(* The server ends, by itself or by a signal the launcher forwards to it;  *)
(* the launcher unpipes and ends as it did.                                *)
ChildExits ==
    /\ child = "running" /\ child' = "exited"
    /\ wire' = <<>> /\ pending' = <<>> /\ inbox' = <<>>
    /\ task' = [t \in Tasks |-> Idle] /\ context' = [t \in Tasks |-> NoThread]
    /\ UNCHANGED <<ambient, asked, closed, answers, receipts>>

-----------------------------------------------------------------------------
(* Codex writes a line, or the part of one it gets to before it ends.      *)
Pieces(n) == <<<<n, "text">>, <<n, "newline">>>>
Ask(message) ==
    /\ child = "running" /\ ~closed /\ Len(asked) < MaxLines
    /\ asked' = Append(asked, message)
    /\ \E k \in 1..2 : wire' = wire \o SubSeq(Pieces(Len(asked')), 1, k)
                       /\ closed' = (k < 2)
    /\ UNCHANGED <<child, ambient, pending, inbox, task, context, answers, receipts>>

(* A request of a tool that works on a session.  Its metadata may be       *)
(* missing or spelled with other ids before the thread's; its arguments    *)
(* may hold a carrier nobody vouches for, or name a session.               *)
AskTool(by) ==
    \E meta \in {<<>>, <<Bad, by>>}, carrier \in {NoThread} \cup (Threads \ {by}),
       given \in {NoThread, Historical} :
        Ask([Message("session", by) EXCEPT !.meta = meta, !.carrier = carrier,
                                           !.given = given])
AskOther(by) ==
    \/ \E carrier \in Threads : Ask([Message("plain", by) EXCEPT !.carrier = carrier])
    \/ Ask(Message("noise", by))

(* PostToolUse: the hook of the thread shows the answer of its call.       *)
AskHook(n) ==
    /\ \A m \in DOMAIN asked : asked[m].of # n
    /\ Ask([Message("hook", asked[n].by) EXCEPT !.of = n])

-----------------------------------------------------------------------------
(* The bridge.                                                             *)

(* threadIdFromMeta: the first of the spellings that holds a thread id.    *)
ThreadIdFromMeta(meta) ==
    LET proper == SelectSeq(meta, LAMBDA v : v \in Threads)
    IN  IF proper = <<>> THEN NoThread ELSE proper[1]

(* mutant: the carrier goes only where a thread id takes its place         *)
BridgedIfKnown(message) ==
    LET threadId == ThreadIdFromMeta(message.meta)
    IN  IF message.form = "session" /\ threadId # NoThread
        THEN [message EXCEPT !.carrier = threadId] ELSE message

(* bridgeOneMessage                                                        *)
Bridged(message) ==
    IF message.form = "noise" THEN message
    ELSE [message EXCEPT !.carrier =
              IF message.form = "session" THEN ThreadIdFromMeta(message.meta)
              ELSE NoThread]

(* _transform: a chunk ends anywhere; every line that it completes is      *)
(* passed on, and what follows the last newline waits.                     *)
Read(k) ==
    /\ child = "running" /\ k \in 1..Len(wire)
    /\ LET buffer == pending \o SubSeq(wire, 1, k)
           ends == {i \in DOMAIN buffer : buffer[i][2] = "newline"}
       IN  \E line \in [1..Cardinality(ends) -> ends], last \in ends \cup {0} :
              /\ \A i, j \in DOMAIN line : i < j => line[i] < line[j]
              /\ \A i \in ends : i <= last
              /\ inbox' = inbox \o [i \in DOMAIN line |->
                    LET n == buffer[line[i]][1]
                    IN  [n |-> n, message |-> Bridged(asked[n])]]
              /\ pending' = SubSeq(buffer, last + 1, Len(buffer))
    /\ wire' = SubSeq(wire, k + 1, Len(wire))
    /\ UNCHANGED <<child, ambient, asked, closed, task, context, answers, receipts>>

(* _flush: a last line without its newline is a line all the same; if it   *)
(* is the half of a message, the server is left to refuse it.              *)
Flush ==
    /\ child = "running" /\ closed /\ wire = <<>> /\ pending # <<>>
    /\ LET n == pending[1][1]
       IN  \E message \in {Bridged(asked[n]), Message("noise", asked[n].by)} :
               inbox' = Append(inbox, [n |-> n, message |-> message])
    /\ pending' = <<>>
    /\ UNCHANGED <<child, ambient, asked, wire, closed, task, context, answers, receipts>>

-----------------------------------------------------------------------------
(* The server.                                                             *)
Take == child = "running" /\ inbox # <<>> /\ inbox' = Tail(inbox)

(* A message that is no call, or a call of a tool that knows no thread.    *)
Skip ==
    /\ Take /\ Head(inbox).message.form \in {"noise", "plain"}
    /\ UNCHANGED <<child, ambient, asked, wire, closed, pending, task, context, answers,
                   receipts>>

(* wrapped(): the carrier leaves the arguments and is bound while the      *)
(* handler runs.  A coroutine only begins when it is awaited, after the    *)
(* binding was undone: it binds again for itself.                          *)
Bound(t, carrier) == IF carrier # NoThread THEN carrier ELSE context[t]

Call(t, async) ==
    /\ Take /\ Head(inbox).message.form = "session" /\ task[t].at = "idle"
    /\ LET taken == Head(inbox)
       IN  /\ task' = [task EXCEPT ![t] =
                  [at |-> IF async THEN "made" ELSE "in", n |-> taken.n,
                   before |-> IF async THEN taken.message.carrier ELSE context[t]]]
           /\ context' = IF async THEN context
                         ELSE [context EXCEPT ![t] = Bound(t, taken.message.carrier)]
    /\ UNCHANGED <<child, ambient, asked, wire, closed, pending, answers, receipts>>

(* await_with_context()                                                    *)
Await(t) ==
    /\ child = "running" /\ task[t].at = "made"
    /\ context' = [context EXCEPT ![t] = Bound(t, task[t].before)]
    /\ task' = [task EXCEPT ![t] = [at |-> "in", n |-> @.n, before |-> context[t]]]
    /\ UNCHANGED <<child, ambient, asked, wire, closed, pending, inbox, answers, receipts>>

(* What the handler answers: host_session_for_call, recall_scope_for_call, *)
(* and the source of the session as mark_source() corrects it.             *)
Answer(t, result) ==
    LET given == asked[task[t].n].given
        own == Bridged(asked[task[t].n]).carrier
        host == IF context[t] # NoThread THEN context[t] ELSE ambient
    IN  [session |-> IF given # NoThread THEN given ELSE host,
         source |-> IF given # NoThread THEN "argument"
                    ELSE IF own # NoThread THEN "codex-thread-meta" ELSE "host-env",
         scope |-> context[t], result |-> result]

(* What became of the captures of a call: how many it sent, and how many   *)
(* the backend has stored, the others being queued or refused; or an error.*)
Failure == [sent |-> 0, stored |-> 0, error |-> TRUE]
Results ==
    {r \in [sent : 0..MaxCaptures, stored : 0..MaxCaptures, error : {FALSE}] :
        r.stored <= r.sent} \cup {Failure}

Finish(t) ==
    /\ child = "running" /\ task[t].at = "in"
    /\ \E result \in Results :
          answers' = [n \in DOMAIN answers \cup {task[t].n} |->
                         IF n = task[t].n THEN Answer(t, result) ELSE answers[n]]
    /\ context' = [context EXCEPT ![t] = task[t].before]
    /\ task' = [task EXCEPT ![t] = Idle]
    /\ UNCHANGED <<child, ambient, asked, wire, closed, pending, inbox, receipts>>

-----------------------------------------------------------------------------
(* The receipt.                                                            *)

(* _session_matches; the generations of a session count as the session.    *)
SessionMatches(answer, session) ==
    answer.session = session /\ answer.source = "codex-thread-meta"

(* mutant: the answer need not be of the session of the turn               *)
AnyStored(message, answer) ==
    /\ ~answer.result.error /\ message.given = NoThread
    /\ answer.result.stored = answer.result.sent

(* parseToolResult, then _reflect_ok: no error, as many durable captures   *)
(* as were sent, and no session that the call named itself.                *)
ReflectOk(message, answer) ==
    /\ ~answer.result.error /\ message.given = NoThread
    /\ answer.result.stored = answer.result.sent
    /\ SessionMatches(answer, message.by)

Hook ==
    /\ Take /\ Head(inbox).message.form = "hook"
    /\ LET n == Head(inbox).message.of
       IN  receipts' = IF ReflectOk(asked[n], answers[n]) THEN receipts \cup {n}
                       ELSE receipts
    /\ UNCHANGED <<child, ambient, asked, wire, closed, pending, task, context, answers>>

Next ==
    \/ \E usable \in SUBSET {"managed", "override", "path"},
          threadId, sessionId, inherited \in Threads \cup {NoThread} :
          Start(usable, threadId, sessionId, inherited)
    \/ ChildExits
    \/ \E by \in Threads : AskTool(by) \/ AskOther(by)
    \/ \E n \in DOMAIN answers : AskHook(n)
    \/ \E k \in 1..(2 * MaxLines) : Read(k)
    \/ Flush \/ Skip \/ Hook
    \/ \E t \in Tasks : (\E async \in BOOLEAN : Call(t, async)) \/ Await(t) \/ Finish(t)

Spec == Init /\ [][Next]_bridgeVars

-----------------------------------------------------------------------------
TypeOK ==
    /\ child \in {"none", "running", "exited"} /\ ambient \in Threads \cup {NoThread}
    /\ asked \in Seq(Messages) /\ Len(asked) <= MaxLines /\ closed \in BOOLEAN
    /\ {wire, pending} \subseteq Seq((1..MaxLines) \X {"text", "newline"})
    /\ Len(pending) <= 1
    /\ inbox \in Seq([n : 1..MaxLines, message : Messages])
    /\ \A t \in Tasks : task[t].at \in {"idle", "made", "in"} /\ task[t].n \in 0..MaxLines
    /\ context \in [Tasks -> Threads \cup {NoThread}]
    /\ DOMAIN answers \subseteq DOMAIN asked /\ receipts \subseteq DOMAIN answers

(* Every call works on the session of the thread that its own metadata     *)
(* names, or on the one the caller names; without metadata on the session  *)
(* of the server's environment, never on that of a call that overlaps it,  *)
(* of one that ran in its task before, or of a carrier a caller made up.   *)
CallsKeepTheirThread ==
    /\ \A n \in DOMAIN answers :
          LET own == ThreadIdFromMeta(asked[n].meta)
              host == IF own # NoThread THEN own ELSE ambient
          IN  /\ answers[n].scope = own
              /\ answers[n].session = IF asked[n].given # NoThread THEN asked[n].given
                                      ELSE host
    /\ \A t \in Tasks : task[t].at = "idle" => context[t] = NoThread

(* A turn has its receipt only when its own call stored every capture, in  *)
(* the session of its thread.                                              *)
ReceiptsAreOwn ==
    \A n \in receipts :
        /\ answers[n].session = asked[n].by
        /\ ~answers[n].result.error /\ answers[n].result.stored = answers[n].result.sent

(* Messages reach the server in the order they were written, none twice.   *)
LinesKeepTheirOrder ==
    \A i, j \in DOMAIN inbox : i < j => inbox[i].n < inbox[j].n

(* The identity of a call is its own, from the request to the receipt.     *)
CallsAreOwn == CallsKeepTheirThread /\ ReceiptsAreOwn /\ LinesKeepTheirOrder
=============================================================================
