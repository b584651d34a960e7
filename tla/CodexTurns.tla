----------------------------- MODULE CodexTurns -----------------------------
(***************************************************************************)
(* The lifecycle of the turns of one Codex thread, as dispatch() in        *)
(* codex/scripts/codex_lifecycle.py keeps it in a file: which turn had its *)
(* reflect, which was asked for one when it stopped, how many turns were   *)
(* completed, and when the session was last consolidated.                  *)
(*                                                                         *)
(* dispatch() holds a lock of the thread for the whole of an event, so an  *)
(* event is a step.  Between the host and it lie two pipes, a lock that is *)
(* waited for only so long, and a process that may be killed: an event can *)
(* be lost before its state is saved, and a reply after it.                *)
(***************************************************************************)
EXTENDS Integers, FiniteSets

CONSTANTS
    Every,          \* 20: turns between two consolidations
    Keep,           \* 40: turns and aliases that the file keeps
    MaxIds,         \* bound: turn ids that the host gives out
    MaxLost         \* bound: events and replies that are lost

(* What a run may give the constants; the module of the run assumes it.    *)
LifecycleAssumption ==
    {Every, Keep, MaxIds} \subseteq Nat \ {0} /\ MaxLost \in Nat

VARIABLES
    file,           \* the file: count, watermark, turns, aliases, continuation
    id,             \* the turn that the host is in, 0 before the first
    user,           \* the user's turn that it continues, itself if none
    hostAt,         \* idle, running, blocked
    active,         \* stop_hook_active
    lost,           \* number of lost events and replies
    kindOf,         \* ghost: what the user's turns asked for
    blocks,         \* ghost: how often the end of each turn was refused
    ended           \* ghost: the turns of the user that came to their end

vars == <<file, id, user, hostAt, active, lost, kindOf, blocks, ended>>

Ids == 1..MaxIds
Kinds == {"plain", "no_write", "private"}
NewTurn(kind) == [kind |-> kind, reflect |-> FALSE, consolidate |-> FALSE,
                  retries |-> 0, asked |-> FALSE, counted |-> FALSE]
Untold == [i \in {} |-> 0]

-----------------------------------------------------------------------------
Init ==
    /\ file = [count |-> 0, watermark |-> 0, turns |-> Untold, aliases |-> Untold,
               target |-> 0]
    /\ id = 0 /\ user = 0 /\ hostAt = "idle" /\ active = FALSE /\ lost = 0
    /\ kindOf = [i \in Ids |-> "none"] /\ blocks = [i \in Ids |-> 0] /\ ended = {}

(* The newest entries of a table of the file.                              *)
Newest(table) ==
    [i \in {j \in DOMAIN table : Cardinality({k \in DOMAIN table : k > j}) < Keep}
        |-> table[i]]

With(table, i, entry) ==
    [j \in DOMAIN table \cup {i} |-> IF j = i THEN entry ELSE table[j]]

(* The turn that an event is about: the one its id stands for, unless it   *)
(* is unknown or private.                                                  *)
Original(i) == IF i \in DOMAIN file.aliases THEN file.aliases[i] ELSE i
Known(i) == Original(i) \in DOMAIN file.turns /\ file.turns[Original(i)].kind # "private"

(* UserPromptSubmit of a prompt of the user.  Recall comes before the      *)
(* save and leaves no trace but its receipt.                               *)
Prompted(i, kind) ==
    IF i \in DOMAIN file.turns \cup DOMAIN file.aliases THEN file
    ELSE [file EXCEPT !.turns = Newest(With(@, i, NewTurn(kind))), !.aliases = Newest(@)]

(* Mutant: the continuation is a turn of its own.                          *)
ContinuedAlone(i) ==
    [file EXCEPT !.target = 0, !.turns = Newest(With(@, i, NewTurn("plain")))]

(* UserPromptSubmit of the prompt that the last refusal asked for.         *)
Continued(i) ==
    [file EXCEPT !.target = 0,
        !.aliases = IF file.target \in DOMAIN file.turns /\ i # file.target
                    THEN With(@, i, file.target) ELSE @]

(* PostToolUse: _reflect_ok() or _consolidate_ok() has seen a receipt.     *)
Received(i, what) ==
    IF ~Known(i) THEN file
    ELSE IF what = "reflect" THEN [file EXCEPT !.turns[Original(i)].reflect = TRUE]
    ELSE [file EXCEPT !.turns[Original(i)].consolidate = TRUE]

Counted(f, o) ==
    IF f.turns[o].counted THEN f
    ELSE [f EXCEPT !.turns[o].counted = TRUE, !.count = @ + 1]

(* Stop: what becomes of the file, and whether the end is refused.         *)
Stopped(i) ==
    LET o == Original(i)
        turn == file.turns[o]
        counted == Counted(file, o)
        due == counted.count - counted.watermark >= Every
    IN  IF ~Known(i) THEN [file |-> file, refused |-> FALSE]
        ELSE IF turn.kind = "no_write" THEN [file |-> counted, refused |-> FALSE]
        ELSE IF ~turn.reflect /\ turn.retries = 0 /\ ~active
        THEN [file |-> [file EXCEPT !.turns[o].retries = 1, !.target = o],
              refused |-> TRUE]
        ELSE IF due /\ turn.consolidate
        THEN [file |-> [counted EXCEPT !.watermark = counted.count], refused |-> FALSE]
        ELSE IF due /\ ~turn.asked /\ ~active
        THEN [file |-> [counted EXCEPT !.turns[o].asked = TRUE, !.target = o],
              refused |-> TRUE]
        ELSE [file |-> counted, refused |-> FALSE]

-----------------------------------------------------------------------------
Lose == lost < MaxLost /\ lost' = lost + 1

(* An event with an effect on the file, or lost on its way.                *)
Event(effect) ==
    \/ file' = effect /\ UNCHANGED lost
    \/ UNCHANGED file /\ Lose

(* The user's next turn, after the end of the last one or instead of it.   *)
UserPrompt(kind) ==
    /\ hostAt \in {"idle", "blocked"} /\ id < MaxIds
    /\ id' = id + 1 /\ user' = id' /\ hostAt' = "running" /\ active' = FALSE
    /\ kindOf' = [kindOf EXCEPT ![id'] = kind]
    /\ Event(Prompted(id', kind))
    /\ UNCHANGED <<blocks, ended>>

(* The host goes on with a refused turn: under the same id ...             *)
GoOn ==
    /\ hostAt = "blocked" /\ hostAt' = "running" /\ active' = TRUE
    /\ UNCHANGED <<file, id, user, lost, kindOf, blocks, ended>>

(* ... or as a turn of its own, with the reason as its prompt.             *)
GoOnAnew ==
    /\ hostAt = "blocked" /\ id < MaxIds
    /\ id' = id + 1 /\ hostAt' = "running" /\ active' \in BOOLEAN
    /\ Event(Continued(id'))
    /\ UNCHANGED <<user, kindOf, blocks, ended>>

Receipt(what) ==
    /\ hostAt = "running" /\ Event(Received(id, what))
    /\ UNCHANGED <<id, user, hostAt, active, kindOf, blocks, ended>>

(* The turn stops, and is refused or ends; or the event or its reply is    *)
(* lost and it ends all the same.  The host may report the same end twice. *)
Stop ==
    /\ hostAt = "running" \/ (hostAt = "idle" /\ id # 0)
    /\ LET verdict == Stopped(id)
       IN  \/ /\ file' = verdict.file
              /\ hostAt' = IF verdict.refused THEN "blocked" ELSE "idle"
              /\ blocks' = [blocks EXCEPT ![user] = IF verdict.refused THEN @ + 1 ELSE @]
              /\ ended' = IF verdict.refused THEN ended ELSE ended \cup {user}
              /\ UNCHANGED lost
           \/ /\ file' \in {file, verdict.file} /\ hostAt' = "idle" /\ Lose
              /\ UNCHANGED <<blocks, ended>>
    /\ UNCHANGED <<id, user, active, kindOf>>

Next ==
    \/ \E kind \in Kinds : UserPrompt(kind)
    \/ GoOn \/ GoOnAnew
    \/ \E what \in {"reflect", "consolidate"} : Receipt(what)
    \/ Stop

Spec == Init /\ [][Next]_vars

-----------------------------------------------------------------------------
(* The file, the host's turn and the ghosts have their types.              *)
TypeOK ==
    /\ file.count \in 0..MaxIds /\ file.watermark \in 0..file.count
    /\ DOMAIN file.turns \subseteq Ids /\ Cardinality(DOMAIN file.turns) <= Keep
    /\ DOMAIN file.aliases \subseteq Ids /\ file.target \in 0..MaxIds
    /\ id \in 0..MaxIds /\ user \in 0..id /\ hostAt \in {"idle", "running", "blocked"}
    /\ active \in BOOLEAN /\ lost \in 0..MaxLost
    /\ kindOf \in [Ids -> Kinds \cup {"none"}] /\ blocks \in [Ids -> 0..MaxIds]
    /\ ended \subseteq Ids

(* The end of a turn is refused at most twice, once for its reflect and    *)
(* once for the consolidation, and never when the user wanted no write,    *)
(* under however many ids the host goes on with it and whatever is lost.   *)
NagsAreBounded ==
    \A u \in Ids : blocks[u] <= IF kindOf[u] = "plain" THEN 2 ELSE 0

(* As long as nothing was lost, every turn of the user that has ended is   *)
(* counted once, private ones aside: a continuation is no turn of its own, *)
(* and an end reported twice counts once.  Beyond those, only a turn whose *)
(* end was refused and that the user then left may be in the count.        *)
CountIsExact ==
    lost = 0 =>
        LET public == {u \in ended : kindOf[u] # "private"}
            left == {u \in Ids \ ended : blocks[u] > 0}
        IN  file.count - Cardinality(public) \in 0..Cardinality(left)

(* The file follows the turns of the user: it counts and nags as often as  *)
(* it should.                                                              *)
TurnsAreCounted == NagsAreBounded /\ CountIsExact
=============================================================================
