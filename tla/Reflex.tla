------------------------------- MODULE Reflex -------------------------------
(***************************************************************************)
(* The memory reflex of one Claude session (claude/scripts).  A hook       *)
(* prints what the last prefetch recalled (memory-reflex.py), a hook at    *)
(* the end of a turn starts a detached worker and counts the turn          *)
(* (reflex-observe.py), and the worker fetches memories for the prompt     *)
(* that it finds (reflex_prefetch_worker.py).  They share files: turn.json *)
(* of the prompt hook, recall.json of the workers, the ledger of the       *)
(* observer, prefetch.lock.                                                *)
(*                                                                         *)
(* A prompt stands for its text; a query is the set of prompts whose text  *)
(* is in it.  Recalled texts are opaque.                                   *)
(***************************************************************************)
EXTENDS Integers, Sequences, FiniteSets

CONSTANTS
    Prompts,        \* what the user may ask
    Private,        \* those that classify() calls private
    NoWrite,        \* those that ask for no memory write
    NoPrompt,
    Fetchers,       \* prefetch workers; a slot is used again when it is free
    Texts,          \* what a recall may find
    Budget,         \* KUMIHO_REFLEX_SESSION_BUDGET_CHARS, in blocks
    Floor,          \* KUMIHO_REFLEX_FLOOR
    Cooldown,       \* _FLOOR_COOLDOWN_TURNS
    MaxTurns,       \* bound: prompts of the session
    MaxCuts         \* bound: hooks and workers that are killed

(* What a run may give the constants; the module of the run assumes it.    *)
ReflexAssumption ==
    /\ Private \subseteq Prompts /\ NoWrite \subseteq Prompts /\ NoPrompt \notin Prompts
    /\ {Budget, Floor, Cooldown, MaxTurns, MaxCuts} \subseteq Nat

VARIABLES
    insights,       \* KUMIHO_REFLEX_INSIGHTS
    host,           \* idle, printed (the hook has not saved yet), turn
    turnFile,       \* turn.json
    saving,         \* what the prompt hook is about to save
    users,          \* the last two prompts of the transcript
    echo,           \* the prompt whose credential the last answer repeats
    quietTurns,     \* the ledger: turns since the last reflect that stored
    recall,         \* recall.json
    latched,        \* the state file: engage_unsupported
    fetchLock,      \* prefetch.lock: none, fresh, stale
    tmpFile,        \* recall.json.tmp: the workers that have it open or filled
    fetcher,        \* [Fetchers -> a prefetch worker]
    turns, cuts,    \* prompts so far, kills so far
    said,           \* ghost: what was injected, in order
    sent            \* ghost: the private prompts whose text was in a query

hookVars == <<host, turnFile, saving, users, echo, quietTurns, turns, said>>
fetchVars == <<recall, latched, fetchLock, tmpFile, fetcher, sent>>
vars == <<insights, hookVars, fetchVars, cuts>>

NoTurn == [n |-> 0, private |-> FALSE, prompt |-> NoPrompt, spent |-> 0,
           insight |-> {}, block |-> {}, nudged |-> -99]
NoInsight == [for |-> NoPrompt, made |-> NoPrompt, text |-> NoPrompt]
NoRecall == [age |-> "expired", query |-> {}, block |-> NoPrompt, insight |-> NoInsight]
Asleep == [at |-> "none", prompt |-> NoPrompt, doc |-> NoRecall]

Doc == [age : {"fresh", "expired"}, query : SUBSET Prompts,
        block : Texts \cup {NoPrompt},
        insight : [for : Prompts \cup {NoPrompt}, made : Prompts \cup {NoPrompt},
                   text : Texts \cup {NoPrompt}]]

-----------------------------------------------------------------------------
Init ==
    /\ insights \in BOOLEAN
    /\ host = "idle" /\ turnFile = NoTurn /\ saving = NoTurn
    /\ users = <<NoPrompt, NoPrompt>> /\ echo = NoPrompt /\ quietTurns = 0
    /\ recall = NoRecall /\ latched = FALSE /\ fetchLock = "none" /\ tmpFile = {}
    /\ fetcher = [f \in Fetchers |-> Asleep]
    /\ turns = 0 /\ cuts = 0 /\ said = <<>> /\ sent = {}

(* matching_insight(): the packet of exactly this prompt.                  *)
Insight(p) ==
    IF insights /\ recall.insight.for = p THEN recall.insight ELSE NoInsight

Cost(kind) == CASE kind = "insight" -> 2 [] kind = "block" -> 1 [] OTHER -> 0

(* Mutant: the budget of the session is not looked at.                     *)
InjectedOverBudget(p) ==
    LET insight == Insight(p)
        told == {insight} = turnFile.insight
    IN  IF insight # NoInsight /\ ~told THEN "insight"
        ELSE IF ~(insight # NoInsight /\ told) /\ recall.age # "expired"
                /\ recall.block # NoPrompt /\ {recall.block} # turnFile.block THEN "block"
        ELSE "nothing"

(* What is injected: a new insight within the budget, or else, unless the  *)
(* insight is the one just given, a new block within the budget.           *)
Injected(p) ==
    LET fits(kind) == recall.age # "expired" /\ turnFile.spent + Cost(kind) <= Budget
        insight == Insight(p)
        told == {insight} = turnFile.insight
    IN  IF insight # NoInsight /\ ~told /\ fits("insight") THEN "insight"
        ELSE IF ~(insight # NoInsight /\ told) /\ fits("block")
                /\ recall.block # NoPrompt /\ {recall.block} # turnFile.block THEN "block"
        ELSE "nothing"

(* The reflect floor: turns have gone by, and the last nudge is long ago.  *)
Nudge(p) ==
    /\ p \notin NoWrite /\ quietTurns >= Floor
    /\ turnFile.n + 1 - turnFile.nudged >= Cooldown

Saying(p, kind) ==
    [prompt |-> p, kind |-> kind, saved |-> FALSE, at |-> turns + 1,
     made |-> IF kind = "insight" THEN Insight(p).made ELSE NoPrompt,
     text |-> CASE kind = "insight" -> Insight(p).text
                [] kind = "block" -> recall.block
                [] OTHER -> NoPrompt]

(* memory-reflex.py on UserPromptSubmit, up to its print: a private prompt *)
(* gets a note and leaves nothing but its number.                          *)
Submit(p) ==
    /\ host = "idle" /\ turns < MaxTurns
    /\ host' = "printed" /\ turns' = turns + 1 /\ users' = <<users[2], p>>
    /\ LET what == Injected(p)
           next == [turnFile EXCEPT !.n = @ + 1, !.private = p \in Private,
                                    !.prompt = IF p \in Private THEN NoPrompt ELSE p]
       IN  IF p \in Private THEN saving' = next /\ UNCHANGED said
           ELSE /\ saving' =
                     [next EXCEPT
                       !.spent = @ + Cost(what),
                       !.insight = IF what = "insight" THEN {Insight(p)} ELSE @,
                       !.block = IF what = "block" THEN {recall.block} ELSE @,
                       !.nudged = IF Nudge(p) THEN next.n ELSE @]
                /\ said' = said
                           \o (IF what = "nothing" THEN <<>> ELSE <<Saying(p, what)>>)
                           \o (IF Nudge(p) THEN <<Saying(p, "nudge")>> ELSE <<>>)
    /\ UNCHANGED <<insights, turnFile, echo, quietTurns, fetchVars, cuts>>

(* Mutant: what was injected is not in what is saved.                      *)
SaveLess ==
    /\ host = "printed" /\ host' = "turn"
    /\ turnFile' = [saving EXCEPT !.block = turnFile.block] /\ saving' = NoTurn
    /\ said' = [i \in DOMAIN said |-> [said[i] EXCEPT !.saved = @ \/ said[i].at = turns]]
    /\ UNCHANGED <<insights, users, echo, quietTurns, turns, fetchVars, cuts>>

(* ... and after it: the turn is saved, and with it what was injected.     *)
Save ==
    /\ host = "printed" /\ host' = "turn" /\ turnFile' = saving /\ saving' = NoTurn
    /\ said' = [i \in DOMAIN said |-> [said[i] EXCEPT !.saved = @ \/ said[i].at = turns]]
    /\ UNCHANGED <<insights, users, echo, quietTurns, turns, fetchVars, cuts>>

(* The host's timeout kills the hook between the two.                      *)
HookCut ==
    /\ host = "printed" /\ cuts < MaxCuts /\ host' = "turn" /\ cuts' = cuts + 1
    /\ saving' = NoTurn
    /\ UNCHANGED <<insights, turnFile, users, echo, quietTurns, turns, said,
                   fetchVars>>

(* _on_tool(): a reflect that stored its captures.                         *)
Reflects ==
    /\ host = "turn" /\ quietTurns' = 0
    /\ UNCHANGED <<insights, host, turnFile, saving, users, echo, turns, said, fetchVars,
                   cuts>>

(* The answer may repeat the credential of a prompt, or be without a text. *)
(* The worker is spawned first; then the turn is counted in the ledger, or *)
(* the hook is killed.                                                     *)
Stop ==
    /\ host = "turn" /\ host' = "idle"
    /\ \/ \E f \in Fetchers : fetcher[f].at = "none"
                              /\ fetcher' = [fetcher EXCEPT ![f].at = "born"]
       \/ (\A f \in Fetchers : fetcher[f].at # "none") /\ UNCHANGED fetcher
    /\ \/ UNCHANGED <<quietTurns, echo, cuts>>      \* the turn has no text
       \/ /\ echo' \in {NoPrompt} \cup ({users[2]} \cap Private)
          /\ \/ quietTurns' = quietTurns + 1 /\ UNCHANGED cuts
             \/ cuts < MaxCuts /\ cuts' = cuts + 1 /\ UNCHANGED quietTurns
    /\ UNCHANGED <<insights, turnFile, saving, users, turns, said, recall, latched,
                   fetchLock, tmpFile, sent>>

-----------------------------------------------------------------------------
(* A worker that ends removes the lock, whoever holds it.                  *)
Leave(f) ==
    /\ fetcher' = [fetcher EXCEPT ![f] = Asleep] /\ fetchLock' = "none"
    /\ UNCHANGED <<recall, latched, tmpFile, sent>>

(* main(): the lock is looked at, and then written.                        *)
LookAtLock(f) ==
    /\ fetcher[f].at = "born"
    /\ fetcher' = IF fetchLock = "fresh" THEN [fetcher EXCEPT ![f] = Asleep]
                  ELSE [fetcher EXCEPT ![f].at = "passed"]
    /\ UNCHANGED <<recall, latched, fetchLock, tmpFile, sent>>

WriteLock(f) ==
    /\ fetcher[f].at = "passed" /\ fetchLock' = "fresh"
    /\ fetcher' = [fetcher EXCEPT ![f].at = "locked"]
    /\ UNCHANGED <<recall, latched, tmpFile, sent>>

(* _prefetch(): without a runtime, or after a private turn, it leaves.     *)
NotReady(f) == fetcher[f].at = "locked" /\ Leave(f)

ReadTurn(f) ==
    /\ fetcher[f].at = "locked"
    /\ IF turnFile.private THEN Leave(f)
       ELSE /\ fetcher' = [fetcher EXCEPT ![f].at = "query",
                                         ![f].prompt = turnFile.prompt]
            /\ UNCHANGED <<recall, latched, fetchLock, tmpFile, sent>>

(* Mutant: the text before the prompt is not classified.                   *)
QueryOfAll(p) ==
    IF p = NoPrompt THEN {}
    ELSE IF insights THEN {p}
    ELSE {p} \cup ({users[1], echo} \ {NoPrompt})

(* _transcript_context() and _build_recall_query(): for a prompt, with the *)
(* prompt before and the answer, unless they are private; an insight is    *)
(* asked for with the prompt alone.                                        *)
Query(p) ==
    IF p = NoPrompt THEN {}
    ELSE IF insights THEN {p}
    ELSE {p} \cup ({users[1], echo} \ (Private \cup {NoPrompt}))

(* The query is sent, unless the backend is known not to have the tool...  *)
Ask(f) ==
    /\ fetcher[f].at = "query"
    /\ LET p == fetcher[f].prompt
           query == Query(p)
       IN  IF latched THEN Leave(f)
           ELSE /\ fetcher' = [fetcher EXCEPT ![f].at = "asked", ![f].doc.query = query]
                /\ sent' = sent \cup (query \cap Private)
                /\ UNCHANGED <<recall, latched, fetchLock, tmpFile>>

(* ... or the cache is less than 45 seconds old and for the same words.    *)
Debounced(f) ==
    /\ fetcher[f].at = "query" /\ recall.age = "fresh"
    /\ Query(fetcher[f].prompt) \cap recall.query # {} \/ Query(fetcher[f].prompt) = {}
    /\ Leave(f)

(* The call fails, or its answer is a duplicate: the cache is kept.        *)
AskFails(f) ==
    fetcher[f].at = "asked" /\ Leave(f)

(* The backend does not know the tool: never ask again.                    *)
AskUnsupported(f) ==
    /\ fetcher[f].at = "asked" /\ latched' = TRUE
    /\ fetcher' = [fetcher EXCEPT ![f] = Asleep] /\ fetchLock' = "none"
    /\ UNCHANGED <<recall, tmpFile, sent>>

(* Mutant: the digest is that of the turn as it is when the answer comes.  *)
RecalledForNewest(f) ==
    /\ fetcher[f].at = "asked"
    /\ LET p == fetcher[f].prompt
           packets == {NoInsight} \cup
                        IF insights /\ p # NoPrompt
                        THEN [for : {turnFile.prompt}, made : {p}, text : Texts] ELSE {}
       IN  \E block \in Texts \cup {NoPrompt}, packet \in packets :
             fetcher' = [fetcher EXCEPT
                ![f].at = "staged",
                ![f].doc = [age |-> "fresh", query |-> @.query, block |-> block,
                            insight |-> packet]]
    /\ tmpFile' = tmpFile \cup {f}
    /\ UNCHANGED <<recall, latched, fetchLock, sent>>

(* Memories come back, perhaps none, and an insight for the prompt asked.  *)
(* write_json_atomic() opens the staging file, which has one name for all  *)
(* workers: of two that have it open neither knows whose content it holds. *)
Recalled(f) ==
    /\ fetcher[f].at = "asked"
    /\ LET p == fetcher[f].prompt
           packets == {NoInsight} \cup
                        IF insights /\ p # NoPrompt
                        THEN [for : {p}, made : {p}, text : Texts] ELSE {}
       IN  \E block \in Texts \cup {NoPrompt}, packet \in packets :
             fetcher' = [fetcher EXCEPT
                ![f].at = "staged",
                ![f].doc = [age |-> "fresh", query |-> @.query, block |-> block,
                            insight |-> packet]]
    /\ tmpFile' = tmpFile \cup {f}
    /\ UNCHANGED <<recall, latched, fetchLock, sent>>

(* It is moved: with its content, the other's, or a mixture that reads as  *)
(* no cache at all; the second of two finds no file to move, and what it   *)
(* still wrote went into the file that the first one moved.                *)
Replace(f) ==
    /\ fetcher[f].at = "staged" /\ tmpFile' = {}
    /\ recall' \in IF tmpFile = {} THEN {recall, fetcher[f].doc, NoRecall}
                   ELSE {fetcher[g].doc : g \in tmpFile}
                          \cup IF tmpFile = {f} THEN {} ELSE {NoRecall}
    /\ fetcher' = [fetcher EXCEPT ![f] = Asleep] /\ fetchLock' = "none"
    /\ UNCHANGED <<latched, sent>>

(* A worker is killed: its lock stays, and grows stale.                    *)
FetcherCut(f) ==
    /\ fetcher[f].at # "none" /\ cuts < MaxCuts /\ cuts' = cuts + 1
    /\ fetcher' = [fetcher EXCEPT ![f] = Asleep] /\ tmpFile' = tmpFile \ {f}
    /\ UNCHANGED <<recall, latched, fetchLock, sent>>

(* A worker ends within LOCK_STALE_S: its call takes at most 45 seconds.   *)
LockAges ==
    /\ fetchLock = "fresh" /\ fetchLock' = "stale"
    /\ \A f \in Fetchers : fetcher[f].at \in {"none", "born"}
    /\ UNCHANGED <<recall, latched, tmpFile, fetcher, sent>>

(* The cache ages past KUMIHO_REFLEX_TTL_S.                                *)
RecallAges ==
    /\ recall.age = "fresh" /\ recall' = [recall EXCEPT !.age = "expired"]
    /\ UNCHANGED <<latched, fetchLock, tmpFile, fetcher, sent>>

FetcherStep(f) ==
    \/ LookAtLock(f) \/ WriteLock(f) \/ NotReady(f) \/ ReadTurn(f) \/ Ask(f) \/ Debounced(f)
    \/ AskFails(f) \/ AskUnsupported(f) \/ Recalled(f) \/ Replace(f)

Next ==
    \/ \E p \in Prompts : Submit(p)
    \/ Save \/ HookCut \/ Reflects \/ Stop
    \/ (\E f \in Fetchers : FetcherStep(f)) /\ UNCHANGED <<insights, hookVars, cuts>>
    \/ (\E f \in Fetchers : FetcherCut(f)) /\ UNCHANGED <<insights, hookVars>>
    \/ (LockAges \/ RecallAges) /\ UNCHANGED <<insights, hookVars, cuts>>

Spec == Init /\ [][Next]_vars

-----------------------------------------------------------------------------
(* The files, the hooks and the workers have their types.                  *)
TypeOK ==
    /\ insights \in BOOLEAN /\ host \in {"idle", "printed", "turn"}
    /\ users \in [1..2 -> Prompts \cup {NoPrompt}] /\ echo \in Private \cup {NoPrompt}
    /\ \A t \in {turnFile, saving} : t.n \in 0..MaxTurns /\ t.spent \in 0..Budget
                                   /\ t.prompt \in Prompts \cup {NoPrompt}
    /\ quietTurns \in 0..MaxTurns /\ recall \in Doc /\ latched \in BOOLEAN
    /\ fetchLock \in {"none", "fresh", "stale"} /\ tmpFile \subseteq Fetchers
    /\ \A f \in Fetchers : fetcher[f].doc \in Doc
    /\ turns \in 0..MaxTurns /\ cuts \in 0..MaxCuts /\ sent \subseteq Private

(* An insight is injected into the prompt that it was made for and into no *)
(* other, though the worker that fetched it may have started turns ago and *)
(* the prompt may be the next one or an older one asked again.             *)
InsightFitsPrompt ==
    \A i \in DOMAIN said : said[i].kind = "insight" => said[i].made = said[i].prompt

(* What the session was given of a kind, and has saved, in blocks.         *)
Given(kind) ==
    Cost(kind) * Cardinality({i \in DOMAIN said : said[i].saved /\ said[i].kind = kind})

(* Nothing is said twice: what was injected, and saved as injected, is not *)
(* injected again until something else of its kind was; nudges keep their  *)
(* distance; and what the session was given stays within its budget.       *)
(* Each of the three is about what was saved: a hook that is killed        *)
(* between its print and its save repeats itself.                          *)
SaidOnce ==
    /\ \A i, j \in DOMAIN said :
         i < j /\ said[i].kind = said[j].kind /\ said[i].saved =>
            \/ \E k \in i + 1 .. j - 1 : said[k].kind = said[i].kind
            \/ said[i].kind = "nudge" /\ said[j].at - said[i].at >= Cooldown
            \/ <<said[i].text, said[i].made>> # <<said[j].text, said[j].made>>
               /\ said[i].kind # "nudge"
    /\ turnFile.spent <= Budget /\ Given("insight") + Given("block") <= Budget

(* No private prompt is in a query or in the file of the turn, not as the  *)
(* prompt before the one that is asked for and not repeated by an answer.  *)
PrivateStaysOut ==
    sent = {} /\ turnFile.prompt \notin Private /\ saving.prompt \notin Private
=============================================================================
