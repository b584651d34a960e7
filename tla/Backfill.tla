------------------------------ MODULE Backfill ------------------------------
(***************************************************************************)
(* History backfill: past sessions are inventoried, distilled by the       *)
(* agent into captures, and replayed into the graph                        *)
(* (claude/scripts/backfill_inventory.py, backfill/ingest_runner.py, with  *)
(* identical copies in the Codex plugin; codex/scripts/backfill_codex.py). *)
(*                                                                         *)
(* Everything is remembered in one staging file, which every command reads *)
(* whole and writes whole.  The inventory commands are short: one step     *)
(* each.  The ingest runner keeps the file it read at its start in memory  *)
(* and writes it after every call of the server; it can be stopped between *)
(* any two of these.                                                       *)
(*                                                                         *)
(* Sessions are numbered in the order they ended; they are continuations   *)
(* of one piece of work.  A capture is known by its content.               *)
(***************************************************************************)
EXTENDS Integers, FiniteSets

CONSTANTS
    Sessions,    \* 1..n
    Typed,       \* what can be distilled besides the digest
    Digest,      \* the summary of a session, its first capture
    Secret,      \* captures with the shape of a credential in them
    Scopes,      \* what the Codex adapter was asked to look at
    NoScope,
    MaxStages,   \* bound: how often the agent stages captures
    MaxStops     \* bound: how often a run of the runner ends early

Captures == Typed \cup {Digest}

(* What a run may give the constants; the module of the run assumes it.    *)
BackfillBounds ==
    /\ IsFiniteSet(Sessions) /\ Sessions = 1..Cardinality(Sessions)
    /\ Digest \notin Typed /\ Secret \subseteq Captures
    /\ MaxStages \in Nat /\ MaxStops \in Nat /\ NoScope \notin Scopes

VARIABLES
    codex,       \* is the inventory driven by the Codex adapter
    batch,       \* does reflect take a whole session (batch_capable); bound: as codex
    found,       \* sessions whose transcript is on disk
    file,        \* staging.json
    scope,       \* its "codex_scope"
    asked,       \* the scope whose manifest is written and not yet named
    run,         \* the ingest runner
    rows,        \* the server: revisions made of each capture
    keys,        \* the server: idempotency keys and what they stand for
    triples,     \* the server: how often a session was decomposed
    latest,      \* the server: the session stacked last, 0 before the first
    origin,      \* history: the scope each session was found under
    late,        \* history: was something staged during a run or after an upload
    regrown,     \* history: did a session grow while a replay of it was open
    stages, stops

server == <<rows, keys, triples, latest>>
ghosts == <<origin, late, regrown>>
vars == <<codex, batch, found, file, scope, asked, run, server, ghosts, stages, stops>>

Statuses == {"absent", "inventoried", "skipped", "extracted", "ingested"}
Marks == {"absent", "pending", "stored", "screened"}
Staging == [status : [Sessions -> Statuses], mark : [Sessions -> [Captures -> Marks]],
            triples : [Sessions -> BOOLEAN], decomposed : [Sessions -> BOOLEAN]]
Row == Sessions \X Captures

TypeOK ==
    /\ codex \in BOOLEAN /\ batch \in BOOLEAN
    /\ found \subseteq Sessions
    /\ file \in Staging /\ run.mem \in Staging
    /\ scope \in Scopes \cup {NoScope} /\ asked \in Scopes \cup {NoScope}
    /\ run.pc \in {"off", "next", "screen", "send", "mark", "finish", "save"}
    /\ run.todo \subseteq Sessions /\ run.s \in Sessions \cup {0}
    /\ run.sent \subseteq Captures /\ run.got \subseteq run.sent
    /\ rows \in [Row -> 0..1 + MaxStops]
    /\ \A k \in keys : k[1] \in Sessions /\ k[2] \subseteq Captures /\ k[3] \in k[2]
    /\ triples \in [Sessions -> 0..1 + MaxStops]
    /\ latest \in Sessions \cup {0}
    /\ origin \in [Sessions -> Scopes \cup {NoScope}]
    /\ late \in BOOLEAN /\ regrown \in BOOLEAN
    /\ stages \in 0..MaxStages /\ stops \in 0..MaxStops

Empty == [status |-> [s \in Sessions |-> "absent"],
          mark |-> [s \in Sessions |-> [c \in Captures |-> "absent"]],
          triples |-> [s \in Sessions |-> FALSE],
          decomposed |-> [s \in Sessions |-> FALSE]]
Off == [pc |-> "off", mem |-> Empty, todo |-> {}, s |-> 0, sent |-> {}, got |-> {}]

Init ==
    /\ codex \in BOOLEAN /\ batch = codex
    /\ found = {} /\ file = Empty /\ scope = NoScope /\ asked = NoScope /\ run = Off
    /\ rows = [r \in Row |-> 0] /\ keys = {} /\ triples = [s \in Sessions |-> 0]
    /\ latest = 0
    /\ origin = [s \in Sessions |-> NoScope] /\ late = FALSE /\ regrown = FALSE
    /\ stages = 0 /\ stops = 0

Youngest(S) == CHOOSE s \in S : \A t \in S : t <= s
Oldest(S) == CHOOSE s \in S : \A t \in S : s <= t
Known(s) == file.status[s] # "absent"
Staged(f, s) == {c \in Captures : f.mark[s][c] # "absent"}
Pending(f, s) == {c \in Captures : f.mark[s][c] = "pending"}
Stored(f, s) == {c \in Captures : f.mark[s][c] = "stored"}

----------------------------------------------------------------------------
(* The sessions of the past.                                               *)

(* Work goes on in a new session.                                          *)
Appear ==
    /\ \E s \in Sessions : /\ s \notin found /\ \A t \in Sessions \ found : s <= t
                           /\ found' = found \cup {s}
    /\ UNCHANGED <<codex, batch, file, scope, asked, run, server, ghosts, stages, stops>>

(* cmd_manifest: new sessions join the file.  Of sessions that begin with  *)
(* the same prompt in the same place the latest is mined; what is in the   *)
(* file already keeps its state.                                           *)
Merged == [s \in Sessions |->
    IF s \notin found \/ Known(s) THEN file.status[s]
    ELSE IF s = Youngest(found) THEN "inventoried" ELSE "skipped"]

AddSessions(sc) ==
    /\ asked = NoScope
    /\ found # {}
    /\ file' = [file EXCEPT !.status = Merged]
    /\ origin' = [s \in Sessions |->
                   IF codex /\ s \in found /\ ~Known(s) THEN sc ELSE origin[s]]
    /\ asked' = IF codex THEN sc ELSE NoScope
    /\ UNCHANGED <<codex, batch, found, scope, run, server, late, regrown, stages, stops>>

(* The Codex adapter refuses a file with sessions of another scope.        *)
Manifest ==
    \E sc \in Scopes :
        /\ codex => (\A s \in Sessions : ~Known(s)) \/ scope = sc
        /\ AddSessions(sc)

(* ... and writes the scope in a second pass over the file.                *)
NameScope ==
    /\ asked # NoScope
    /\ scope' = asked
    /\ asked' = NoScope
    /\ UNCHANGED <<codex, batch, found, file, run, server, ghosts, stages, stops>>

ManifestDies ==
    /\ asked # NoScope /\ stops < MaxStops
    /\ asked' = NoScope
    /\ stops' = stops + 1
    /\ UNCHANGED <<codex, batch, found, file, scope, run, server, ghosts, stages>>

(* cmd_packetize: a transcript that can no longer be read is skipped.      *)
PacketFails(s) ==
    /\ file.status[s] = "inventoried"
    /\ file' = [file EXCEPT !.status[s] = "skipped"]
    /\ UNCHANGED <<codex, batch, found, scope, asked, run, server, ghosts, stages, stops>>

(* cmd_stage --skip                                                        *)
Skip(s) ==
    /\ file.status[s] \in {"inventoried", "extracted"}
    /\ file' = [file EXCEPT !.status[s] = "skipped"]
    /\ UNCHANGED <<codex, batch, found, scope, asked, run, server, ghosts, stages, stops>>

(* cmd_stage: the digest and typed captures; of a session that has some    *)
(* already only what is new is added, and never another digest.  A digest  *)
(* alone comes without triples.                                            *)
Open(s) == s \in run.todo \/ \E c \in Pending(file, s) : rows[<<s, c>>] > 0
Stage(s, typed) ==
    LET new == IF Staged(file, s) = {} THEN typed \cup {Digest}
               ELSE typed \ Staged(file, s)
    IN  /\ Known(s) /\ stages < MaxStages
        /\ stages' = stages + 1
        /\ file' = [file EXCEPT
               !.mark[s] = [c \in Captures |-> IF c \in new THEN "pending" ELSE @[c]],
               !.triples[s] = @ \/ typed # {},
               !.status[s] = IF new # {} THEN "extracted" ELSE @]
        /\ late' = (late \/ latest # 0 \/ run.pc # "off")
        /\ regrown' = (regrown \/ Open(s))
        /\ UNCHANGED <<codex, batch, found, scope, asked, run, server, origin, stops>>

Inventory ==
    \/ Appear \/ Manifest \/ NameScope \/ ManifestDies
    \/ \E s \in Sessions : PacketFails(s) \/ Skip(s)
    \/ \E s \in Sessions, typed \in SUBSET Typed : Stage(s, typed)

----------------------------------------------------------------------------
(* The ingest runner.                                                      *)

RunnerKeeps == UNCHANGED <<codex, batch, found, scope, asked, origin, late, regrown,
                           stages>>

(* main: pending_sessions                                                  *)
Start ==
    LET todo == {s \in Sessions : file.status[s] = "extracted" /\ Staged(file, s) # {}}
    IN  /\ run.pc = "off" /\ todo # {}
        /\ run' = [Off EXCEPT !.pc = "next", !.mem = file, !.todo = todo]
        /\ UNCHANGED <<file, server, stops>> /\ RunnerKeeps

NextSession ==
    /\ run.pc = "next"
    /\ run' = IF run.todo = {} THEN Off
              ELSE [run EXCEPT !.pc = "screen", !.s = Youngest(run.todo)]
    /\ UNCHANGED <<file, server, stops>> /\ RunnerKeeps

(* screen_capture: a capture with a credential in it is marked, and saved. *)
Screen ==
    LET s == run.s
        bad == Pending(run.mem, s) \cap Secret
        mem == [run.mem EXCEPT !.mark[s] =
                    [c \in Captures |-> IF c \in bad THEN "screened" ELSE @[c]]]
    IN  /\ run.pc = "screen"
        /\ file' = IF bad = {} THEN file ELSE mem
        /\ run' = [run EXCEPT !.mem = mem,
                       !.pc = IF Pending(mem, s) = {} THEN "finish" ELSE "send"]
        /\ UNCHANGED <<server, stops>> /\ RunnerKeeps

(* What one call of reflect carries, and the key the server files it under.*)
Call(sent) ==
    IF batch THEN sent = Pending(run.mem, run.s)
    ELSE \E c \in Pending(run.mem, run.s) : sent = {c}
(* mutant: each call has a prefix of its own                               *)
ReplayedNever(sent) == {}

Replayed(sent) == {c \in sent : batch /\ <<run.s, sent, c>> \in keys}

(* The server (external): rows it has under their key are not made again;  *)
(* of the others any may fail.                                             *)
Send(sent, made) ==
    /\ run.pc = "send" /\ Call(sent)
    /\ made \subseteq sent \ Replayed(sent)
    /\ rows' = [r \in Row |-> rows[r] + (IF r[1] = run.s /\ r[2] \in made THEN 1 ELSE 0)]
    /\ keys' = keys \cup {<<run.s, sent, c>> : c \in IF batch THEN made ELSE {}}
    /\ latest' = IF made = {} THEN latest ELSE run.s
    /\ run' = [run EXCEPT !.pc = "mark", !.sent = sent, !.got = made \cup Replayed(sent)]
    /\ UNCHANGED <<file, triples, stops>> /\ RunnerKeeps

(* mutant: a row counts as stored because it was sent                      *)
MarkedAsSent == [run.mem EXCEPT !.mark[run.s] =
                    [c \in Captures |-> IF c \in run.sent THEN "stored" ELSE @[c]]]

(* The answer is marked and saved.  A row that failed ends the run: the    *)
(* sessions that ended before this one wait for it.                        *)
Marked == [run.mem EXCEPT !.mark[run.s] =
              [c \in Captures |-> IF c \in run.got THEN "stored" ELSE @[c]]]

MarkAll ==
    /\ run.pc = "mark" /\ run.got = run.sent
    /\ file' = Marked
    /\ run' = [run EXCEPT !.mem = Marked, !.sent = {}, !.got = {},
                   !.pc = IF Pending(Marked, run.s) = {} THEN "finish" ELSE "send"]
    /\ UNCHANGED <<server, stops>> /\ RunnerKeeps

MarkSome ==
    /\ run.pc = "mark" /\ run.got # run.sent
    /\ stops < MaxStops /\ stops' = stops + 1
    /\ file' = IF batch THEN Marked ELSE file
    /\ run' = Off
    /\ UNCHANGED server /\ RunnerKeeps

(* The triples hang on the first capture that was stored; whether they     *)
(* were taken, in whole or in part, only the log says.                     *)
Decompose ==
    LET s == run.s
        due == run.mem.triples[s] /\ Stored(run.mem, s) # {} /\ ~run.mem.decomposed[s]
    IN  /\ run.pc = "finish"
        /\ triples' = IF due THEN [triples EXCEPT ![s] = @ + 1] ELSE triples
        /\ run' = [run EXCEPT !.mem.decomposed[s] = @ \/ due, !.pc = "save"]
        /\ UNCHANGED <<file, rows, keys, latest, stops>> /\ RunnerKeeps

(* The session is done, and saved with its mark for the triples.           *)
Save ==
    LET mem == [run.mem EXCEPT !.status[run.s] = "ingested"]
    IN  /\ run.pc = "save"
        /\ file' = mem
        /\ run' = [run EXCEPT !.mem = mem, !.todo = @ \ {run.s}, !.s = 0, !.pc = "next"]
        /\ UNCHANGED <<server, stops>> /\ RunnerKeeps

(* The run ends early: killed, offline, or an answer that cannot be used.  *)
Stop ==
    /\ run.pc # "off" /\ stops < MaxStops
    /\ stops' = stops + 1
    /\ run' = Off
    /\ UNCHANGED <<file, server>> /\ RunnerKeeps

Runner ==
    \/ Start \/ NextSession \/ Screen \/ MarkAll \/ MarkSome \/ Decompose \/ Save \/ Stop
    \/ \E sent \in SUBSET Captures : \E made \in SUBSET sent : Send(sent, made)

Next == Inventory \/ Runner

Spec == Init /\ [][Next]_vars

----------------------------------------------------------------------------
(* Properties                                                              *)

(* "batched retries replay committed rows as server-side no-ops via the    *)
(* idempotency prefix": a capture is stored once however often the runner  *)
(* is stopped, unless a session grew between the start of its replay and   *)
(* the mark of its rows; without the prefix, once more for each stop.  Its *)
(* triples likewise.                                                       *)
StoredOnce ==
    /\ \A r \in Row : rows[r] <= IF batch /\ ~regrown THEN 1 ELSE 1 + stops
    /\ \A s \in Sessions : triples[s] <= 1 + stops

(* "Replaying newest to oldest makes the earliest mention the last stacked *)
(* revision" (docs/BACKFILL_DESIGN.md): over any number of runs, the last  *)
(* revision is of the oldest session stored, unless captures were staged   *)
(* during a run or after the first upload.                                 *)
OldestOnTop ==
    LET stored == {s \in Sessions : \E c \in Captures : rows[<<s, c>>] > 0}
    IN  ~late /\ stored # {} => latest = Oldest(stored)

(* What the file says was done was done, in whatever order captures, stops *)
(* and overlapping commands came: a mark stands for a stored revision, no  *)
(* capture with a credential was sent, and an ingested session has nothing *)
(* left to send.                                                           *)
MarksAreTrue ==
    \A s \in Sessions :
        /\ \A c \in Stored(file, s) : rows[<<s, c>>] > 0
        /\ \A c \in Secret : rows[<<s, c>>] = 0
        /\ file.status[s] = "ingested" => Pending(file, s) = {}

(* The sessions of a Codex staging file were found under one scope.        *)
OneScope ==
    codex => Cardinality({origin[s] : s \in {t \in Sessions : Known(t)}}) <= 1

(* The staging file and the server agree, over all runs of the runner: on  *)
(* what is stored, how often, in which order, and for which scope.         *)
LedgerIsTrue == StoredOnce /\ MarksAreTrue /\ OldestOnTop /\ OneScope
=============================================================================
