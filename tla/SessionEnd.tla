----------------------------- MODULE SessionEnd -----------------------------
(***************************************************************************)
(* What happens to the transcript of a session of Claude Code when it ends *)
(* (claude/scripts/save-session-artifact.py, code-capture-hook.py and      *)
(* session_mine_worker.py): a copy of the conversation is saved, and a     *)
(* detached worker may send the whole of it to a model.                    *)
(*                                                                         *)
(* Both read the transcript that a backfill reads later, each with a       *)
(* reading of its own.  The session may be resumed, and its transcript     *)
(* continued, while a worker is at work; the workers keep apart by a file  *)
(* that is looked at, then written, and counts for nothing once it is old. *)
(***************************************************************************)
EXTENDS Transcript

CONSTANTS
    Enough,      \* 4: entries of a conversation worth saving
    MaxEnds,     \* bound: how often the session ends; each end has a worker
    NoLock

(* What a run may give the constants; the module of the run assumes it.    *)
EndBounds == Enough \in Nat /\ MaxEnds \in Nat /\ NoLock \notin Nat

VARIABLES
    open,        \* the session runs
    ends,        \* number of its ends
    artifact,    \* the positions that the saved copy shows
    saved,       \* a copy was saved
    automine,    \* KUMIHO_MEMORY_CODE_AUTOMINE as the worker hydrates it
    lock,        \* the worker that the lock file names
    old,         \* the lock file is older than LOCK_STALE_S
    miner,       \* where the worker of each end is
    seen,        \* how much of the transcript it has classified
    mined        \* how much of the transcript it has sent

endVars == <<open, ends, artifact, saved, automine, lock, old, miner, seen, mined>>
allVars == <<vars, endVars>>

Miners == 1..MaxEnds

EndStart ==
    /\ open = TRUE /\ ends = 0 /\ artifact = {} /\ saved = FALSE
    /\ automine \in BOOLEAN /\ lock = NoLock /\ old = FALSE
    /\ miner = [w \in Miners |-> "none"]
    /\ seen = [w \in Miners |-> 0] /\ mined = [w \in Miners |-> 0]

EndInit == Init /\ source = "claude" /\ EndStart

-----------------------------------------------------------------------------
(* The copy.                                                               *)

(* _parse_transcript: whatever has text and the role "user" is the user's, *)
(* a command echo, a notification or a summary like a prompt; tool results *)
(* and reminders, which it leaves out as well, are no records here.        *)
IsUser(i) == records[i].kind # "reply"

(* _redact_private: the reply that follows no user entry but a private one.*)
Redacted(i) ==
    LET users == {j \in 1..i : IsUser(j)}
    IN  users # {} /\ records[Latest(users)].kind = "private"

(* The entries that remain; of a private prompt remains a marker.          *)
Exchanges == {i \in DOMAIN records : IsUser(i) \/ ~Redacted(i)}

(* _format_markdown: each user entry and the reply right after it, and a   *)
(* reply that comes first.                                                 *)
Document ==
    LET before(i) == {j \in Exchanges : j < i}
        shown(i) == IsUser(i) \/ before(i) = {} \/ IsUser(Latest(before(i)))
    IN  {i \in Exchanges : shown(i) /\ records[i].kind # "private"}

(* main(): nothing of a short conversation, and nothing over a saved copy. *)
SaveArtifact ==
    IF saved \/ Cardinality(Exchanges) < Enough THEN UNCHANGED <<artifact, saved>>
    ELSE artifact' = Document /\ saved' = TRUE

-----------------------------------------------------------------------------
(* Signals matter to a packet only, and a record beside the conversation   *)
(* is to the copy what one of the harness is.                              *)
Continue ==
    /\ open /\ \E kind \in Kinds \ {"beside"} : Write(kind, FALSE)
    /\ UNCHANGED endVars

(* SessionEnd: the hooks save the copy and start a worker.                 *)
End ==
    /\ open /\ ends < MaxEnds
    /\ open' = FALSE /\ ends' = ends + 1
    /\ SaveArtifact
    /\ miner' = [miner EXCEPT ![ends'] = "started"]
    /\ UNCHANGED <<vars, automine, lock, old, seen, mined>>

Resume ==
    /\ ~open /\ ends < MaxEnds /\ open' = TRUE
    /\ UNCHANGED <<vars, ends, artifact, saved, automine, lock, old, miner, seen, mined>>

MinerAt(w, here, there) == miner[w] = here /\ miner' = [miner EXCEPT ![w] = there]

(* A lock that is young keeps the worker out ...                           *)
LookAtLock(w) ==
    /\ MinerAt(w, "started", IF lock # NoLock /\ ~old THEN "done" ELSE "looked")
    /\ UNCHANGED <<vars, open, ends, artifact, saved, automine, lock, old, seen, mined>>

(* ... one that is absent or old is written over.                          *)
WriteLock(w) ==
    /\ MinerAt(w, "looked", "locked") /\ lock' = w /\ old' = FALSE
    /\ UNCHANGED <<vars, open, ends, artifact, saved, automine, seen, mined>>

(* mutant: what the user says last decides                                 *)
LastIsPrivate == Asked # {} /\ records[Latest(Asked)].kind = "private"

(* _transcript_has_private_turn                                            *)
HasPrivate == \E i \in DOMAIN records : records[i].kind = "private"

Classify(w) ==
    /\ MinerAt(w, "locked", IF automine /\ ~HasPrivate THEN "cleared" ELSE "leaving")
    /\ seen' = [seen EXCEPT ![w] = Len(records)]
    /\ UNCHANGED <<vars, open, ends, artifact, saved, automine, lock, old, mined>>

(* The runtime is made ready, and the tool reads the transcript; or the    *)
(* endpoint, the model or the runtime is missing.                          *)
Mine(w) ==
    /\ MinerAt(w, "cleared", "leaving")
    /\ \/ mined' = [mined EXCEPT ![w] = Len(records)]
       \/ UNCHANGED mined
    /\ UNCHANGED <<vars, open, ends, artifact, saved, automine, lock, old, seen>>

(* The lock goes, whoever has written it by now.                           *)
Leave(w) ==
    /\ MinerAt(w, "leaving", "done") /\ lock' = NoLock /\ old' = FALSE
    /\ UNCHANGED <<vars, open, ends, artifact, saved, automine, seen, mined>>

Age ==
    /\ lock # NoLock /\ ~old /\ old' = TRUE
    /\ UNCHANGED <<vars, open, ends, artifact, saved, automine, lock, miner, seen, mined>>

EndNext ==
    \/ Continue \/ End \/ Resume \/ Age
    \/ \E w \in Miners : LookAtLock(w) \/ WriteLock(w) \/ Classify(w) \/ Mine(w) \/ Leave(w)

EndSpec == EndInit /\ [][EndNext]_allVars

-----------------------------------------------------------------------------
(* The hooks and the workers have their types.                             *)
EndTypeOK ==
    /\ TypeOK /\ open \in BOOLEAN /\ ends \in 0..MaxEnds /\ automine \in BOOLEAN
    /\ artifact \subseteq DOMAIN records /\ saved \in BOOLEAN /\ old \in BOOLEAN
    /\ lock \in Miners \cup {NoLock}
    /\ miner \in [Miners -> {"none", "started", "looked", "locked", "cleared", "leaving",
                             "done"}]
    /\ \A w \in Miners : {seen[w], mined[w]} \subseteq 0..Len(records)

ToPrivate(i) == records[i].to # 0 /\ records[records[i].to].kind = "private"

(* "drop the assistant replies to it, up to the next user turn ... a turn  *)
(* the user kept off the record should not be in it": no copy shows a      *)
(* private prompt or a reply to one.                                       *)
ArtifactIsClean == \A i \in artifact : records[i].kind # "private" /\ ~ToPrivate(i)

(* What the code does keep of that: a reply to a private prompt is shown   *)
(* only when an entry of the harness stands between the two.               *)
ArtifactHides ==
    \A i \in artifact :
        /\ records[i].kind # "private"
        /\ ToPrivate(i) => \E j \in (records[i].to + 1)..(i - 1) : IsUser(j)

(* A session with a private prompt is not mined, however often it ends,    *)
(* is resumed and its workers overlap, save for what a resumed session     *)
(* says after the worker has read the transcript.                          *)
MiningIsConsented ==
    \A w \in Miners :
        /\ mined[w] # 0 => automine
        /\ \A i \in 1..mined[w] : records[i].kind = "private" => i > seen[w]

(* What the user keeps off the record stays out of what is made of the     *)
(* session when it ends: the saved copy, the mined decisions.              *)
OffRecordStaysOut == ArtifactHides /\ MiningIsConsented
=============================================================================
