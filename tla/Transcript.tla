----------------------------- MODULE Transcript -----------------------------
(***************************************************************************)
(* What of a past session a backfill packet shows                          *)
(* (claude/scripts/backfill_inventory.py: parse_claude_session,            *)
(* parse_codex_session, _parse_chatgpt_conversation,                       *)
(* _drop_off_record_turns, build_packet; the Codex plugin ships a copy).   *)
(*                                                                         *)
(* A transcript is a sequence of records in the order of their time.  A    *)
(* record is a prompt of the human, a prompt the human marked as off the   *)
(* record, a reply, a record of the harness that carries the role "user"   *)
(* (a tool result, a command echo, injected context), or a record beside   *)
(* the conversation (a sidechain, a compaction summary).  "to" is the      *)
(* prompt a reply answers: the last one, unless the source is a ChatGPT    *)
(* export, a tree whose older prompts can be answered again.               *)
(***************************************************************************)
EXTENDS Integers, Sequences, FiniteSets

CONSTANTS
    MaxRecords,  \* bound: the length of a transcript
    MaxWindows,  \* PACKET_MAX_WINDOWS
    TailLength,  \* 2 * TAIL_EXCHANGES
    Branching    \* may a reply of an export answer an older prompt

(* What a run may give the constants; the module of the run assumes it.    *)
TranscriptBounds ==
    MaxRecords \in Nat /\ MaxWindows \in Nat /\ TailLength \in Nat /\ Branching \in BOOLEAN

VARIABLES
    source,      \* "claude", "codex" or "chatgpt"
    records      \* the transcript
vars == <<source, records>>

Prompts == {"human", "private"}
Kinds == Prompts \cup {"reply", "harness", "beside"}
Record == [kind : Kinds, signal : BOOLEAN, to : 0..MaxRecords]

TypeOK ==
    /\ source \in {"claude", "codex", "chatgpt"}
    /\ records \in Seq(Record) /\ Len(records) <= MaxRecords

Init == source \in {"claude", "codex", "chatgpt"} /\ records = <<>>

Latest(I) == CHOOSE i \in I : \A j \in I : j <= i

(* The prompts so far, by position.                                        *)
Asked == {i \in DOMAIN records : records[i].kind \in Prompts}

(* The prompts a reply may answer; none in a file that continues another.  *)
Answered ==
    IF Asked = {} THEN {0}
    ELSE IF source = "chatgpt" /\ Branching THEN Asked
    ELSE {Latest(Asked)}

(* A record is written; "signal": its text matches SIGNAL_RE.              *)
Write(kind, signal) ==
    /\ Len(records) < MaxRecords
    /\ \E to \in IF kind = "reply" THEN Answered ELSE {0} :
          records' = Append(records, [kind |-> kind, signal |-> signal, to |-> to])
    /\ UNCHANGED source

Next == \E kind \in Kinds, signal \in BOOLEAN : Write(kind, signal)
Spec == Init /\ [][Next]_vars

----------------------------------------------------------------------------
(* Parsing: the positions of the messages of the conversation.             *)
Messages == {m \in DOMAIN records : records[m].kind \in Prompts \cup {"reply"}}

(* mutant: whatever has the role "user" ends the hiding of what follows    *)
HiddenUntilUser(m) ==
    LET users == {i \in 1..m : records[i].kind \in Prompts \cup {"harness"}}
    IN  users # {} /\ records[Latest(users)].kind = "private"

(* _drop_off_record_turns: from a private prompt up to the next prompt.    *)
Hidden(m) ==
    LET users == {i \in 1..m : records[i].kind \in Prompts}
    IN  users # {} /\ records[Latest(users)].kind = "private"

Kept == {m \in Messages : ~Hidden(m)}

(* A session in which no human speaks is not mined.                        *)
Mined == \E m \in Kept : records[m].kind \in Prompts

(* build_packet: the first message, a window around each of the first      *)
(* MaxWindows messages with a signal (and the message before it), the tail.*)
Windows ==
    LET signals == {m \in Kept : records[m].signal}
        chosen == {m \in signals : Cardinality({j \in signals : j <= m}) <= MaxWindows}
        next(m, j) == m < j /\ ~\E k \in Kept : m < k /\ k < j
    IN  chosen \cup {m \in Kept : \E j \in chosen : next(m, j)}
Packet ==
    IF ~Mined THEN {}
    ELSE {m \in Kept : \/ \A j \in Kept : m <= j
                      \/ m \in Windows
                      \/ Cardinality({j \in Kept : m <= j}) <= TailLength}

----------------------------------------------------------------------------
(* "Everything up to the next user turn is dropped, so the reply cannot    *)
(* leak what the prompt asked to keep out": no excerpt of a packet is a    *)
(* prompt marked as off the record or a reply to one.                      *)
PacketIsClean ==
    \A m \in Packet :
        /\ records[m].kind # "private"
        /\ records[m].to # 0 => records[records[m].to].kind # "private"
=============================================================================
