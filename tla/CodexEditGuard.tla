--------------------------- MODULE CodexEditGuard ---------------------------
(***************************************************************************)
(* The guard of Codex edits (PreToolUse in dispatch(), _repo_snapshot(),   *)
(* _fingerprint() of codex/scripts/codex_lifecycle.py).  A patch is denied *)
(* until code_why was asked for each of its files in this turn, at this    *)
(* HEAD and with this content; the denial carries the rationale, as far as *)
(* it has room, and the agent submits the patch again.                     *)
(*                                                                         *)
(* One check runs at a time under the lock of the thread, but it asks for  *)
(* file after file while other processes edit and commit, and its reply    *)
(* may be lost when its state is saved.                                    *)
(***************************************************************************)
EXTENDS Integers, FiniteSets, Sequences, SequencesExt

CONSTANTS
    Files,
    Room,           \* rationales that the denial has room for (1800 characters)
    MaxVersion,     \* bound: contents of a file, and commits
    MaxTurn,        \* bound: turns
    MaxCut          \* bound: lost events and replies

(* What a run may give the constants; the module of the run assumes it.    *)
GuardAssumption ==
    IsFiniteSet(Files) /\ {Room, MaxVersion, MaxTurn, MaxCut} \subseteq Nat

VARIABLES
    head,           \* HEAD
    content,        \* [Files -> what the file holds]
    mode,           \* the turn in the file: open, private, unknown
    receipts,       \* its code_why receipts
    check,          \* the check that is running
    answer,         \* what the agent last heard: none, denied, allowed
    turnNo, cut,    \* turns so far, lost so far
    told,           \* ghost: the prints whose rationale the agent was told, this turn
    missed,         \* ghost: those whose rationale was lost with its reply, or had
                    \* no room in it
    passed          \* ghost: what the guard let through last

ghosts == <<told, missed, passed>>
vars == <<head, content, mode, receipts, check, answer, turnNo, cut, ghosts>>

Prints == Files \X (0..MaxVersion) \X (0..MaxVersion)
NoCheck == [on |-> FALSE, todo |-> <<>>, head |-> 0, new |-> <<>>, seen |-> {}]

-----------------------------------------------------------------------------
Init ==
    /\ head = 0 /\ content = [f \in Files |-> 0]
    /\ mode = "open" /\ receipts = {} /\ check = NoCheck /\ answer = "none"
    /\ turnNo = 1 /\ cut = 0 /\ told = {} /\ missed = {} /\ passed = {}

(* The next prompt of the user: the turn is new in the file, or private,   *)
(* or its event was lost and the file does not know the turn.              *)
NewTurn ==
    /\ ~check.on /\ turnNo < MaxTurn /\ turnNo' = turnNo + 1
    /\ receipts' = {} /\ answer' = "none" /\ told' = {} /\ missed' = {} /\ passed' = {}
    /\ \/ mode' \in {"open", "private"} /\ UNCHANGED cut
       \/ mode' = "unknown" /\ cut < MaxCut /\ cut' = cut + 1
    /\ UNCHANGED <<head, content, check>>

(* Somebody else edits a file, or commits.                                 *)
EditElsewhere(f) ==
    /\ content[f] < MaxVersion /\ content' = [content EXCEPT ![f] = @ + 1]
    /\ UNCHANGED <<head, mode, receipts, check, answer, turnNo, cut, ghosts>>

Commit ==
    /\ head < MaxVersion /\ head' = head + 1
    /\ UNCHANGED <<content, mode, receipts, check, answer, turnNo, cut, ghosts>>

(* The agent submits a patch.  Without a turn in the file, or in a private *)
(* one, it is let through; where git does not answer it is denied.         *)
Submitted(files) ==
    /\ ~check.on
    /\ IF mode # "open"
       THEN answer' = "allowed" /\ passed' = {} /\ UNCHANGED check
       ELSE /\ UNCHANGED passed
            /\ \/ answer' = "denied" /\ UNCHANGED check
               \/ /\ check' = [on |-> TRUE, todo |-> SetToSeq(files), head |-> head,
                               new |-> <<>>, seen |-> {}]
                  /\ UNCHANGED answer
    /\ UNCHANGED <<head, content, mode, receipts, turnNo, cut, told, missed>>

(* One file: its print is taken and found among the receipts, or code_why  *)
(* is asked.                                                               *)
Fingerprint(f) == <<f, check.head, content[f]>>

LookUp ==
    /\ check.on /\ check.todo # <<>>
    /\ LET print == Fingerprint(Head(check.todo))
       IN  check' = [check EXCEPT !.todo = Tail(@), !.seen = @ \cup {print},
                        !.new = IF print \in receipts \cup ToSet(@) THEN @
                                ELSE Append(@, print)]
    /\ UNCHANGED <<head, content, mode, receipts, answer, turnNo, cut, ghosts>>

(* Mutant: what was looked up before the failure keeps its receipts.       *)
LookUpFailsHalfway ==
    /\ check.on /\ check.todo # <<>>
    /\ check' = NoCheck /\ answer' = "denied"
    /\ receipts' = receipts \cup ToSet(check.new)
    /\ UNCHANGED <<head, content, mode, turnNo, cut, ghosts>>

(* The file cannot be read, or code_why fails: all of the check is void.   *)
LookUpFails ==
    /\ check.on /\ check.todo # <<>>
    /\ check' = NoCheck /\ answer' = "denied"
    /\ UNCHANGED <<head, content, mode, receipts, turnNo, cut, ghosts>>

(* The denial is cut off at 1800 characters.                               *)
Fitting == {check.new[i] : i \in DOMAIN check.new \cap 1..Room}

(* All are looked up, some for the first time: the receipts of all of them *)
(* are saved, and the patch is denied with the rationales that there is    *)
(* room for, or the reply is lost.                                         *)
Explain ==
    /\ check.on /\ check.todo = <<>> /\ check.new # <<>>
    /\ check' = NoCheck /\ receipts' = receipts \cup ToSet(check.new)
    /\ \/ /\ told' = told \cup Fitting /\ missed' = missed \cup (ToSet(check.new) \ Fitting)
          /\ answer' = "denied" /\ UNCHANGED cut
       \/ /\ cut < MaxCut /\ cut' = cut + 1 /\ answer' = "none" /\ UNCHANGED told
          /\ missed' = missed \cup ToSet(check.new)
    /\ UNCHANGED <<head, content, mode, turnNo, passed>>

(* None is new: the patch is let through, and applied by the host.         *)
LetThrough ==
    /\ check.on /\ check.todo = <<>> /\ check.new = <<>>
    /\ check' = NoCheck /\ answer' = "allowed" /\ passed' = check.seen
    /\ content' = [f \in Files |->
         IF content[f] < MaxVersion /\ \E p \in check.seen : p[1] = f
         THEN content[f] + 1 ELSE content[f]]
    /\ UNCHANGED <<head, mode, receipts, turnNo, cut, told, missed>>

(* The event is lost, or the process killed, before anything is saved.     *)
CheckLost ==
    /\ check.on /\ cut < MaxCut /\ cut' = cut + 1
    /\ check' = NoCheck /\ answer' = "none"
    /\ UNCHANGED <<head, content, mode, receipts, turnNo, ghosts>>

Next ==
    \/ NewTurn \/ (\E f \in Files : EditElsewhere(f)) \/ Commit
    \/ \E files \in SUBSET Files \ {{}} : Submitted(files)
    \/ LookUp \/ LookUpFails \/ Explain \/ LetThrough \/ CheckLost

Spec == Init /\ [][Next]_vars

-----------------------------------------------------------------------------
(* The files, the turn, the check and the ghosts have their types.         *)
TypeOK ==
    /\ head \in 0..MaxVersion /\ content \in [Files -> 0..MaxVersion]
    /\ mode \in {"open", "private", "unknown"} /\ receipts \subseteq Prints
    /\ check.on \in BOOLEAN /\ ToSet(check.todo) \subseteq Files
    /\ ToSet(check.new) \cup check.seen \subseteq Prints
    /\ answer \in {"none", "denied", "allowed"}
    /\ turnNo \in 1..MaxTurn /\ cut \in 0..MaxCut
    /\ told \cup missed \cup passed \subseteq Prints

(* A patch that the guard lets through in a turn it knows touches only     *)
(* files whose rationale the agent was told in this turn, for the HEAD and *)
(* the content that the guard has just found, though others edit and       *)
(* commit all the while.  A receipt is untold for two reasons only: the    *)
(* reply was lost, or its 1800 characters were full.  The test says that a *)
(* multi-file patch cannot bypass the first edit guard                     *)
(* (codex/scripts/test_codex_lifecycle_adversarial.py:174).                *)
EditsAreInformed == passed \subseteq told \cup missed
=============================================================================
