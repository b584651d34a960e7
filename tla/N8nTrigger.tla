----------------------------- MODULE N8nTrigger -----------------------------
(***************************************************************************)
(* The Kumiho Event Trigger of n8n (KumihoEventStreamTrigger.node.ts): one *)
(* loop that opens the event stream from a cursor, emits the events that   *)
(* pass the name filter, and opens it again after a pause when it ends.    *)
(*                                                                         *)
(* The server (external) sends the events after the cursor in order, and   *)
(* those from now on when there is none.  n8n (external) keeps the static  *)
(* data of the node, writes it out at some time, and may be killed.        *)
(***************************************************************************)
EXTENDS Naturals, Sequences, SequencesExt

CONSTANTS
    Names,          \* names of events: sequences of characters
    Patterns,       \* name filters, without two wildcards side by side
    MaxEvents,      \* bound: events published
    MaxBreaks,      \* bound: streams that end
    MaxStarts       \* bound: activations

(* What a run may give the constants; the module of the run assumes it.    *)
TriggerAssumption == {MaxEvents, MaxBreaks, MaxStarts} \subseteq Nat

VARIABLES
    filter,         \* routingKeyNameFilter
    configured,     \* advanced.cursor, 0 is none
    log,            \* the names of the events published so far
    loop,           \* streamLoop: off, connecting, reading, sleeping, dead
    cursor,         \* the cursor of this activation, 0 is none
    staticCursor,   \* staticData.cursor
    savedCursor,    \* what n8n has written out of it
    position,       \* the last event that the open stream has sent
    emitted,        \* the events emitted in this activation
    base, origin,   \* ghosts: where this activation, and the node, began
    ever,           \* ghost: the events emitted in any activation
    breaks, starts

setting == <<filter, configured>>
progress == <<cursor, staticCursor, emitted, ever>>
vars == <<setting, log, loop, progress, savedCursor, position, base, origin, breaks, starts>>

Wildcards == {"*", "?"}
HasWildcard(p) == \E i \in DOMAIN p : p[i] \in Wildcards

(* The pattern becomes a regular expression in which its wildcards are     *)
(* quantifiers of the character before them: only what escapes them would  *)
(* be turned into the wildcard, and they are not escaped.                  *)
RegexMatches(p, v) ==
    LET quantifier(i) == IF i < Len(p) /\ p[i + 1] \in Wildcards THEN p[i + 1] ELSE ""
        m[i \in 1..Len(p) + 1, j \in 1..Len(v) + 1] ==
            LET same == j <= Len(v) /\ v[j] = p[i]
            IN CASE i > Len(p) -> j > Len(v)
                 [] i <= Len(p) /\ quantifier(i) = "*" -> m[i + 2, j] \/ (same /\ m[i, j + 1])
                 [] i <= Len(p) /\ quantifier(i) = "?" -> m[i + 2, j] \/ (same /\ m[i + 2, j + 1])
                 [] OTHER -> same /\ m[i + 1, j + 1]
    IN m[1, 1]

(* matchesWildcardPattern(): a quantifier with nothing before it throws.   *)
Verdict(v) ==
    CASE filter = <<>> -> "yes"
      [] filter # <<>> /\ filter[1] \in Wildcards -> "throws"
      [] OTHER -> IF RegexMatches(filter, v) THEN "yes" ELSE "no"

-----------------------------------------------------------------------------
(* A cursor that is configured is one of an event that was there.          *)
Init ==
    /\ filter \in Patterns
    /\ \/ configured = 0 /\ log = <<>>
       \/ configured = 1 /\ \E v \in Names : log = <<v>>
    /\ loop = "off" /\ cursor = 0 /\ staticCursor = 0 /\ savedCursor = 0
    /\ position = 0 /\ emitted = <<>> /\ base = 0 /\ origin = 0 /\ ever = {}
    /\ breaks = 0 /\ starts = 0

Publish(v) ==
    /\ Len(log) < MaxEvents
    /\ log' = Append(log, v)
    /\ UNCHANGED <<setting, loop, progress, savedCursor, position, base, origin, breaks,
                   starts>>

(* trigger(): the configured cursor wins over the one that was kept.       *)
Activate ==
    /\ loop = "off" /\ starts < MaxStarts
    /\ starts' = starts + 1 /\ loop' = "connecting"
    /\ cursor' = IF configured # 0 THEN configured ELSE staticCursor
    /\ emitted' = <<>> /\ base' = cursor'
    /\ origin' = IF starts = 0 THEN cursor' ELSE origin
    /\ UNCHANGED <<setting, log, staticCursor, ever, savedCursor, position, breaks>>

(* The stream opens.  Until an event has passed the filter there is no     *)
(* cursor, and what was published during a pause is not asked for.         *)
Connect ==
    /\ loop = "connecting" /\ loop' = "reading"
    /\ IF cursor = 0
       THEN /\ position' = Len(log) /\ base' = Len(log)
            /\ origin' = IF staticCursor = 0 THEN Len(log) ELSE origin
       ELSE position' = cursor /\ UNCHANGED <<base, origin>>
    /\ UNCHANGED <<setting, log, progress, savedCursor, breaks, starts>>

(* Mutant: the next stream starts where this activation did.               *)
ReceiveForLater ==
    /\ loop = "reading" /\ position < Len(log) /\ position' = position + 1
    /\ \/ /\ Verdict(log[position']) = "yes"
          /\ staticCursor' = position'
          /\ emitted' = Append(emitted, position') /\ ever' = ever \cup {position'}
          /\ UNCHANGED <<loop, cursor>>
       \/ Verdict(log[position']) = "no" /\ UNCHANGED <<loop, progress>>
       \/ Verdict(log[position']) = "throws" /\ loop' = "sleeping" /\ UNCHANGED progress
    /\ UNCHANGED <<setting, log, savedCursor, base, origin, breaks, starts>>

(* An event arrives.  One that passes moves the cursor and is emitted.  A  *)
(* filter that throws ends the stream as a broken connection does.         *)
Receive ==
    /\ loop = "reading" /\ position < Len(log) /\ position' = position + 1
    /\ \/ /\ Verdict(log[position']) = "yes"
          /\ cursor' = position' /\ staticCursor' = position'
          /\ emitted' = Append(emitted, position') /\ ever' = ever \cup {position'}
          /\ UNCHANGED loop
       \/ Verdict(log[position']) = "no" /\ UNCHANGED <<loop, progress>>
       \/ Verdict(log[position']) = "throws" /\ loop' = "sleeping" /\ UNCHANGED progress
    /\ UNCHANGED <<setting, log, savedCursor, base, origin, breaks, starts>>

(* The stream ends, or cannot be opened: every error is swallowed.         *)
Break ==
    /\ loop \in {"connecting", "reading"} /\ breaks < MaxBreaks
    /\ breaks' = breaks + 1 /\ loop' = "sleeping"
    /\ UNCHANGED <<setting, log, progress, savedCursor, position, base, origin, starts>>

(* The pause is over.                                                      *)
Wake ==
    /\ loop = "sleeping" /\ loop' = "connecting"
    /\ UNCHANGED <<setting, log, progress, savedCursor, position, base, origin, breaks,
                   starts>>

(* Credentials or a parameter cannot be read: that error is not swallowed, *)
(* and nobody awaits the loop.                                             *)
LoopThrows ==
    /\ loop = "connecting" /\ loop' = "dead"
    /\ UNCHANGED <<setting, log, progress, savedCursor, position, base, origin, breaks,
                   starts>>

(* closeFunction(): the loop of this activation emits nothing any more.    *)
Close ==
    /\ loop # "off" /\ loop' = "off"
    /\ UNCHANGED <<setting, log, progress, savedCursor, position, base, origin, breaks,
                   starts>>

(* External: n8n writes the static data out.                               *)
SaveStaticData ==
    /\ savedCursor' = staticCursor
    /\ UNCHANGED <<setting, log, loop, progress, position, base, origin, breaks, starts>>

(* External: n8n is killed, and starts from what it had written out.       *)
Kill ==
    /\ loop # "off" /\ loop' = "off" /\ staticCursor' = savedCursor
    /\ UNCHANGED <<setting, log, cursor, emitted, ever, savedCursor, position, base, origin,
                   breaks, starts>>

Next ==
    \/ \E v \in Names : Publish(v)
    \/ Activate \/ Connect \/ Receive \/ Break \/ Wake \/ LoopThrows \/ Close
    \/ SaveStaticData \/ Kill

Spec == Init /\ [][Next]_vars

-----------------------------------------------------------------------------
Events == 1..MaxEvents
TypeOK ==
    /\ filter \in Patterns /\ configured \in {0, 1}
    /\ \A i \in DOMAIN log : log[i] \in Names
    /\ loop \in {"off", "connecting", "reading", "sleeping", "dead"}
    /\ {cursor, staticCursor, savedCursor, position, base, origin} \subseteq 0..Len(log)
    /\ ToSet(emitted) \subseteq ever /\ ever \subseteq 1..Len(log)
    /\ breaks \in 0..MaxBreaks /\ starts \in 0..MaxStarts

Passing(from, to) == {e \in from + 1..to : Verdict(log[e]) = "yes"}

(* "With cursor persistence" (README.md): while the node is active it has  *)
(* emitted each event that passes, once and in order, from where its first *)
(* cursor stands up to what the stream has sent, over any number of broken *)
(* streams; and the cursor that is kept never runs ahead of what has been  *)
(* emitted, so that a restart repeats events but skips none.               *)
StreamIsExact ==
    /\ loop = "reading" =>
          /\ ToSet(emitted) = Passing(base, position)
          /\ \A i, j \in DOMAIN emitted : i < j => emitted[i] < emitted[j]
    /\ Passing(origin, staticCursor) \subseteq ever
=============================================================================
