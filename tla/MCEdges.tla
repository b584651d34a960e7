------------------------------- MODULE MCEdges -------------------------------
(***************************************************************************)
(* Eight parts at the edges in one run: the queue of decisions to capture, *)
(* the transcripts of a backfill and its ledger, the end of a session, the *)
(* gateway of the ChatGPT connector, the trigger and the writes of the n8n *)
(* nodes, and the saves of the ComfyUI nodes.                              *)
(* They share no variable but the transcript, which a backfill and the end *)
(* of a session both read: a behaviour follows one of them, and the others *)
(* rest in one initial state.                                              *)
(***************************************************************************)
EXTENDS CaptureQueue

CONSTANTS MaxRecords, MaxWindows, TailLength, Branching, Enough, MaxEnds, Unlocked,
          Sessions, Typed, Digest, Secret, Scopes, NoScope, MaxStages, MaxStops,
          Clients, NoClient, ClientCap, RefreshCap, FailLimit, MaxPins, MaxGrants,
          MaxCrashes,
          MaxEvents, MaxBreaks, MaxStarts,
          MaxAttempts, MaxWrites,
          Comfy, Workflows, Linked, MaxBatch, MaxSaves, MaxFaults

VARIABLES
    live,
    source, records,
    open, ends, artifact, saved, automine, mineLock, old, miner, read, mined,
    codex, batch, found, file, scope, asked, run, rows, keys, triples, latest,
    foundUnder, late, regrown, stages, stops,
    phase, bookFile, book, pinFile, pin, codes, refresh, fails, consent, hand, pins,
    grants, crashes, usedBy, cutShort, torn, redeemed,
    filter, configured, log, loop, cursor, staticCursor, savedCursor, position,
    emitted, base, origin, ever, breaks, starts,
    kind, like, item, attempt, step, answer, there, done, seen, out,
    existing, revisions, tagged, doing, job, owner, todo, again, target, deps, missed, held, returned, written, faults

Names == {<<"a">>, <<"a", "b">>}
Patterns == {<<>>, <<"a">>, <<"*", "a">>, <<"a", "*">>, <<"a", "?">>}

(* A prompt that loads a model and wires another to its place.             *)
Flows == {<<[type |-> "checkpoint", value |-> "base"], [type |-> "prompt", value |-> "fox"],
            [type |-> "lora", value |-> Linked]>>}

Packets == INSTANCE Transcript
Ends == INSTANCE SessionEnd WITH NoLock <- Unlocked, lock <- mineLock, seen <- read
Ledger == INSTANCE Backfill WITH origin <- foundUnder
Gateway == INSTANCE GptGateway WITH kills <- crashes
Trigger == INSTANCE N8nTrigger
Writes == INSTANCE N8nWrite
Assets == INSTANCE ComfyNodes

ASSUME EdgesAssumption ==
    /\ Packets!TranscriptBounds /\ Ends!EndBounds /\ Ledger!BackfillBounds
    /\ Gateway!GatewayAssumption /\ Trigger!TriggerAssumption /\ Writes!WriteAssumption
    /\ Assets!ComfyAssumption

queueVars == <<head, lock, queue, overflow, captured, pc, commit, keep, owed, mishap,
               kills>>
packetVars == <<source, records>>
endVars == <<open, ends, artifact, saved, automine, mineLock, old, miner, read, mined>>
ledgerVars == <<codex, batch, found, file, scope, asked, run, rows, keys, triples,
                latest, foundUnder, late, regrown, stages, stops>>
gatewayVars == <<phase, bookFile, book, pinFile, pin, codes, refresh, fails, consent,
                 hand, pins, grants, crashes, usedBy, cutShort, torn, redeemed>>
triggerVars == <<filter, configured, log, loop, cursor, staticCursor, savedCursor,
                 position, emitted, base, origin, ever, breaks, starts>>
writeVars == <<kind, like, item, attempt, step, answer, there, done, seen, out>>
assetVars == <<existing, revisions, tagged, doing, job, owner, todo, again, target,
               deps, missed, held, returned, written, faults>>
edgeVars == <<live, queueVars, packetVars, endVars, ledgerVars, gatewayVars,
              triggerVars, writeVars, assetVars>>

EdgeInit ==
    /\ Init /\ Packets!Init /\ Ends!EndStart /\ Ledger!Init /\ Gateway!Init /\ Trigger!Init
    /\ Writes!Init /\ Assets!Init
    /\ live \in {"queue", "packets", "ends", "ledger", "gateway", "trigger", "writes",
                "assets"}
    /\ live # "packets" => source = "claude"
    /\ live # "ends" => automine
    /\ live # "ledger" => ~codex
    /\ live # "trigger" => filter = <<>> /\ configured = 0
    /\ live # "writes" => /\ there = {}
                         /\ \A i \in DOMAIN kind : kind[i] = "revision" /\ like[i] = i

QueueStep(A) ==
    live = "queue" /\ A
    /\ UNCHANGED <<live, packetVars, endVars, ledgerVars, gatewayVars, triggerVars, writeVars,
                   assetVars>>
PacketStep(A) ==
    live = "packets" /\ A
    /\ UNCHANGED <<live, queueVars, endVars, ledgerVars, gatewayVars, triggerVars,
                   writeVars, assetVars>>
SessionStep(A) ==
    live = "ends" /\ A
    /\ UNCHANGED <<live, queueVars, ledgerVars, gatewayVars, triggerVars, writeVars,
                   assetVars>>
LedgerStep(A) ==
    live = "ledger" /\ A
    /\ UNCHANGED <<live, queueVars, packetVars, endVars, gatewayVars, triggerVars, writeVars,
                   assetVars>>
GatewayStep(A) ==
    live = "gateway" /\ A
    /\ UNCHANGED <<live, queueVars, packetVars, endVars, ledgerVars, triggerVars, writeVars,
                   assetVars>>
TriggerStep(A) ==
    live = "trigger" /\ A
    /\ UNCHANGED <<live, queueVars, packetVars, endVars, ledgerVars, gatewayVars, writeVars,
                   assetVars>>
WriteStep(A) ==
    live = "writes" /\ A
    /\ UNCHANGED <<live, queueVars, packetVars, endVars, ledgerVars, gatewayVars, triggerVars,
                   assetVars>>
AssetStep(A) ==
    live = "assets" /\ A
    /\ UNCHANGED <<live, queueVars, packetVars, endVars, ledgerVars, gatewayVars, triggerVars,
                   writeVars>>

EdgeNext ==
    \/ QueueStep(Next) \/ PacketStep(Packets!Next) \/ SessionStep(Ends!EndNext)
    \/ LedgerStep(Ledger!Next) \/ GatewayStep(Gateway!Next)
    \/ TriggerStep(Trigger!Next) \/ WriteStep(Writes!Next) \/ AssetStep(Assets!Next)

EdgeSpec == EdgeInit /\ [][EdgeNext]_edgeVars

(* Every variable of the module that is followed has its type.             *)
TypesOK ==
    CASE live = "queue" -> TypeOK
      [] live = "packets" -> Packets!TypeOK
      [] live = "ends" -> Ends!EndTypeOK
      [] live = "ledger" -> Ledger!TypeOK
      [] live = "gateway" -> Gateway!TypeOK
      [] live = "trigger" -> Trigger!TypeOK
      [] live = "writes" -> Writes!TypeOK
      [] live = "assets" -> Assets!TypeOK

(* What the user keeps off the record stays out of the packet of a         *)
(* backfill, of the saved copy of a session and of its mined decisions.    *)
OffRecordStaysOut == Packets!PacketIsClean /\ Ends!OffRecordStaysOut

(* The ledger of a backfill and the server agree, and a capture is stored  *)
(* once however often the runner is started.                               *)
LedgerIsTrue == Ledger!LedgerIsTrue

(* The clients that are approved are those a PIN of their own was spent on.*)
ConsentIsExact == Gateway!ConsentIsExact

(* A code or a refresh token is redeemed once.                             *)
GrantUsedOnce == Gateway!GrantUsedOnce

(* The trigger emits what passes its filter, in order, and skips nothing.  *)
StreamIsExact == Trigger!StreamIsExact

(* A write is done once, however often it is sent.                         *)
WriteIsOnce == Writes!WriteIsOnce

(* What a node of ComfyUI registers is what was saved, and loads again.    *)
AssetsAreTrue == Assets!AssetsAreTrue
=============================================================================
