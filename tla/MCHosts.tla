------------------------------- MODULE MCHosts -------------------------------
(***************************************************************************)
(* What the plugins of Claude Code and of Codex do around a session, in    *)
(* one run: the onboarding of either and the backend it leads to, the      *)
(* launch of a server, the reflex hooks, the accounting of turns, the      *)
(* guard of edits and the calls of the tools.  They share no variable: a   *)
(* behaviour follows one of them, and the others rest in one initial       *)
(* state.                                                                  *)
(***************************************************************************)
EXTENDS CodexBackend, Sequences, FiniteSets, TLC

CONSTANTS Home, Near, Far, Nowhere, Absent, CutAt, MaxRefused, MaxEdits,
          Prompts, Private, NoWrite, NoPrompt, Fetchers, Texts, Budget, Floor,
          Cooldown, MaxTurns, MaxCuts,
          Every, Keep, MaxIds, MaxLost,
          Files, Room, MaxVersion, MaxTurn, MaxCut,
          Threads, NoThread, Bad, Historical, Tasks, MaxLines, MaxCaptures,
          MaxHeard

VARIABLES
    live,
    local, global, os, desktop, dotenv, fallback, writable, project, wizard, expect,
    ever, torn, refusals, runs, edits,
    insights, host, turnFile, saving, users, echo, quietTurns, recall, latched,
    fetchLock, tmpFile, fetcher, turns, cuts, said, sent,
    file, id, user, hostAt, active, lost, kindOf, blocks, ended,
    head, content, mode, receipts, check, answer, turnNo, cut, told, missed, passed,
    child, ambient, asked, wire, closed, pending, inbox, task, context, answers,
    accepted,
    stage, who, env, named, heard, client

Claude == INSTANCE BackendConfig
Reflexes == INSTANCE Reflex
Turns == INSTANCE CodexTurns
Guard == INSTANCE CodexEditGuard
Bridge == INSTANCE CodexBridge WITH receipts <- accepted
Launch == INSTANCE LaunchEnv

(* The endpoints of this machine are alike.                                *)
Symmetry == Permutations(Near)

ASSUME HostsAssumption ==
    /\ Claude!BackendAssumption /\ Reflexes!ReflexAssumption /\ Turns!LifecycleAssumption
    /\ Guard!GuardAssumption /\ Bridge!BridgeAssumption /\ Launch!LaunchAssumption

claudeVars == <<local, global, os, desktop, dotenv, fallback, writable, project,
                wizard, expect, ever, torn, refusals, runs, edits>>
reflexVars == <<insights, host, turnFile, saving, users, echo, quietTurns, recall,
                latched, fetchLock, tmpFile, fetcher, turns, cuts, said, sent>>
turnVars == <<file, id, user, hostAt, active, lost, kindOf, blocks, ended>>
guardVars == <<head, content, mode, receipts, check, answer, turnNo, cut, told,
               missed, passed>>
callVars == <<child, ambient, asked, wire, closed, pending, inbox, task, context,
              answers, accepted>>
launchVars == <<stage, who, env, named, heard, client>>
hostVars == <<live, codexVars, claudeVars, reflexVars, turnVars, guardVars, callVars,
              launchVars>>

HostInit ==
    /\ Init /\ Claude!Init /\ Reflexes!Init /\ Turns!Init /\ Guard!Init
    /\ Bridge!Init /\ Launch!Init
    /\ live \in {"codex", "claude", "reflex", "turns", "guard", "calls", "launch"}
    /\ live # "codex" => signedIn /\ answering
    /\ live # "claude" => local = Absent /\ global = Absent /\ desktop = Absent /\ writable
    /\ live # "reflex" => insights
    /\ live # "launch" => who = "claude"

CodexStep(A) == live = "codex" /\ A
                /\ UNCHANGED <<live, claudeVars, reflexVars, turnVars, guardVars,
                              callVars, launchVars>>
ClaudeStep(A) == live = "claude" /\ A
                 /\ UNCHANGED <<live, codexVars, reflexVars, turnVars, guardVars,
                               callVars, launchVars>>
ReflexStep(A) == live = "reflex" /\ A
                 /\ UNCHANGED <<live, codexVars, claudeVars, turnVars, guardVars,
                               callVars, launchVars>>
TurnStep(A) == live = "turns" /\ A
               /\ UNCHANGED <<live, codexVars, claudeVars, reflexVars, guardVars,
                             callVars, launchVars>>
GuardStep(A) == live = "guard" /\ A
                /\ UNCHANGED <<live, codexVars, claudeVars, reflexVars, turnVars,
                              callVars, launchVars>>
CallStep(A) == live = "calls" /\ A
               /\ UNCHANGED <<live, codexVars, claudeVars, reflexVars, turnVars,
                             guardVars, launchVars>>
LaunchStep(A) == live = "launch" /\ A
                 /\ UNCHANGED <<live, codexVars, claudeVars, reflexVars, turnVars,
                               guardVars, callVars>>

HostNext ==
    \/ CodexStep(Next) \/ ClaudeStep(Claude!Next) \/ ReflexStep(Reflexes!Next)
    \/ TurnStep(Turns!Next) \/ GuardStep(Guard!Next) \/ CallStep(Bridge!Next)
    \/ LaunchStep(Launch!Next)

HostSpec == HostInit /\ [][HostNext]_hostVars

(* Every variable of the module that is followed has its type.             *)
TypesOK ==
    CASE live = "codex" -> TypeOK
      [] live = "claude" -> Claude!TypeOK
      [] live = "reflex" -> Reflexes!TypeOK
      [] live = "turns" -> Turns!TypeOK
      [] live = "guard" -> Guard!TypeOK
      [] live = "calls" -> Bridge!TypeOK
      [] live = "launch" -> Launch!TypeOK

(* A launch in Claude serves what the last onboarding that came to its end *)
(* chose, or what has begun to replace it.                                 *)
SelectionIsServed == Claude!SelectionIsServed

(* An insight is shown with the prompt that it was recalled for, and what  *)
(* is recalled is said once.                                               *)
InsightsAreRight == Reflexes!InsightFitsPrompt /\ Reflexes!SaidOnce

(* A private prompt is in no query.                                        *)
PrivateStaysOut == Reflexes!PrivateStaysOut

(* Turns are counted once and the agent is nagged within bounds.           *)
TurnsAreCounted == Turns!TurnsAreCounted

(* An edit passes when its rationale was looked up in this turn, and told  *)
(* unless the reply was lost or full.                                      *)
EditsAreInformed == Guard!EditsAreInformed

(* The identity of a call of a tool is its own, from the request to the    *)
(* receipt.                                                                *)
CallsAreOwn == Bridge!CallsAreOwn

(* A server that was launched talks to no other backend, and says nothing  *)
(* to another machine, than the user has decided.                          *)
LaunchIsSafe == Launch!LaunchIsSafe
=============================================================================
