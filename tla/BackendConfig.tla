---------------------------- MODULE BackendConfig ----------------------------
(***************************************************************************)
(* Which backend the Claude plugin serves: the onboarding wizard writes    *)
(* the choice to several places one after the other (setup.py), and each   *)
(* launch of the server puts it together again from all of them            *)
(* (run_kumiho_mcp.py).  Kumiho Cloud is chosen by removing the marks of   *)
(* the self-hosted edition (CE), so a place that is missed decides.        *)
(*                                                                         *)
(* An interruption may come before any of the writes, and a write that is  *)
(* refused by the system is passed over: the wizard goes on to the next.   *)
(*                                                                         *)
(* A route is what one place says: whether KUMIHO_CLAUDE_MODE=ce is set    *)
(* there, and the endpoint.  The Redis and LLM addresses are written,      *)
(* removed and restored like the endpoint and are not modelled apart.      *)
(* The wizard is the one /kumiho-onboard starts, with KUMIHO_CLAUDE_HOST   *)
(* set, and it is given endpoints of this machine only, as that command    *)
(* asks for.  Claude Desktop has at most one configuration here.           *)
(***************************************************************************)
EXTENDS Integers, Sequences

CONSTANTS
    Home,       \* the default endpoint, which is never written down
    Near,       \* other endpoints on this machine
    Far,        \* an endpoint of another machine
    Cloud,      \* Kumiho Cloud
    Nowhere,    \* no endpoint
    Absent,     \* no such file, or no entry of ours in it
    Broken,     \* a settings file that is not readable JSON
    CutAt,      \* bound: the steps the wizard may be interrupted before
    MaxRefused, \* bound: writes that are refused
    MaxRuns,    \* bound: runs of the wizard
    MaxEdits    \* bound: changes by the user or by an update of the plugin

Endpoint == Near \cup {Home}
Route == [ce : BOOLEAN, end : Near \cup {Nowhere}]
ProjectRoute == [ce : BOOLEAN, end : Near \cup {Far, Nowhere}]
Nothing == [ce |-> FALSE, end |-> Nowhere]
Outcome == Endpoint \cup {Cloud}

Steps == {"auth", "local", "global", "os", "desktop", "dotenv", "clearOs",
          "clearDesktop", "clearLocal", "clearGlobal"}

(* What a run may give the constants; the module of the run assumes it.    *)
BackendAssumption ==
    /\ Far \notin Near \cup {Home}
    /\ {Cloud, Nowhere} \cap (Near \cup {Home, Far}) = {}
    /\ {Absent, Broken} \cap Route = {}
    /\ CutAt \subseteq Steps
    /\ {MaxRuns, MaxEdits, MaxRefused} \subseteq Nat

VARIABLES
    local,      \* ~/.claude/settings.local.json
    global,     \* ~/.claude/settings.json
    os,         \* the environment of the user, as persisted
    desktop,    \* the entry in Claude Desktop's configuration
    dotenv,     \* .env.local beside the plugin
    fallback,   \* ~/.kumiho/.env.local
    writable,   \* the plugin's directory can be written
    project,    \* what the settings of the project at hand say
    wizard,     \* the run of the wizard
    expect,     \* what a launch may serve, by the choices so far
    ever,       \* what was chosen or named at any time
    torn,       \* a choice is in some of its places and not in others
    refusals, runs, edits

vars == <<local, global, os, desktop, dotenv, fallback, writable, project,
          wizard, expect, ever, torn, refusals, runs, edits>>
files == <<local, global, os, desktop, dotenv, fallback>>
ghosts == <<expect, ever, torn>>

Idle == [at |-> "idle"]

(* The first of the routes that names an endpoint of the set, or Nowhere.  *)
FirstEnd(routes, S) ==
    LET named == {i \in DOMAIN routes : routes[i].end \in S}
    IN  IF named = {} THEN Nowhere
        ELSE routes[CHOOSE i \in named : \A j \in named : i <= j].end

(* What a settings file says to a reader, who passes over a file that is   *)
(* missing or not JSON.                                                    *)
Readable(f) == f \notin {Absent, Broken}
Says(f) == IF Readable(f) THEN f ELSE Nothing

Ours == <<Says(local), Says(global)>>

(***************************************************************************)
(* The launcher.  The mode is first come, first served.  An endpoint of    *)
(* the process, to which the host adds what the project's settings say,    *)
(* counts only on this machine; the user's persisted environment and       *)
(* .env.local fill a gap; and what the user's own settings say replaces    *)
(* all of them.                                                            *)
(***************************************************************************)
DotenvRead ==
    IF dotenv # Absent THEN dotenv
    ELSE IF fallback # Absent THEN fallback ELSE Nothing

Hydrated(process) ==
    [ce |-> process.ce \/ DotenvRead.ce \/ \E i \in {1, 2} : Ours[i].ce,
     end |-> FirstEnd(Ours \o <<process, os, DotenvRead>>, Near)]

Served(process) ==
    LET env == Hydrated(process)
    IN  IF env.end # Nowhere THEN env.end ELSE IF env.ce THEN Home ELSE Cloud

(***************************************************************************)
(* The wizard                                                              *)
(***************************************************************************)
Init ==
    /\ local \in {Absent, Broken, Nothing}
    /\ global \in {Absent, Broken, Nothing}
    /\ os = Nothing /\ dotenv = Absent /\ fallback = Absent
    /\ desktop \in {Absent, Nothing}
    /\ writable \in BOOLEAN
    /\ project = Nothing
    /\ wizard = Idle /\ expect = {Cloud} /\ ever = {Cloud} /\ torn = FALSE
    /\ refusals = 0 /\ runs = 0 /\ edits = 0

(* The environment the wizard keeps: what the project names on this        *)
(* machine, under what the user's settings say.                            *)
WizardEnv ==
    [ce |-> \E i \in {1, 2} : Ours[i].ce,
     end |-> FirstEnd(Ours \o <<project>>, Near)]

(* "--yes" keeps the edition that is configured, on the default endpoint.  *)
ChosenByYes == IF WizardEnv.ce THEN Home ELSE Cloud

Start(want) ==
    /\ wizard = Idle /\ runs < MaxRuns
    /\ runs' = runs + 1
    /\ wizard' = [at |-> IF want = Cloud THEN "auth" ELSE "local", want |-> want,
                  env |-> WizardEnv, was |-> expect, whole |-> TRUE]
    /\ expect' = expect \cup {want} /\ ever' = ever \cup {want}
    /\ UNCHANGED <<files, writable, project, torn, refusals, edits>>

Choose == \E want \in Endpoint \cup {Cloud} : Start(want)
Yes == Start(ChosenByYes)

At(step) == wizard.at = step
Pairs == [ce |-> TRUE, end |-> IF wizard.want = Home THEN Nowhere ELSE wizard.want]

(* The wizard goes on, after a write or with one that was refused.         *)
Goto(step) ==
    /\ wizard' = [wizard EXCEPT !.at = step] /\ UNCHANGED <<torn, refusals>>
Refuse == refusals < MaxRefused /\ refusals' = refusals + 1 /\ torn' = TRUE
PassOver(step) ==
    /\ Refuse /\ wizard' = [wizard EXCEPT !.at = step, !.whole = FALSE]

(* Signing in to Cloud works out, or the wizard ends with nothing changed. *)
SignIn ==
    /\ At("auth") /\ Goto("clearOs")
    /\ UNCHANGED <<files, writable, project, expect, ever, runs, edits>>

SignInFails ==
    /\ At("auth") /\ wizard' = Idle
    /\ expect' = wizard.was
    /\ UNCHANGED <<files, writable, project, ever, torn, refusals, runs, edits>>

(* The pairs go to the first settings file that can be read, and what is   *)
(* stale goes from both, one file after the other.  With none that can be  *)
(* read, settings.json is written anew.  A file whose write is refused is  *)
(* as it was or half-written.                                              *)
Cleaned(f) ==
    IF Readable(f) /\ Pairs.end = Nowhere THEN [f EXCEPT !.end = Nowhere] ELSE f
NewLocal == IF Readable(local) THEN Pairs ELSE local

(* Both were read before either is written: a first file whose write was   *)
(* refused, the only refusal of this run so far, could be read then.       *)
LocalIsTarget == Readable(local) \/ ~wizard.whole
NewGlobal == IF LocalIsTarget THEN Cleaned(global) ELSE Pairs

WriteLocal ==
    /\ At("local")
    /\ \/ local' = NewLocal /\ Goto("global")
       \/ local' \in {local, Broken} /\ NewLocal # local /\ PassOver("global")
    /\ UNCHANGED <<global, os, desktop, dotenv, fallback, writable, project, expect,
                   ever, runs, edits>>

(* Mutant: what is stale stays in the file that is not written.            *)
WriteGlobalTargetOnly ==
    /\ At("global") /\ Goto("os")
    /\ global' = IF LocalIsTarget THEN global ELSE Pairs
    /\ UNCHANGED <<local, os, desktop, dotenv, fallback, writable, project, expect,
                   ever, runs, edits>>

WriteGlobal ==
    /\ At("global")
    /\ \/ global' = NewGlobal /\ Goto("os")
       \/ global' \in {global, Broken} /\ NewGlobal # global /\ PassOver("os")
    /\ UNCHANGED <<local, os, desktop, dotenv, fallback, writable, project, expect,
                   ever, runs, edits>>

(* A key is emptied only if the wizard's environment has it.  The launcher *)
(* asks this place for the endpoint alone, whose write stands for those of *)
(* all keys.                                                               *)
NewOs ==
    [ce |-> TRUE, end |-> IF Pairs.end # Nowhere THEN Pairs.end
                          ELSE IF wizard.env.end # Nowhere THEN Nowhere ELSE os.end]
WriteOs ==
    /\ At("os")
    /\ \/ os' = NewOs /\ Goto("desktop")
       \/ UNCHANGED os /\ NewOs # os /\ PassOver("desktop")
    /\ UNCHANGED <<local, global, desktop, dotenv, fallback, writable, project,
                   expect, ever, runs, edits>>

(* What is stale is removed from the entry first, and the pairs are added  *)
(* then: either write may be refused.                                      *)
NewDesktop == IF desktop = Absent THEN Absent ELSE Pairs
HalfDesktop ==
    IF desktop = Absent \/ Pairs.end # Nowhere THEN {desktop}
    ELSE {desktop, Cleaned(desktop), [desktop EXCEPT !.ce = TRUE]}
WriteDesktop ==
    /\ At("desktop")
    /\ \/ desktop' = NewDesktop /\ Goto("dotenv")
       \/ desktop' \in HalfDesktop /\ NewDesktop # desktop /\ PassOver("dotenv")
    /\ UNCHANGED <<local, global, os, dotenv, fallback, writable, project, expect,
                   ever, runs, edits>>

(* The last place.  A file that could not be written has another one, in   *)
(* ~/.kumiho, stand in for it.  A choice that names its endpoint and went  *)
(* to every place mends what was torn, unless an older file is left that   *)
(* an update of the plugin would bring back.                               *)
WriteDotenv ==
    /\ At("dotenv") /\ wizard' = Idle
    /\ \/ /\ dotenv' = IF writable THEN Pairs ELSE dotenv
          /\ fallback' = IF writable THEN fallback ELSE Pairs
          /\ torn' = (torn /\ ~(/\ wizard.whole /\ wizard.want # Home
                                /\ Absent \in {dotenv', fallback'}))
          /\ UNCHANGED refusals
       \/ /\ Refuse /\ UNCHANGED dotenv
          /\ fallback' = fallback \/ (writable /\ fallback' = Pairs)
    /\ expect' = {wizard.want}
    /\ UNCHANGED <<local, global, os, desktop, writable, project, ever, runs, edits>>

(* Cloud: the marks of the other edition are removed, .env.local excepted. *)
ClearedOs ==
    [ce |-> os.ce /\ ~wizard.env.ce,
     end |-> IF wizard.env.end # Nowhere THEN Nowhere ELSE os.end]
Cleared(f) == IF Readable(f) THEN Nothing ELSE f

ClearOs ==
    /\ At("clearOs")
    /\ \/ os' = ClearedOs /\ Goto("clearDesktop")
       \/ UNCHANGED os /\ ClearedOs # os /\ PassOver("clearDesktop")
    /\ UNCHANGED <<local, global, desktop, dotenv, fallback, writable, project,
                   expect, ever, runs, edits>>

ClearDesktop ==
    /\ At("clearDesktop")
    /\ \/ desktop' = Cleared(desktop) /\ Goto("clearLocal")
       \/ UNCHANGED desktop /\ Cleared(desktop) # desktop /\ PassOver("clearLocal")
    /\ UNCHANGED <<local, global, os, dotenv, fallback, writable, project, expect,
                   ever, runs, edits>>

ClearLocal ==
    /\ At("clearLocal")
    /\ \/ local' = Cleared(local) /\ Goto("clearGlobal")
       \/ local' \in {local, Broken} /\ Cleared(local) # local /\ PassOver("clearGlobal")
    /\ UNCHANGED <<global, os, desktop, dotenv, fallback, writable, project, expect,
                   ever, runs, edits>>

ClearGlobal ==
    /\ At("clearGlobal") /\ wizard' = Idle
    /\ \/ global' = Cleared(global) /\ UNCHANGED <<torn, refusals>>
       \/ global' \in {global, Broken} /\ Cleared(global) # global /\ Refuse
    /\ expect' = {Cloud}
    /\ UNCHANGED <<local, os, desktop, dotenv, fallback, writable, project, ever, runs,
                   edits>>

(* The wizard is interrupted, between the two writes to the entry of       *)
(* Claude Desktop perhaps.  Between the two settings files, or before the  *)
(* persisted environment follows them, that tears the choice.              *)
Tearing == {"global", "os", "clearGlobal"}
Cancel ==
    /\ wizard.at \in CutAt /\ wizard' = Idle
    /\ torn' = (torn \/ wizard.at \in Tearing)
    /\ desktop' = desktop \/ (At("desktop") /\ desktop' = Cleaned(desktop))
    /\ UNCHANGED <<local, global, os, dotenv, fallback, writable, project, expect,
                   ever, refusals, runs, edits>>

(***************************************************************************)
(* The rest of the machine                                                 *)
(***************************************************************************)
Edit == At("idle") /\ edits < MaxEdits /\ edits' = edits + 1

(* The user begins a settings.local.json, which comes before the other.    *)
AddLocal ==
    /\ Edit /\ local = Absent /\ local' = Nothing
    /\ UNCHANGED <<global, os, desktop, dotenv, fallback, writable, project, wizard,
                   ghosts, refusals, runs>>

(* The user names an endpoint by hand.                                     *)
NameEndpoint(e) ==
    /\ Edit /\ Readable(global)
    /\ global' = [global EXCEPT !.end = e]
    /\ expect' = expect \cup {e} /\ ever' = ever \cup {e}
    /\ UNCHANGED <<local, os, desktop, dotenv, fallback, writable, project, wizard,
                   torn, refusals, runs>>

(* An update of the plugin comes in a directory of its own.  If that can   *)
(* be written and the one before could not, the file in ~/.kumiho is left  *)
(* behind, for the next update to bring back.                              *)
UpdatePlugin ==
    /\ Edit /\ dotenv' = Absent /\ writable' \in BOOLEAN
    /\ torn' = (torn \/ (writable' /\ fallback # Absent))
    /\ UNCHANGED <<local, global, os, desktop, fallback, project, wizard, expect, ever,
                   refusals, runs>>

OpenProject(r) ==
    /\ Edit /\ project' = r
    /\ UNCHANGED <<files, writable, wizard, ghosts, refusals, runs>>

(* A launch of the server adds the entry Claude Desktop lacks.             *)
AddDesktopEntry ==
    /\ Edit /\ desktop = Absent /\ desktop' = Nothing
    /\ UNCHANGED <<local, global, os, dotenv, fallback, writable, project, wizard,
                   ghosts, refusals, runs>>

Next ==
    \/ Choose \/ Yes \/ SignIn \/ SignInFails
    \/ WriteLocal \/ WriteGlobal \/ WriteOs \/ WriteDesktop \/ WriteDotenv
    \/ ClearOs \/ ClearDesktop \/ ClearLocal \/ ClearGlobal \/ Cancel
    \/ AddLocal \/ UpdatePlugin \/ AddDesktopEntry
    \/ \E e \in Near : NameEndpoint(e)
    \/ \E r \in ProjectRoute : OpenProject(r)

Spec == Init /\ [][Next]_vars

TypeOK ==
    /\ local \in Route \cup {Absent, Broken} /\ global \in Route \cup {Absent, Broken}
    /\ os \in Route /\ desktop \in Route \cup {Absent}
    /\ dotenv \in Route \cup {Absent} /\ fallback \in Route \cup {Absent}
    /\ writable \in BOOLEAN /\ project \in ProjectRoute
    /\ \/ wizard = Idle
       \/ wizard \in [at : Steps,
                      want : Endpoint \cup {Cloud}, env : Route,
                      was : SUBSET Outcome, whole : BOOLEAN]
    /\ expect \subseteq Outcome /\ ever \subseteq Outcome /\ torn \in BOOLEAN
    /\ refusals \in 0 .. MaxRefused /\ runs \in 0 .. MaxRuns /\ edits \in 0 .. MaxEdits

(* A session of Claude Code in no particular project, and the server       *)
(* Claude Desktop starts from its entry.                                   *)
Hosts == {Nothing} \cup (IF desktop = Absent THEN {} ELSE {desktop})

(* The marks the switch to Cloud leaves in .env.local.                     *)
LeftInDotenv == Cloud \in expect /\ DotenvRead # Nothing

(* Of the two settings files one is written and the other is not.          *)
BetweenFiles == wizard.at \in {"global", "clearGlobal"}

(* A launch serves what the last onboarding that came to its end chose,    *)
(* or what an onboarding that was cut short or the user's hand has begun   *)
(* to put in its place since: through updates of the plugin, a new         *)
(* settings.local.json, a settings file that cannot be read and a plugin   *)
(* directory that cannot be written.  It is otherwise, and an older choice *)
(* may be served, between the writes of the two settings files, and once a *)
(* choice is torn: by an interruption there or before the persisted        *)
(* environment is written, by a write that the system refused and the      *)
(* wizard passed over, or by an update that leaves a file behind.  A       *)
(* choice that names its endpoint and reaches every place mends that.      *)
(* Torn or not, no mixture is served: it was chosen or named at some time. *)
(* The marks that are left in .env.local are set apart here:               *)
(* SwitchIsComplete is about them.                                         *)
SelectionIsServed ==
    \A process \in Hosts :
        /\ torn \/ BetweenFiles \/ LeftInDotenv \/ Served(process) \in expect
        /\ Served(process) \in ever

(* After a switch to Cloud, Cloud is served: the wizard removes the marks  *)
(* of the other edition so that they cannot override the choice (setup.py, *)
(* _neutralize_env_markers, and the comment on _CE_PERSISTED_ENV_KEYS).    *)
SwitchIsComplete == expect = {Cloud} => Served(Nothing) = Cloud
=============================================================================
