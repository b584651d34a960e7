---------------------------- MODULE CodexBackend ----------------------------
(***************************************************************************)
(* Which backend Codex serves: the onboarding (onboard_kumiho.py) decides  *)
(* between Kumiho Cloud and a self-hosted server (CE) and writes           *)
(* ~/.kumiho/codex.json; each launch (run_kumiho_mcp.py) reads it and, if  *)
(* it cannot make sense of it, refuses to start.  A run of the onboarding  *)
(* looks at the file at its beginning and writes it minutes later, after   *)
(* provisioning and a sign-in.                                             *)
(***************************************************************************)
EXTENDS Integers

CONSTANTS
    Onboards,   \* runs of the onboarding that may overlap
    Default,    \* the default endpoint of a self-hosted server
    Other,      \* other endpoints
    Cloud,      \* Kumiho Cloud
    Missing,    \* no codex.json; no dedicated variables
    Broken,     \* a codex.json that is not JSON or not of this schema
    Unasked,       \* an onboarding that is asked for no backend
    AnyCe,      \* one that is asked for a self-hosted server, at no endpoint
    MaxRuns,    \* bound: runs of the onboarding
    MaxChanges  \* bound: changes to the world around it

Ends == Other \cup {Default}

ASSUME CodexAssumption ==
    /\ {Cloud, Missing, Broken, Unasked, AnyCe} \cap Ends = {}
    /\ Cloud \notin {Missing, Broken, Unasked, AnyCe} /\ Missing # Broken /\ Unasked # AnyCe
    /\ MaxRuns \in Nat /\ MaxChanges \in Nat

VARIABLES
    codexJson,  \* what codex.json says
    dedicated,  \* the variables a manual registration gives the server
    signedIn,   \* the SDK holds a credential that works
    answering,  \* a self-hosted server answers at the default endpoint
    onboard,    \* the runs of the onboarding
    explicit,   \* the last choice that was asked for and written
    tries, changes

codexVars == <<codexJson, dedicated, signedIn, answering, onboard, explicit, tries,
               changes>>

Idle == [at |-> "idle"]

Init ==
    /\ codexJson = Missing /\ dedicated = Missing
    /\ signedIn \in BOOLEAN /\ answering \in BOOLEAN
    /\ onboard = [o \in Onboards |-> Idle]
    /\ explicit = Missing /\ tries = 0 /\ changes = 0

(* The backend a launch serves; Missing when it refuses to start.          *)
Served ==
    CASE codexJson = Broken -> Missing
      [] codexJson = Missing -> IF dedicated = Missing THEN Cloud ELSE dedicated
      [] OTHER -> codexJson

(***************************************************************************)
(* The onboarding                                                          *)
(***************************************************************************)
At(o, step) == onboard[o].at = step
Goto(o, step) == onboard' = [onboard EXCEPT ![o].at = step]
Leave(o) == onboard' = [onboard EXCEPT ![o] = Idle]

(* The runtime is provisioned first, whatever codex.json says.             *)
Begin(o) == \E asked \in {Unasked, AnyCe, Cloud} \cup Other :
    /\ At(o, "idle") /\ tries < MaxRuns
    /\ tries' = tries + 1
    /\ onboard' = [onboard EXCEPT ![o] = [at |-> "look", asked |-> asked,
                                          found |-> Missing, target |-> Cloud]]
    /\ UNCHANGED <<codexJson, dedicated, signedIn, answering, explicit, changes>>

(* Mutant: a file that makes no sense is no file to any run.               *)
LookOrForget(o) ==
    /\ At(o, "look")
    /\ onboard' = [onboard EXCEPT
           ![o].at = "resolve",
           ![o].found = IF codexJson = Broken THEN Missing ELSE codexJson]
    /\ UNCHANGED <<codexJson, dedicated, signedIn, answering, explicit, tries, changes>>

(* A file that makes no sense stops a run that is asked for no backend.    *)
Look(o) ==
    /\ At(o, "look")
    /\ \/ /\ codexJson = Broken /\ onboard[o].asked = Unasked
          /\ Leave(o)
       \/ /\ codexJson # Broken \/ onboard[o].asked # Unasked
          /\ onboard' = [onboard EXCEPT
                 ![o].at = "resolve",
                 ![o].found = IF codexJson = Broken THEN Missing ELSE codexJson]
    /\ UNCHANGED <<codexJson, dedicated, signedIn, answering, explicit, tries, changes>>

(* What was asked for; else what the file said; else the backend that      *)
(* answers, Cloud first.                                                   *)
Target(r) ==
    IF r.asked \in Other \cup {Cloud} THEN r.asked
    ELSE IF r.found \in Ends THEN r.found
    ELSE IF r.asked = AnyCe THEN Default
    ELSE IF r.found = Missing /\ ~signedIn /\ answering THEN Default
    ELSE Cloud

Resolve(o) ==
    /\ At(o, "resolve")
    /\ onboard' = [onboard EXCEPT
           ![o].target = Target(onboard[o]),
           ![o].at = IF Target(onboard[o]) = Cloud THEN "signIn" ELSE "write"]
    /\ UNCHANGED <<codexJson, dedicated, signedIn, answering, explicit, tries, changes>>

(* The credential that is there works, or the user signs in.               *)
SignIn(o) ==
    /\ At(o, "signIn") /\ Goto(o, "write")
    /\ signedIn' = TRUE
    /\ UNCHANGED <<codexJson, dedicated, answering, explicit, tries, changes>>

(* No sign-in, no file: the onboarding ends and the choice stays.          *)
SignInFails(o) ==
    /\ At(o, "signIn") /\ Leave(o)
    /\ UNCHANGED <<codexJson, dedicated, signedIn, answering, explicit, tries, changes>>

(* The file is replaced as a whole.  Ingestion and the checks come after   *)
(* it, and what is written is kept if they fail.                           *)
Write(o) ==
    /\ At(o, "write") /\ Leave(o)
    /\ codexJson' = onboard[o].target
    /\ explicit' = IF onboard[o].asked = Unasked THEN explicit ELSE onboard[o].target
    /\ UNCHANGED <<dedicated, signedIn, answering, tries, changes>>

(* The run is killed, its provisioning fails or times out.                 *)
Kill(o) ==
    /\ ~At(o, "idle") /\ Leave(o)
    /\ UNCHANGED <<codexJson, dedicated, signedIn, answering, explicit, tries, changes>>

(***************************************************************************)
(* The world around it                                                     *)
(***************************************************************************)
Change == changes < MaxChanges /\ changes' = changes + 1

Spoil ==
    /\ Change /\ codexJson \notin {Missing, Broken} /\ codexJson' = Broken
    /\ UNCHANGED <<dedicated, signedIn, answering, onboard, explicit, tries>>

(* The user takes the file away, and with it the choice.                   *)
Remove ==
    /\ Change /\ codexJson # Missing /\ codexJson' = Missing
    /\ explicit' = Missing
    /\ UNCHANGED <<dedicated, signedIn, answering, onboard, tries>>

(* setup_codex.py registers the server with variables of its own.          *)
Register(backend) ==
    /\ Change /\ dedicated = Missing /\ dedicated' = backend
    /\ UNCHANGED <<codexJson, signedIn, answering, onboard, explicit, tries>>

CredentialEnds ==
    /\ Change /\ signedIn /\ signedIn' = FALSE
    /\ UNCHANGED <<codexJson, dedicated, answering, onboard, explicit, tries>>

ServerChanges ==
    /\ Change /\ answering' = ~answering
    /\ UNCHANGED <<codexJson, dedicated, signedIn, onboard, explicit, tries>>

Next ==
    \/ \E o \in Onboards : Begin(o) \/ Look(o) \/ Resolve(o) \/ SignIn(o)
                           \/ SignInFails(o) \/ Write(o) \/ Kill(o)
    \/ Spoil \/ Remove \/ CredentialEnds \/ ServerChanges
    \/ \E backend \in Ends \cup {Cloud} : Register(backend)

Spec == Init /\ [][Next]_codexVars

TypeOK ==
    /\ codexJson \in Ends \cup {Cloud, Missing, Broken}
    /\ dedicated \in Ends \cup {Cloud, Missing}
    /\ signedIn \in BOOLEAN /\ answering \in BOOLEAN
    /\ onboard \in [Onboards -> {Idle} \cup
           [at : {"look", "resolve", "signIn", "write"},
            asked : Ends \cup {Unasked, AnyCe, Cloud},
            found : Ends \cup {Cloud, Missing}, target : Ends \cup {Cloud}]]
    /\ explicit \in Ends \cup {Cloud, Missing}
    /\ tries \in 0 .. MaxRuns /\ changes \in 0 .. MaxChanges

(* A backend that was asked for is served until another one is asked for,  *)
(* or nothing is: an onboarding that decides by itself, a credential that  *)
(* runs out and a file that is spoilt never turn an explicit choice of CE  *)
(* into Cloud, nor one endpoint into another (onboard_kumiho.py, main;     *)
(* run_kumiho_mcp.py, _fail_closed_backend).                               *)
ExplicitIsServed ==
    explicit # Missing => Served \in {explicit, Missing}
=============================================================================
