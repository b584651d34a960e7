----------------------------- MODULE GptGateway -----------------------------
(***************************************************************************)
(* The authorization server of the ChatGPT connector (gateway/oauth.py),   *)
(* with the start of the gateway (serve.py) and rotate-pin (cli.py).       *)
(*                                                                         *)
(* The handlers share one event loop and await only the form of their      *)
(* request, so each is a step.  The exception is the approval of a client, *)
(* which writes two files: the gateway may be killed between them, or      *)
(* within one, and rotate-pin is another process.  Codes and refresh       *)
(* tokens live in memory; the clients and the PIN in a file each.  A reply *)
(* may be lost on its way, and the client asks again with what it has.     *)
(***************************************************************************)
EXTENDS Naturals, Sequences, FiniteSets, SequencesExt

CONSTANTS
    Clients,        \* the registrations that ChatGPT makes
    NoClient,
    ClientCap,      \* CLIENT_CAP
    RefreshCap,     \* REFRESH_CAP
    FailLimit,      \* LOCKOUT_THRESHOLD
    MaxPins,        \* bound: PINs that are minted
    MaxGrants,      \* bound: codes and tokens that are issued
    MaxCrashes      \* bound: times the gateway is killed

(* What a run may give the constants; the module of the run assumes it.    *)
GatewayAssumption ==
    /\ NoClient \notin Clients
    /\ {ClientCap, RefreshCap, FailLimit, MaxPins} \subseteq Nat \ {0}
    /\ {MaxGrants, MaxCrashes} \subseteq Nat

VARIABLES
    phase,          \* of serve(): down, starting, up, approving
    bookFile,       \* oauth_clients.json: the clients by age
    book,           \* OAuthServer._clients
    pinFile,        \* the PIN in config.json, 0 is none
    pin,            \* the PIN in the gateway's copy of the settings
    codes,          \* OAuthServer._codes: the live ones
    refresh,        \* OAuthServer._refresh: the live ones, older are smaller
    fails,          \* OAuthServer._lock: wrong PINs, FailLimit is locked out
    consent,        \* the client whose approval is being written
    hand,           \* the code or token that each client holds, 0 is none
    pins, grants, kills,    \* numbers minted, issued, killed so far
    usedBy,         \* ghost: the clients that a PIN has approved
    cutShort,       \* ghost: PINs whose approval was cut by a kill
    torn,           \* ghost: a kill has cut a write of the clients' file
    redeemed        \* ghost: the codes and tokens that were redeemed

files == <<bookFile, pinFile>>
memory == <<book, pin, codes, refresh, fails, consent>>
ghosts == <<usedBy, cutShort, torn, redeemed>>
vars == <<phase, files, memory, hand, pins, grants, kills, ghosts>>

Approved(list, c) == \E i \in DOMAIN list : list[i] = [id |-> c, approved |-> TRUE]
Registered(c) == \E i \in DOMAIN book : book[i].id = c
Live == codes \cup refresh

-----------------------------------------------------------------------------
(* The installer has minted the first PIN.                                 *)
Init ==
    /\ phase = "down" /\ bookFile = <<>> /\ book = <<>> /\ pinFile = 1 /\ pin = 0
    /\ codes = {} /\ refresh = {} /\ fails = [c \in Clients |-> 0]
    /\ consent = NoClient /\ hand = [c \in Clients |-> 0]
    /\ pins = 1 /\ grants = 0 /\ kills = 0
    /\ usedBy = [p \in 1..MaxPins |-> {}] /\ cutShort = {} /\ torn = FALSE
    /\ redeemed = {}

(* serve(): the settings are read, a PIN is minted where there is none.    *)
Serve ==
    /\ phase = "down" /\ phase' = "starting"
    /\ \/ pinFile # 0 /\ pin' = pinFile /\ UNCHANGED <<pinFile, pins>>
       \/ /\ pinFile = 0 /\ pins < MaxPins
          /\ pins' = pins + 1 /\ pin' = pins' /\ pinFile' = pins'
    /\ UNCHANGED <<bookFile, book, codes, refresh, fails, consent, hand, grants, kills,
                   ghosts>>

(* The tunnel is up: its address is saved, with all the other settings as  *)
(* they were read, and the server starts with the clients of the file.     *)
TunnelUp ==
    /\ phase = "starting" /\ phase' = "up"
    /\ pinFile' = pin /\ book' = bookFile
    /\ codes' = {} /\ refresh' = {} /\ fails' = [c \in Clients |-> 0]
    /\ consent' = NoClient
    /\ UNCHANGED <<bookFile, pin, hand, pins, grants, kills, ghosts>>

(* The gateway is killed.  A file that it was writing is unreadable, which *)
(* reads as one without clients or without a PIN.                          *)
Crash ==
    /\ phase # "down" /\ kills < MaxCrashes
    /\ kills' = kills + 1 /\ phase' = "down"
    /\ \/ UNCHANGED <<files, torn>>
       \/ phase = "up" /\ bookFile' = <<>> /\ torn' = TRUE /\ UNCHANGED pinFile
       \/ phase \in {"starting", "approving"} /\ pinFile' = 0 /\ UNCHANGED <<bookFile, torn>>
    /\ cutShort' = IF phase = "approving" THEN cutShort \cup {pin} ELSE cutShort
    /\ UNCHANGED <<memory, hand, pins, grants, usedBy, redeemed>>

(* rotate-pin, in a process of its own.                                    *)
RotatePin ==
    /\ pins < MaxPins
    /\ pins' = pins + 1 /\ pinFile' = pins'
    /\ UNCHANGED <<phase, bookFile, memory, hand, grants, kills, ghosts>>

(* register(): the oldest client that is not approved makes room; without  *)
(* one the request is refused.                                             *)
Register(c) ==
    /\ phase = "up" /\ ~Registered(c)
    /\ \/ Len(book) < ClientCap /\ book' = Append(book, [id |-> c, approved |-> FALSE])
       \/ /\ Len(book) >= ClientCap
          /\ \E i \in DOMAIN book :
              /\ ~book[i].approved /\ \A j \in 1..i - 1 : book[j].approved
              /\ book' = Append(RemoveAt(book, i), [id |-> c, approved |-> FALSE])
    /\ bookFile' = book'
    /\ UNCHANGED <<phase, pinFile, pin, codes, refresh, fails, consent, hand, pins,
                   grants, kills, ghosts>>

(* _issue_code(): the client is sent back with a code.  One that never     *)
(* gets there asks for another, and the code expires.                      *)
IssueCode(c) ==
    /\ grants < MaxGrants
    /\ grants' = grants + 1
    /\ codes' = codes \cup {grants'}
    /\ hand' = [hand EXCEPT ![c] = grants']

(* authorize(): a client that is approved needs no PIN.                    *)
Authorize(c) ==
    /\ phase = "up" /\ Approved(book, c)
    /\ IssueCode(c)
    /\ UNCHANGED <<phase, files, book, pin, refresh, fails, consent, pins, kills, ghosts>>

(* authorize(): any other PIN is counted, per client.                      *)
WrongPin(c) ==
    /\ phase = "up" /\ Registered(c) /\ ~Approved(book, c) /\ fails[c] < FailLimit
    /\ fails' = [fails EXCEPT ![c] = @ + 1]
    /\ UNCHANGED <<phase, files, book, pin, codes, refresh, consent, hand, pins, grants,
                   kills, ghosts>>

LockoutEnds(c) ==
    /\ phase = "up" /\ fails[c] = FailLimit
    /\ fails' = [fails EXCEPT ![c] = 0]
    /\ UNCHANGED <<phase, files, book, pin, codes, refresh, consent, hand, pins, grants,
                   kills, ghosts>>

(* authorize(): the PIN approves the client, and the clients are written.  *)
EnterPin(c) ==
    /\ phase = "up" /\ Registered(c) /\ ~Approved(book, c) /\ fails[c] < FailLimit
    /\ pin # 0
    /\ book' = [i \in DOMAIN book |->
                   IF book[i].id = c THEN [book[i] EXCEPT !.approved = TRUE] ELSE book[i]]
    /\ bookFile' = book' /\ fails' = [fails EXCEPT ![c] = 0]
    /\ usedBy' = [usedBy EXCEPT ![pin] = @ \cup {c}]
    /\ phase' = "approving" /\ consent' = c
    /\ UNCHANGED <<pinFile, pin, codes, refresh, hand, pins, grants, kills, cutShort,
                   torn, redeemed>>

(* Mutant: the PIN is cleared in memory only.                              *)
ForgetPin ==
    /\ phase = "approving" /\ phase' = "up"
    /\ pin' = 0 /\ consent' = NoClient
    /\ IssueCode(consent)
    /\ UNCHANGED <<files, book, refresh, fails, pins, kills, ghosts>>

(* ... then the PIN is cleared, the settings are written, whoever changed  *)
(* them meanwhile, and the client gets its code.                           *)
ConsumePin ==
    /\ phase = "approving" /\ phase' = "up"
    /\ pin' = 0 /\ pinFile' = 0 /\ consent' = NoClient
    /\ IssueCode(consent)
    /\ UNCHANGED <<bookFile, book, refresh, fails, pins, kills, ghosts>>

Oldest(tokens) == {g \in tokens : \A h \in tokens : g <= h}

(* _issue(): the oldest refresh token makes room for a new one, and the    *)
(* reply may be lost.                                                      *)
IssueToken(c, left) ==
    /\ grants < MaxGrants
    /\ grants' = grants + 1
    /\ refresh' = {grants'} \cup
                    (IF Cardinality(left) < RefreshCap THEN left ELSE left \ Oldest(left))
    /\ hand' \in {hand, [hand EXCEPT ![c] = grants']}

(* Mutant: the code that is presented stays valid.                         *)
RedeemAndKeep(c) ==
    /\ phase = "up" /\ hand[c] \in Live
    /\ redeemed' = redeemed \cup {hand[c]}
    /\ IssueToken(c, refresh \ {hand[c]})
    /\ UNCHANGED <<phase, files, book, pin, codes, fails, consent, pins, kills, usedBy,
                   cutShort, torn>>

(* token(): a code or a refresh token is taken and a new token issued.  A  *)
(* client whose reply was lost presents it again: see Refused.             *)
Redeem(c) ==
    /\ phase = "up" /\ hand[c] \in Live
    /\ redeemed' = redeemed \cup {hand[c]} /\ codes' = codes \ {hand[c]}
    /\ IssueToken(c, refresh \ {hand[c]})
    /\ UNCHANGED <<phase, files, book, pin, fails, consent, pins, kills, usedBy, cutShort,
                   torn>>

(* token(): a code whose client, address or verifier is not the one it was *)
(* issued for is taken all the same.                                       *)
Mismatch(g) ==
    /\ phase = "up" /\ g \in codes
    /\ codes' = codes \ {g}
    /\ UNCHANGED <<phase, files, book, pin, refresh, fails, consent, hand, pins, grants,
                   kills, ghosts>>

(* token(): not a live one, and the client starts over with authorize().   *)
Refused(c) ==
    /\ phase = "up" /\ hand[c] \notin Live \cup {0}
    /\ hand' = [hand EXCEPT ![c] = 0]
    /\ UNCHANGED <<phase, files, memory, pins, grants, kills, ghosts>>

(* _prune(): what has expired is forgotten, the tokens from the oldest on. *)
Prune ==
    /\ phase = "up"
    /\ \/ \E g \in codes : codes' = codes \ {g} /\ UNCHANGED refresh
       \/ refresh # {} /\ refresh' = refresh \ Oldest(refresh) /\ UNCHANGED codes
    /\ UNCHANGED <<phase, files, book, pin, fails, consent, hand, pins, grants, kills,
                   ghosts>>

Next ==
    \/ Serve \/ TunnelUp \/ Crash \/ RotatePin \/ ConsumePin \/ Prune
    \/ \E c \in Clients :
        \/ Register(c) \/ Authorize(c) \/ WrongPin(c) \/ LockoutEnds(c) \/ EnterPin(c)
        \/ Redeem(c) \/ Refused(c)
    \/ \E g \in codes : Mismatch(g)

Spec == Init /\ [][Next]_vars

-----------------------------------------------------------------------------
Books == UNION {[1..n -> [id : Clients, approved : BOOLEAN]] : n \in 0..ClientCap}
TypeOK ==
    /\ phase \in {"down", "starting", "up", "approving"}
    /\ {bookFile, book} \subseteq Books
    /\ {pinFile, pin} \subseteq 0..MaxPins /\ pins \in 1..MaxPins
    /\ grants \in 0..MaxGrants /\ codes \subseteq 1..grants
    /\ refresh \subseteq 1..grants /\ Cardinality(refresh) <= RefreshCap
    /\ fails \in [Clients -> 0..FailLimit] /\ consent \in Clients \cup {NoClient}
    /\ hand \in [Clients -> 0..grants] /\ kills \in 0..MaxCrashes
    /\ usedBy \in [1..MaxPins -> SUBSET Clients] /\ cutShort \subseteq 1..MaxPins
    /\ torn \in BOOLEAN /\ redeemed \subseteq 1..grants

(* "The PIN is genuinely one-time: entering it approves that client and    *)
(* then clears the PIN.  The approved client is persisted" (oauth.py).     *)
(* Those approved are the ones a PIN was entered for, in the file and in   *)
(* memory, whoever registers or rotates meanwhile, and each paid with a    *)
(* PIN of its own.  Two kills excuse: one within a write of the clients'   *)
(* file, which forgets them, and one between the writes of an approval,    *)
(* which leaves its PIN valid for another client.                          *)
ConsentIsExact ==
    LET paid == UNION {usedBy[p] : p \in 1..MaxPins}
        approved(list) == {c \in Clients : Approved(list, c)}
    IN /\ torn \/ approved(bookFile) = paid
       /\ phase \in {"up", "approving"} => approved(book) = approved(bookFile)
       /\ \A p \in 1..MaxPins \ cutShort : Cardinality(usedBy[p]) <= 1

(* "Auth codes are client-bound and single-use; refresh tokens are rotated *)
(* (single-use)": what was redeemed once is worth nothing, whichever reply *)
(* was lost and whatever made room or expired.                             *)
GrantUsedOnce == redeemed \cap Live = {}
=============================================================================
