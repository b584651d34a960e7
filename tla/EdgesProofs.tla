---------------------------- MODULE EdgesProofs ----------------------------
(***************************************************************************)
(* Proofs about the run MCEdges: the ledger of a backfill (Backfill), the  *)
(* gateway of the ChatGPT connector (GptGateway), the writes of the n8n    *)
(* nodes (N8nWrite), the saves of the ComfyUI nodes (ComfyNodes), the      *)
(* trigger of n8n (N8nTrigger), and the transcript that a backfill and the *)
(* end of a session read (Transcript, SessionEnd).  Each has an inductive  *)
(* invariant of its own, and every step of the run is a step of each       *)
(* component or leaves its variables alone (EachMoves, TriggerMoves,       *)
(* TranscriptMoves).                                                       *)
(***************************************************************************)
EXTENDS MCEdges, FiniteSetTheorems, SequenceTheorems, WellFoundedInduction, TLAPS

(* What the components may take for granted.                               *)
LEMMA Assumed ==
    /\ Ledger!BackfillBounds /\ Gateway!GatewayAssumption /\ Writes!WriteAssumption
    /\ Assets!ComfyAssumption
BY EdgesAssumption DEF EdgesAssumption

(***************************************************************************)
(* The writes of the n8n nodes                                             *)
(***************************************************************************)

(* What the service has done, the keys it has seen and what the node was    *)
(* told agree: a key stands for one request, that of the first item which   *)
(* makes it, a success or a conflict for something that is there.           *)
WriteInv ==
    /\ kind \in [Writes!Items -> Writes!Kinds] /\ item \in Writes!Items /\ attempt \in Nat
    /\ like \in [Writes!Items -> Writes!Items]
    /\ \A i \in Writes!Items : like[like[i]] = like[i] /\ kind[like[i]] = kind[i]
    /\ done \in [Writes!Items -> {0, 1}]
    /\ out \in [Writes!Items -> {"none", "ok", "error"}]
    /\ \A i \in Writes!Items : kind[i] # "project" => (done[i] = 1 <=> <<i, 1>> \in seen)
    /\ \A i \in Writes!Items : i \in there => kind[i] \in Writes!Unique
    /\ \A i \in Writes!Items : done[i] = 1 => i \notin there
    /\ Writes!NoKey \notin seen
    /\ answer \in {"ok", "conflict"} => Writes!Exists(item)
    /\ \A i \in Writes!Items : out[i] = "ok" => Writes!Exists(i)

(* Nothing was sent yet.                                                   *)
LEMMA WriteInit == Writes!Init => WriteInv
BY Assumed DEF Writes!WriteAssumption, Writes!Init, WriteInv, Writes!Items

(* Only the creation of a project carries no key.                          *)
LEMMA KeysAre ==
    ASSUME NEW i \in Writes!Items
    PROVE  /\ kind[i] = "project" => Writes!Key(i) = Writes!NoKey
           /\ kind[i] # "project" => Writes!Key(i) = <<like[i], 1>>
           /\ <<i, 1>> # Writes!NoKey
BY DEF Writes!Key, Writes!NoKey, Writes!Items

(* A request that the service carries out was not carried out before.      *)
LEMMA DoesKeeps ==
    ASSUME WriteInv, Writes!Does(item), UNCHANGED <<kind, like, there>>
    PROVE  /\ done' \in [Writes!Items -> {0, 1}] /\ done' = [done EXCEPT ![like[item]] = 1]
           /\ \A i \in Writes!Items : kind[i] # "project" => (done'[i] = 1 <=>
                  <<i, 1>> \in seen')
           /\ \A i \in Writes!Items : done'[i] = 1 => i \notin there
           /\ Writes!NoKey \notin seen'
<1> DEFINE first == like[item]
<1>1. /\ item \in Writes!Items /\ first \in Writes!Items /\ done[first] \in {0, 1}
      /\ kind[first] = kind[item] /\ like[first] = first /\ Writes!IsNew(item)
      /\ kind[item] \in Writes!Kinds
  BY DEF WriteInv, Writes!Does
<1>2. done[first] = 0 /\ first \notin there
  <2>1. CASE kind[item] \in Writes!Unique
    BY <1>1, <2>1 DEF Writes!IsNew, Writes!Exists
  <2>2. CASE kind[item] \notin Writes!Unique
    <3>1. kind[item] # "project"
      BY <2>2 DEF Writes!Unique, Writes!Kinds
    <3>2. <<first, 1>> \notin seen
      BY <1>1, <3>1, KeysAre DEF Writes!IsNew
    <3> QED
      BY <1>1, <2>2, <3>1, <3>2 DEF WriteInv
  <2> QED
    BY <2>1, <2>2
<1>3. done' = [done EXCEPT ![first] = 1]
  BY <1>2 DEF Writes!Does
<1>4. \A i \in Writes!Items : kind[i] # "project" => (done'[i] = 1 <=> <<i, 1>> \in seen')
  <2> SUFFICES ASSUME NEW i \in Writes!Items, kind[i] # "project"
               PROVE  done'[i] = 1 <=> <<i, 1>> \in seen'
    OBVIOUS
  <2>1. CASE kind[item] = "project"
    <3>1. i # first /\ seen' = seen
      BY <1>1, <2>1, KeysAre DEF Writes!Does
    <3> QED
      BY <1>3, <3>1 DEF WriteInv
  <2>2. CASE kind[item] # "project"
    <3>1. seen' = seen \cup {<<first, 1>>}
      BY <1>1, <2>2, KeysAre DEF Writes!Does
    <3>2. CASE i = first
      BY <1>1, <1>3, <3>1, <3>2 DEF WriteInv
    <3>3. CASE i # first
      BY <1>1, <1>3, <3>1, <3>3 DEF WriteInv
    <3> QED
      BY <3>2, <3>3
  <2> QED
    BY <2>1, <2>2
<1>5. Writes!NoKey \notin seen'
  BY <1>1, KeysAre DEF Writes!Does, WriteInv
<1>6. \A i \in Writes!Items : done'[i] = 1 => i \notin there
  BY <1>1, <1>2, <1>3 DEF WriteInv
<1> QED
  BY <1>1, <1>3, <1>4, <1>5, <1>6 DEF WriteInv

(* A request reaches the service, or is lost on the way.                   *)
LEMMA WriteSent == ASSUME WriteInv, Writes!Send PROVE WriteInv'
<1>1. UNCHANGED <<kind, like, there, item, attempt, out>>
  BY DEF Writes!Send
<1>2. CASE Writes!Does(item)
  <2>1. /\ done' \in [Writes!Items -> {0, 1}] /\ done' = [done EXCEPT ![like[item]] = 1]
        /\ \A i \in Writes!Items : kind[i] # "project" => (done'[i] = 1 <=>
               <<i, 1>> \in seen')
        /\ \A i \in Writes!Items : done'[i] = 1 => i \notin there
        /\ Writes!NoKey \notin seen'
    BY <1>1, <1>2, DoesKeeps
  <2>2. item \in Writes!Items /\ like[item] \in Writes!Items
    BY DEF WriteInv
  <2>3. /\ Writes!Exists(item)'
        /\ \A i \in Writes!Items : Writes!Exists(i) => Writes!Exists(i)'
    BY <1>1, <2>1, <2>2 DEF Writes!Exists, WriteInv
  <2> QED
    BY <1>1, <2>1, <2>3 DEF WriteInv
<1>3. CASE ~Writes!Does(item) /\ UNCHANGED <<done, seen>>
  <2>1. answer' \in {"ok", "conflict"} => Writes!Exists(item)
    <3>1. item \in Writes!Items /\ like[item] \in Writes!Items /\ kind[like[item]] = kind[item]
      BY DEF WriteInv
    <3>2. CASE Writes!Key(item) \in seen
      <4>1. kind[item] # "project"
        BY <3>1, <3>2, KeysAre DEF WriteInv
      <4>2. done[like[item]] = 1
        BY <3>1, <3>2, <4>1, KeysAre DEF WriteInv
      <4> QED
        BY <4>2 DEF Writes!Exists
    <3>3. CASE Writes!Key(item) \notin seen
      BY <1>3, <3>1, <3>3 DEF Writes!Send, Writes!Handles, Writes!Transient,
         Writes!IsNew, Writes!Does
    <3> QED
      BY <3>2, <3>3
  <2> QED
    BY <1>1, <1>3, <2>1 DEF WriteInv, Writes!Exists
<1> QED
  BY <1>2, <1>3 DEF Writes!Send, Writes!Handles

(* The node reports how a write went.                                      *)
LEMMA WriteReported ==
    ASSUME WriteInv, NEW what \in {"ok", "error"}, Writes!Reports(what), what = "ok" =>
           Writes!Exists(item)
    PROVE  WriteInv'
<1>1. /\ UNCHANGED <<kind, like, there, done, seen>> /\ out' = [out EXCEPT ![item] = what]
      /\ \/ item' = item + 1 /\ item < MaxWrites /\ attempt' = 1 /\ answer' = "none"
         \/ UNCHANGED <<item, attempt, answer>>
  BY DEF Writes!Reports
<1>2. item' \in Writes!Items /\ attempt' \in Nat
  BY <1>1, Assumed DEF WriteInv, Writes!Items, Writes!WriteAssumption
<1>3. /\ (answer' \in {"ok", "conflict"} => Writes!Exists(item)')
      /\ \A i \in Writes!Items : Writes!Exists(i)' <=> Writes!Exists(i)
  BY <1>1 DEF WriteInv, Writes!Exists
<1>4. /\ out' \in [Writes!Items -> {"none", "ok", "error"}]
      /\ \A i \in Writes!Items : out'[i] = "ok" => Writes!Exists(i)'
  BY <1>1, <1>3 DEF WriteInv
<1> QED
  BY <1>1, <1>2, <1>3, <1>4 DEF WriteInv

(* Every step of the node keeps the invariant.                             *)
LEMMA WriteKept == WriteInv /\ [Writes!Next]_(Writes!vars) => WriteInv'
<1> SUFFICES ASSUME WriteInv, [Writes!Next]_(Writes!vars) PROVE WriteInv'
  OBVIOUS
<1>1. CASE Writes!Send
  BY <1>1, WriteSent
<1>2. CASE Writes!Retry
  <2>1. /\ UNCHANGED <<kind, like, there, item, done, seen, out>> /\ attempt' = attempt + 1
    BY <1>2 DEF Writes!Retry
  <2>3. answer' \in Writes!Transient \cup {"out of time"}
    BY <1>2 DEF Writes!Retry
  <2>4. answer' \notin {"ok", "conflict"}
    BY <2>3 DEF Writes!Transient
  <2>2. \A i \in Writes!Items : Writes!Exists(i)' <=> Writes!Exists(i)
    BY <2>1 DEF Writes!Exists
  <2> QED
    BY <2>1, <2>2, <2>4 DEF WriteInv
<1>3. CASE Writes!Succeed \/ Writes!MemberIsThere \/ Writes!Found
  BY <1>3, WriteReported DEF Writes!Succeed, Writes!MemberIsThere, Writes!Found, WriteInv
<1>4. CASE Writes!NotFound \/ Writes!Fail
  BY <1>4, WriteReported DEF Writes!NotFound, Writes!Fail
<1>5. CASE Writes!LookUp \/ UNCHANGED Writes!vars
  BY <1>5 DEF Writes!LookUp, Writes!vars, WriteInv, Writes!Exists
<1> QED
  BY <1>1, <1>2, <1>3, <1>4, <1>5 DEF Writes!Next

(* The invariant says that a write is done once.                           *)
LEMMA WriteIsGood == WriteInv => Writes!WriteIsOnce
BY DEF WriteInv, Writes!WriteIsOnce

(***************************************************************************)
(* The gateway of the ChatGPT connector                                    *)
(***************************************************************************)

(* A client in the book.                                                   *)
ClientEntry == [id : Clients, approved : BOOLEAN]

(* What was issued is numbered, and what was redeemed is not live.         *)
GrantInv ==
    /\ grants \in Nat
    /\ {codes, refresh, redeemed} \subseteq SUBSET (1..grants)
    /\ hand \in [Clients -> 0..grants]
    /\ redeemed \cap Gateway!Live = {}

(* Nothing was issued yet.                                                 *)
LEMMA GrantInit == Gateway!Init => GrantInv
BY DEF Gateway!Init, GrantInv, Gateway!Live

(* A code or a token is redeemed for a new one.                            *)
LEMMA RedeemKeepsGrants ==
    ASSUME GrantInv, NEW c \in Clients, Gateway!Redeem(c)
    PROVE GrantInv'
<1>1. grants' = grants + 1 /\ hand[c] \in 1..grants /\ redeemed' = redeemed \cup {hand[c]}
      /\ codes' = codes \ {hand[c]}
      /\ refresh' \subseteq {grants'} \cup (refresh \ {hand[c]})
  BY DEF GrantInv, Gateway!Redeem, Gateway!IssueToken, Gateway!Live
<1>2. hand' \in [Clients -> 0..grants']
  <2>1. CASE hand' = hand
    BY <1>1, <2>1 DEF GrantInv
  <2>2. CASE hand' = [hand EXCEPT ![c] = grants']
    BY <1>1, <2>2 DEF GrantInv
  <2> QED
    BY <2>1, <2>2 DEF Gateway!Redeem, Gateway!IssueToken
<1>3. /\ codes' \subseteq 1..grants' /\ refresh' \subseteq 1..grants'
      /\ redeemed' \subseteq 1..grants'
  BY <1>1 DEF GrantInv
<1> QED
  BY <1>1, <1>2, <1>3 DEF GrantInv, Gateway!Live

(* A code is issued.                                                       *)
LEMMA IssueKeepsGrants ==
    ASSUME GrantInv, NEW c, Gateway!IssueCode(c), UNCHANGED <<refresh, redeemed>>
    PROVE  GrantInv'
<1>1. grants' = grants + 1 /\ codes' = codes \cup {grants'}
  BY DEF Gateway!IssueCode
<1>2. hand' \in [Clients -> 0..grants']
  <2>1. /\ hand' = [hand EXCEPT ![c] = grants'] /\ hand \in [Clients -> 0..grants]
        /\ grants \in Nat
    BY DEF GrantInv, Gateway!IssueCode
  <2>2. \A d \in Clients : hand'[d] = hand[d] \/ hand'[d] = grants'
    BY <2>1
  <2>3. \A d \in Clients : hand[d] \in 0..grants' /\ grants' \in 0..grants'
    BY <1>1, <2>1
  <2> QED
    BY <2>1, <2>2, <2>3
<1> QED
  BY <1>1, <1>2 DEF GrantInv, Gateway!Live

(* Every step of the gateway keeps the invariant.                          *)
LEMMA GrantKept == GrantInv /\ [Gateway!Next]_(Gateway!vars) => GrantInv'
<1> SUFFICES ASSUME GrantInv, [Gateway!Next]_(Gateway!vars) PROVE GrantInv'
  OBVIOUS
<1> USE DEF Gateway!files, Gateway!memory, Gateway!ghosts
<1>1. CASE Gateway!Serve \/ Gateway!Crash \/ Gateway!RotatePin \/ UNCHANGED Gateway!vars
  BY <1>1 DEF Gateway!Serve, Gateway!Crash, Gateway!RotatePin, Gateway!vars, GrantInv,
     Gateway!Live
<1>2. CASE Gateway!TunnelUp
  BY <1>2 DEF Gateway!TunnelUp, GrantInv, Gateway!Live
<1>3. CASE Gateway!ConsumePin
  BY <1>3, IssueKeepsGrants DEF Gateway!ConsumePin
<1>4. CASE Gateway!Prune
  <2>1. /\ codes' \subseteq codes /\ refresh' \subseteq refresh
        /\ UNCHANGED <<redeemed, grants, hand>>
    BY <1>4 DEF Gateway!Prune
  <2> QED
    BY <2>1 DEF GrantInv, Gateway!Live
<1>5. ASSUME NEW c \in Clients, Gateway!Authorize(c) PROVE GrantInv'
  BY <1>5, IssueKeepsGrants DEF Gateway!Authorize
<1>6. ASSUME NEW c \in Clients, Gateway!Redeem(c) PROVE GrantInv'
  BY <1>6, RedeemKeepsGrants
<1>7. ASSUME NEW c \in Clients, Gateway!Refused(c) PROVE GrantInv'
  <2>1. hand' \in [Clients -> 0..grants]
    BY <1>7 DEF Gateway!Refused, GrantInv
  <2> QED
    BY <1>7, <2>1 DEF Gateway!Refused, GrantInv, Gateway!Live
<1>8. ASSUME NEW c \in Clients,
    Gateway!Register(c) \/ Gateway!WrongPin(c) \/ Gateway!LockoutEnds(c) \/ Gateway!EnterPin(c)
      PROVE  GrantInv'
  BY <1>8 DEF Gateway!Register, Gateway!WrongPin, Gateway!LockoutEnds, Gateway!EnterPin,
     GrantInv, Gateway!Live
<1>9. ASSUME NEW g \in codes, Gateway!Mismatch(g) PROVE GrantInv'
  BY <1>9 DEF Gateway!Mismatch, GrantInv, Gateway!Live
<1> QED
  BY <1>1, <1>2, <1>3, <1>4, <1>5, <1>6, <1>7, <1>8, <1>9 DEF Gateway!Next

(* A PIN was spent on the client.                                          *)
Paid(c) == \E p \in 1..MaxPins : c \in usedBy[p]

(* Who is approved is who paid; a PIN that can still be entered, or that   *)
(* will be when the gateway is started, has approved nobody.               *)
ConsentInv ==
    /\ phase \in {"down", "starting", "up", "approving"}
    /\ {bookFile, book} \subseteq Seq(ClientEntry)
    /\ pins \in 1..MaxPins /\ {pin, pinFile} \subseteq 0..pins
    /\ usedBy \in [1..MaxPins -> SUBSET Clients]
    /\ \A p \in 1..MaxPins : p > pins => usedBy[p] = {}
    /\ torn \/ \A c \in Clients : Gateway!Approved(bookFile, c) <=> Paid(c)
    /\ phase \in {"up", "approving"} =>
           \A c \in Clients : Gateway!Approved(book, c) <=> Gateway!Approved(bookFile, c)
    /\ \A p \in 1..MaxPins \ cutShort : usedBy[p] = {} \/ \E c \in Clients : usedBy[p] = {c}
    /\ pinFile \notin {0} \cup cutShort /\ ~(phase = "approving" /\ pinFile = pin)
           => usedBy[pinFile] = {}
    /\ phase \in {"starting", "up"} /\ pin \notin {0} \cup cutShort => usedBy[pin] = {}

(* Nobody is approved at the start.                                        *)
LEMMA ConsentInit == Gateway!Init => ConsentInv
<1> SUFFICES ASSUME Gateway!Init PROVE ConsentInv
  OBVIOUS
<1>1. \A c \in Clients : ~Gateway!Approved(bookFile, c) /\ ~Paid(c)
  BY DEF Gateway!Init, Gateway!Approved, Paid
<1> QED
  BY <1>1, Assumed DEF Gateway!Init, ConsentInv, Gateway!GatewayAssumption

(* The oldest client without approval makes room, and nobody is disapproved. *)
LEMMA RoomIsMade ==
    ASSUME NEW list \in Seq(ClientEntry), NEW i \in 1..Len(list), ~list[i].approved
    PROVE  /\ Gateway!RemoveAt(list, i) \in Seq(ClientEntry)
           /\ \A c \in Clients : Gateway!Approved(Gateway!RemoveAt(list, i), c) <=>
                  Gateway!Approved(list, c)
<1> DEFINE rest == Gateway!RemoveAt(list, i)
<1>1. /\ rest \in Seq(ClientEntry) /\ Len(rest) = Len(list) - 1
      /\ \A k \in 1..Len(rest) : rest[k] = IF k < i THEN list[k] ELSE list[k + 1]
  <2> DEFINE before == SubSeq(list, 1, i - 1)
             after == SubSeq(list, i + 1, Len(list))
  <2>1. /\ before \in Seq(ClientEntry) /\ Len(before) = i - 1
        /\ \A k \in 1..i - 1 : before[k] = list[k]
    BY SubSeqProperties
  <2>2. /\ after \in Seq(ClientEntry) /\ Len(after) = Len(list) - i
        /\ \A k \in 1..Len(list) - i : after[k] = list[k + i]
    BY SubSeqProperties
  <2> HIDE DEF before, after
  <2>3. rest = before \o after
    BY DEF Gateway!RemoveAt, before, after
  <2>4. rest \in Seq(ClientEntry) /\ Len(rest) = Len(list) - 1
    BY <2>1, <2>2, <2>3, ConcatProperties
  <2>5. ASSUME NEW k \in 1..Len(rest)
        PROVE  rest[k] = IF k < i THEN list[k] ELSE list[k + 1]
    <3>1. rest[k] = IF k <= Len(before) THEN before[k] ELSE after[k - Len(before)]
      BY <2>1, <2>2, <2>3, <2>4, <2>5, ConcatProperties
    <3> HIDE DEF rest
    <3>2. CASE k < i
      <4>1. k \in 1..i - 1
        BY <2>4, <2>5, <3>2
      <4> QED
        BY <2>1, <3>1, <3>2, <4>1
    <3>3. CASE k >= i
      <4>1. k - (i - 1) \in 1..Len(list) - i /\ ~(k <= i - 1) /\ ~(k < i)
        BY <2>4, <2>5, <3>3
      <4>2. (k - (i - 1)) + i = k + 1
        BY <2>4, <2>5
      <4> QED
        BY <2>1, <2>2, <3>1, <4>1, <4>2
    <3> QED
      BY <2>4, <2>5, <3>2, <3>3
  <2> QED
    BY <2>4, <2>5
<1>2. ASSUME NEW c \in Clients, Gateway!Approved(rest, c) PROVE Gateway!Approved(list, c)
  <2> HIDE DEF rest
  <2>1. DOMAIN rest = 1..Len(rest)
    BY <1>1
  <2>2. PICK k \in 1..Len(rest) : rest[k] = [id |-> c, approved |-> TRUE]
    BY <1>2, <2>1 DEF Gateway!Approved
  <2>3. list[k] = rest[k] \/ list[k + 1] = rest[k]
    BY <1>1, <2>2
  <2>4. k \in DOMAIN list /\ k + 1 \in DOMAIN list
    BY <1>1, <2>2
  <2> QED
    BY <2>2, <2>3, <2>4 DEF Gateway!Approved
<1>3. ASSUME NEW c \in Clients, Gateway!Approved(list, c) PROVE Gateway!Approved(rest, c)
  <2> HIDE DEF rest
  <2> DOMAIN list = 1..Len(list)
    OBVIOUS
  <2>1. PICK k \in 1..Len(list) : list[k] = [id |-> c, approved |-> TRUE]
    BY <1>3 DEF Gateway!Approved
  <2>2. k # i
    BY <2>1
  <2>3. CASE k < i
    <3>1. k \in 1..Len(rest) /\ rest[k] = list[k] /\ DOMAIN rest = 1..Len(rest)
      BY <1>1, <2>3
    <3> QED
      BY <2>1, <3>1 DEF Gateway!Approved
  <2>4. CASE k > i
    <3>1. k - 1 \in 1..Len(rest) /\ rest[k - 1] = list[k] /\ DOMAIN rest = 1..Len(rest)
      BY <1>1, <2>4
    <3> QED
      BY <2>1, <3>1 DEF Gateway!Approved
  <2> QED
    BY <2>2, <2>3, <2>4
<1> QED
  BY <1>1, <1>2, <1>3

(* A client that registers is not approved by it.                          *)
LEMMA NewIsUnapproved ==
    ASSUME NEW list \in Seq(ClientEntry), NEW d \in Clients
    PROVE  LET longer == Append(list, [id |-> d, approved |-> FALSE])
           IN  /\ longer \in Seq(ClientEntry)
               /\ \A c \in Clients : Gateway!Approved(longer, c) <=>
                      Gateway!Approved(list, c)
<1> DEFINE new == [id |-> d, approved |-> FALSE]
           longer == Append(list, new)
<1>1. new \in ClientEntry /\ \A c : new # [id |-> c, approved |-> TRUE]
  <2>1. new.approved = FALSE
    OBVIOUS
  <2>2. \A c : [id |-> c, approved |-> TRUE].approved = TRUE
    OBVIOUS
  <2> QED
    BY <2>1, <2>2 DEF ClientEntry
<1> HIDE DEF new
<1>2. /\ longer \in Seq(ClientEntry) /\ Len(longer) = Len(list) + 1
      /\ longer[Len(longer)] = new
      /\ \A k \in 1..Len(list) : longer[k] = list[k]
  BY <1>1
<1>3. DOMAIN longer = 1..Len(list) \cup {Len(longer)} /\ DOMAIN list = 1..Len(list)
  BY <1>2
<1> HIDE DEF longer
<1>4. \A c \in Clients : Gateway!Approved(longer, c) <=> Gateway!Approved(list, c)
  BY <1>1, <1>2, <1>3 DEF Gateway!Approved
<1> QED
  BY <1>2, <1>4 DEF longer, new

(* A client registers.                                                     *)
LEMMA RegisterKeepsConsent ==
    ASSUME ConsentInv, NEW c \in Clients, Gateway!Register(c) PROVE ConsentInv'
<1>1. UNCHANGED <<phase, pinFile, pin, pins, usedBy, cutShort, torn>> /\ bookFile' = book'
      /\ phase = "up"
  BY DEF Gateway!Register, Gateway!ghosts
<1>2. /\ book' \in Seq(ClientEntry)
      /\ \A d \in Clients : Gateway!Approved(book', d) <=> Gateway!Approved(book, d)
  <2>1. CASE book' = Append(book, [id |-> c, approved |-> FALSE])
    BY <2>1, NewIsUnapproved DEF ConsentInv
  <2>2. CASE \E i \in DOMAIN book :
              ~book[i].approved /\ book' = Append(Gateway!RemoveAt(book, i), [id |-> c,
                  approved |-> FALSE])
    <3>1. PICK i \in DOMAIN book :
              ~book[i].approved /\ book' = Append(Gateway!RemoveAt(book, i), [id |-> c,
                  approved |-> FALSE])
      BY <2>2
    <3>2. book \in Seq(ClientEntry) /\ i \in 1..Len(book)
      BY DEF ConsentInv
    <3>3. /\ Gateway!RemoveAt(book, i) \in Seq(ClientEntry)
          /\ \A d \in Clients : Gateway!Approved(Gateway!RemoveAt(book, i), d) <=>
                 Gateway!Approved(book, d)
      BY <3>1, <3>2, RoomIsMade
    <3> QED
      BY <3>1, <3>3, NewIsUnapproved
  <2> QED
    BY <2>1, <2>2 DEF Gateway!Register
<1>3. \A d \in Clients : (Gateway!Approved(bookFile', d) <=>
    Gateway!Approved(bookFile, d)) /\ (Paid(d)' <=> Paid(d))
  BY <1>1, <1>2 DEF ConsentInv, Paid
<1> QED
  BY <1>1, <1>2, <1>3 DEF ConsentInv, Gateway!Approved, Paid

(* A client is approved: the book names it, and its PIN is spent.          *)
LEMMA EnterKeepsConsent ==
    ASSUME ConsentInv, NEW c \in Clients, Gateway!EnterPin(c) PROVE ConsentInv'
<1>1. UNCHANGED <<pinFile, pin, pins, cutShort, torn>> /\ bookFile' = book'
      /\ phase = "up" /\ phase' = "approving" /\ pin \in 1..pins /\ pins \in 1..MaxPins
      /\ usedBy' = [usedBy EXCEPT ![pin] = @ \cup {c}]
  BY DEF Gateway!EnterPin, ConsentInv
<1>2. book' = [i \in DOMAIN book |->
                   IF book[i].id = c THEN [book[i] EXCEPT !.approved = TRUE] ELSE book[i]]
  BY DEF Gateway!EnterPin
<1>3. /\ book \in Seq(ClientEntry) /\ DOMAIN book = 1..Len(book)
      /\ \A i \in DOMAIN book : book[i] \in ClientEntry
  BY DEF ConsentInv
<1>4. \A i \in DOMAIN book : /\ book[i].id = c => book'[i] = [id |-> c, approved |-> TRUE]
                             /\ book[i].id # c => book'[i] = book[i]
  BY <1>2, <1>3 DEF ClientEntry
<1>5. ASSUME NEW i \in DOMAIN book PROVE book'[i] \in ClientEntry
  <2>1. CASE book[i].id = c
    <3>1. [id |-> c, approved |-> TRUE] \in ClientEntry
      BY DEF ClientEntry
    <3> QED
      BY <1>4, <2>1, <3>1
  <2>2. CASE book[i].id # c
    BY <1>3, <1>4, <2>2
  <2> QED
    BY <2>1, <2>2
<1>6. book' \in Seq(ClientEntry) /\ DOMAIN book' = DOMAIN book
  BY <1>2, <1>3, <1>5
<1>7. ASSUME NEW d \in Clients PROVE Gateway!Approved(book', d) <=>
    Gateway!Approved(book, d) \/ d = c
  <2>1. CASE d = c
    <3>1. PICK i \in DOMAIN book : book[i].id = c
      BY DEF Gateway!EnterPin, Gateway!Registered
    <3> QED
      BY <1>4, <1>6, <2>1, <3>1 DEF Gateway!Approved
  <2>2. CASE d # c
    <3>1. ASSUME NEW i \in DOMAIN book
          PROVE  book'[i] = [id |-> d, approved |-> TRUE]
                     <=> book[i] = [id |-> d, approved |-> TRUE]
      <4>1. CASE book[i].id = c
        <5>1. [id |-> c, approved |-> TRUE].id = c /\ [id |-> d, approved |-> TRUE].id = d
          OBVIOUS
        <5> QED
          BY <1>4, <2>2, <4>1, <5>1
      <4>2. CASE book[i].id # c
        BY <1>4, <3>1, <4>2
      <4> QED
        BY <4>1, <4>2
    <3> QED
      BY <1>6, <2>2, <3>1 DEF Gateway!Approved
  <2> QED
    BY <2>1, <2>2
<1>8. /\ usedBy' \in [1..MaxPins -> SUBSET Clients] /\ usedBy'[pin] = usedBy[pin] \cup {c}
      /\ \A p \in 1..MaxPins : p # pin => usedBy'[p] = usedBy[p]
  <2>1. pin \in 1..MaxPins /\ usedBy \in [1..MaxPins -> SUBSET Clients]
    BY <1>1, Assumed DEF ConsentInv, Gateway!GatewayAssumption
  <2>2. DOMAIN usedBy' = 1..MaxPins
    BY <1>1, <2>1
  <2>3. \A p \in 1..MaxPins : usedBy'[p] = IF p = pin THEN usedBy[pin] \cup {c} ELSE
      usedBy[p]
    BY <1>1, <2>1
  <2>4. \A p \in 1..MaxPins : usedBy[p] \subseteq Clients
    BY <2>1
  <2>5. \A p \in 1..MaxPins : usedBy'[p] \in SUBSET Clients
    BY <2>1, <2>3, <2>4
  <2> QED
    BY <1>1, <2>1, <2>2, <2>3, <2>5
<1>9. \A d \in Clients : Paid(d)' <=> Paid(d) \/ d = c
  BY <1>1, <1>8 DEF Paid
<1>10. \A p \in 1..MaxPins : p > pins => usedBy'[p] = {}
  BY <1>1, <1>8 DEF ConsentInv
<1>11. pin \notin cutShort => usedBy'[pin] = {c}
  BY <1>1, <1>8 DEF ConsentInv
<1>12. \A p \in 1..MaxPins \ cutShort : usedBy'[p] = {} \/ \E d \in Clients : usedBy'[p] = {d}
  BY <1>8, <1>11 DEF ConsentInv
<1>13. torn \/ \A d \in Clients : Gateway!Approved(bookFile', d) <=> Paid(d)'
  BY <1>1, <1>7, <1>9 DEF ConsentInv
<1>14. pinFile \notin {0} \cup cutShort /\ pinFile # pin => usedBy'[pinFile] = {}
  BY <1>1, <1>8 DEF ConsentInv
<1> QED
  BY <1>1, <1>6, <1>8, <1>10, <1>12, <1>13, <1>14 DEF ConsentInv, Gateway!Approved

(* The gateway dies, in the middle of a write perhaps.                     *)
LEMMA CrashKeepsConsent == ASSUME ConsentInv, Gateway!Crash PROVE ConsentInv'
<1>1. /\ phase' = "down" /\ UNCHANGED <<book, pin, pins, usedBy>>
      /\ cutShort' = IF phase = "approving" THEN cutShort \cup {pin} ELSE cutShort
      /\ \/ UNCHANGED <<bookFile, pinFile, torn>>
         \/ bookFile' = <<>> /\ torn' = TRUE /\ UNCHANGED pinFile
         \/ pinFile' = 0 /\ UNCHANGED <<bookFile, torn>>
  BY DEF Gateway!Crash, Gateway!files, Gateway!memory
<1>2. \A c \in Clients : Paid(c)' <=> Paid(c)
  BY <1>1 DEF Paid
<1>3. pinFile' \notin {0} \cup cutShort' => usedBy'[pinFile'] = {}
  BY <1>1 DEF ConsentInv
<1>4. /\ bookFile' \in Seq(ClientEntry)
      /\ (torn' \/ \A c \in Clients : Gateway!Approved(bookFile', c) <=> Paid(c)')
  <2>1. CASE UNCHANGED <<bookFile, torn>>
    BY <1>2, <2>1 DEF ConsentInv, Gateway!Approved
  <2>2. CASE bookFile' = <<>> /\ torn' = TRUE
    BY <2>2
  <2> QED
    BY <1>1, <2>1, <2>2
<1> QED
  BY <1>1, <1>3, <1>4 DEF ConsentInv, Gateway!Approved

(* Every step of the gateway keeps the invariant.                          *)
LEMMA ConsentKept == ConsentInv /\ [Gateway!Next]_(Gateway!vars) => ConsentInv'
<1> SUFFICES ASSUME ConsentInv, [Gateway!Next]_(Gateway!vars) PROVE ConsentInv'
  OBVIOUS
<1> USE DEF Gateway!files, Gateway!memory, Gateway!ghosts
<1>1. CASE Gateway!Serve
  <2>1. /\ phase = "down" /\ phase' = "starting" /\ pin' = pinFile'
        /\ pins' \in 1..MaxPins
        /\ UNCHANGED <<bookFile, book, usedBy, cutShort, torn>>
        /\ \/ UNCHANGED <<pinFile, pins>> /\ pinFile # 0
           \/ pins' = pins + 1 /\ pinFile' = pins'
    BY <1>1, Assumed DEF Gateway!Serve, ConsentInv, Gateway!GatewayAssumption
  <2>2. \A c \in Clients : Paid(c)' <=> Paid(c)
    BY <2>1 DEF Paid
  <2>3. /\ pinFile' \in 0..pins'
        /\ (pinFile' \notin {0} \cup cutShort' => usedBy'[pinFile'] = {})
    BY <2>1 DEF ConsentInv
  <2>4. \A p \in 1..MaxPins : p > pins' => usedBy'[p] = {}
    BY <2>1 DEF ConsentInv
  <2> QED
    BY <2>1, <2>2, <2>3, <2>4 DEF ConsentInv, Gateway!Approved
<1>2. CASE Gateway!TunnelUp
  BY <1>2 DEF Gateway!TunnelUp, ConsentInv, Gateway!Approved, Paid
<1>3. CASE Gateway!Crash
  BY <1>3, CrashKeepsConsent
<1>4. CASE Gateway!RotatePin
  <2>1. pins' = pins + 1 /\ pinFile' = pins' /\ pins' \in 1..MaxPins
        /\ UNCHANGED <<phase, bookFile, book, pin, usedBy, cutShort, torn>>
    BY <1>4, Assumed DEF Gateway!RotatePin, ConsentInv, Gateway!GatewayAssumption
  <2>2. /\ pin \in 0..pins' /\ usedBy'[pinFile'] = {}
        /\ \A p \in 1..MaxPins : p > pins' => usedBy'[p] = {}
    BY <2>1 DEF ConsentInv
  <2> QED
    BY <2>1, <2>2 DEF ConsentInv, Gateway!Approved, Paid
<1>5. CASE Gateway!ConsumePin
  BY <1>5 DEF Gateway!ConsumePin, ConsentInv, Gateway!Approved, Paid
<1>6. ASSUME NEW c \in Clients, Gateway!Register(c) PROVE ConsentInv'
  BY <1>6, RegisterKeepsConsent
<1>7. ASSUME NEW c \in Clients, Gateway!EnterPin(c) PROVE ConsentInv'
  BY <1>7, EnterKeepsConsent
<1>8. CASE UNCHANGED <<phase, bookFile, book, pinFile, pin, pins, usedBy, cutShort, torn>>
  BY <1>8 DEF ConsentInv, Gateway!Approved, Paid
<1> QED
  BY <1>1, <1>2, <1>3, <1>4, <1>5, <1>6, <1>7, <1>8
     DEF Gateway!Next, Gateway!vars, Gateway!Prune, Gateway!Authorize, Gateway!WrongPin,
         Gateway!LockoutEnds, Gateway!Redeem, Gateway!Refused, Gateway!Mismatch

(* The invariant says that consent is exact.                               *)
LEMMA ConsentIsGood == ConsentInv => Gateway!ConsentIsExact
<1> SUFFICES ASSUME ConsentInv PROVE Gateway!ConsentIsExact
  OBVIOUS
<1> DEFINE paid == UNION {usedBy[p] : p \in 1..MaxPins}
           approved(list) == {c \in Clients : Gateway!Approved(list, c)}
<1>1. \A c : c \in paid <=> Paid(c)
  BY DEF Paid
<1>2. \A c : Paid(c) => c \in Clients
  BY DEF Paid, ConsentInv
<1>3. torn \/ approved(bookFile) = paid
  <2> SUFFICES ASSUME ~torn PROVE approved(bookFile) = paid
    OBVIOUS
  <2>1. \A c : c \in approved(bookFile) <=> c \in paid
    BY <1>1, <1>2 DEF ConsentInv
  <2> QED
    BY <2>1
<1>4. phase \in {"up", "approving"} => approved(book) = approved(bookFile)
  BY DEF ConsentInv
<1>5. \A p \in 1..MaxPins \ cutShort : Cardinality(usedBy[p]) <= 1
  <2> SUFFICES ASSUME NEW p \in 1..MaxPins \ cutShort PROVE Cardinality(usedBy[p]) <= 1
    OBVIOUS
  <2>1. CASE usedBy[p] = {}
    BY <2>1, FS_EmptySet
  <2>2. CASE \E c \in Clients : usedBy[p] = {c}
    BY <2>2, FS_Singleton
  <2> QED
    BY <2>1, <2>2 DEF ConsentInv
<1> QED
  BY <1>3, <1>4, <1>5 DEF Gateway!ConsentIsExact, Gateway!Cardinality, Cardinality

(***************************************************************************)
(* The ledger of a backfill                                                *)
(***************************************************************************)

(* A set of naturals that is not empty has a least member.                 *)
LEMMA MinExists ==
    ASSUME NEW S \in SUBSET Nat, S # {}
    PROVE  \E s \in S : \A t \in S : s <= t
<1> DEFINE R == OpToRel(<, Nat)
<1>1. IsWellFoundedOn(R, Nat)
  BY NatLessThanWellFounded
<1>2. PICK s \in S : \A t \in S : <<t, s>> \notin R
  <2> HIDE DEF R
  <2> QED
    BY <1>1, WFMin
<1>3. \A t \in S : ~(t < s)
  BY <1>2 DEF OpToRel
<1> QED
  BY <1>3

(* ... and a greatest one, if it is bounded.                               *)
LEMMA MaxExists ==
    ASSUME NEW n \in Nat, NEW S \in SUBSET (1..n), S # {}
    PROVE  \E s \in S : \A t \in S : t <= s
<1> DEFINE T == {n - s : s \in S}
<1>1. \A s \in S : s \in Nat /\ n - s \in Nat
  <2> SUFFICES ASSUME NEW s \in S PROVE s \in 1..n
    OBVIOUS
  <2> QED
    OBVIOUS
<1>2. T \in SUBSET Nat /\ T # {}
  BY <1>1
<1>3. PICK m \in T : \A t \in T : m <= t
  <2> HIDE DEF T
  <2> QED
    BY <1>2, MinExists
<1>4. PICK s \in S : m = n - s
  BY <1>3
<1>5. \A t \in S : n - s <= n - t
  BY <1>3, <1>4
<1> QED
  BY <1>1, <1>4, <1>5

(* Sessions are numbered from 1.                                           *)
LEMMA Numbered == Cardinality(Sessions) \in Nat /\ Sessions = 1..Cardinality(Sessions)
<1>1. IsFiniteSet(Sessions) /\ Sessions = 1..Cardinality(Sessions)
  BY Assumed DEF Ledger!BackfillBounds, Ledger!IsFiniteSet, Ledger!Cardinality, IsFiniteSet,
     Cardinality
<1> QED
  BY <1>1, FS_CardinalityType

(* Sessions are numbers, and none is 0.                                    *)
LEMMA SessionsAre == Sessions \subseteq Nat /\ 0 \notin Sessions
BY Numbered

(* There is a youngest session of some.                                    *)
LEMMA YoungestIs ==
    ASSUME NEW S \in SUBSET Sessions, S # {}
    PROVE  Ledger!Youngest(S) \in S /\ \A t \in S : t <= Ledger!Youngest(S)
<1>1. \E s \in S : \A t \in S : t <= s
  BY Numbered, MaxExists
<1> QED
  BY <1>1 DEF Ledger!Youngest

(* The types of the runner and of the keys.                                *)
Pcs == {"off", "next", "screen", "send", "mark", "finish", "save"}
RunRec == [pc : Pcs, mem : Ledger!Staging, todo : SUBSET Sessions, s : Sessions \cup {0},
           sent : SUBSET Ledger!Captures, got : SUBSET Ledger!Captures]
KeyRecord == Sessions \X (SUBSET Ledger!Captures) \X Ledger!Captures

(* The runner takes the youngest of its sessions.                          *)
LedgerTyped ==
    /\ file \in Ledger!Staging /\ run \in RunRec /\ found \subseteq Sessions
    /\ rows \in [Ledger!Row -> Nat] /\ triples \in [Sessions -> Nat]
    /\ keys \subseteq KeyRecord
    /\ stops \in Nat /\ latest \in Sessions \cup {0}
    /\ run.pc = "off" => run = Ledger!Off
    /\ run.pc \notin {"off", "next"} =>
           run.s \in run.todo /\ \A t \in run.todo : t <= run.s

(* What is extracted has captures, what is ingested has nothing left to    *)
(* send, and what is marked as stored is there.                            *)
FileGood(f, r) ==
    \A s \in Sessions :
        /\ f.status[s] = "extracted" => \E c \in Ledger!Captures : f.mark[s][c] # "absent"
        /\ f.status[s] = "ingested" => \A c \in Ledger!Captures : f.mark[s][c] # "pending"
        /\ \A c \in Ledger!Captures : f.mark[s][c] = "stored" => r[<<s, c>>] > 0

(* The copy that the runner keeps has the same marks of what is stored.    *)
MarksInv ==
    /\ FileGood(file, rows) /\ FileGood(run.mem, rows)
    /\ run.pc # "off" => \A s \in Sessions, c \in Ledger!Captures :
            run.mem.mark[s][c] = "stored" <=> file.mark[s][c] = "stored"
    /\ run.pc \in {"finish", "save"} =>
            \A c \in Ledger!Captures : run.mem.mark[run.s][c] # "pending"
    /\ run.pc \in {"send", "mark"} => \A c \in Secret : run.mem.mark[run.s][c] # "pending"
    /\ run.pc = "mark" =>
            /\ run.got \subseteq run.sent
            /\ \A c \in run.sent : run.mem.mark[run.s][c] = "pending"
            /\ \A c \in run.got : rows[<<run.s, c>>] > 0
    /\ \A k \in keys : rows[<<k[1], k[3]>>] > 0
    /\ \A s \in Sessions, c \in Secret : rows[<<s, c>>] = 0

(* What is there was staged, and no key stands for a secret.               *)
PresentInv ==
    /\ \A s \in Sessions, c \in Ledger!Captures : rows[<<s, c>>] > 0 =>
           file.mark[s][c] # "absent"
    /\ run.pc # "off" => \A s \in Sessions, c \in Ledger!Captures :
            /\ rows[<<s, c>>] > 0 => run.mem.mark[s][c] # "absent"
            /\ run.mem.mark[s][c] # "absent" => file.mark[s][c] # "absent"
    /\ \A k \in keys : k[2] \cap Secret = {}

(* A revision more than the marks account for was paid with a stop.        *)
CountInv ==
    /\ \A s \in Sessions, c \in Ledger!Captures :
        rows[<<s, c>>] <= IF \/ file.mark[s][c] = "stored"
                             \/ run.pc = "mark" /\ s = run.s /\ c \in run.got
                          THEN stops + 1 ELSE stops
    /\ \A s \in Sessions :
        /\ triples[s] <= IF file.decomposed[s] \/ (run.pc = "save" /\ s = run.s)
                         THEN stops + 1 ELSE stops
        /\ run.pc # "off" => triples[s] <= IF run.mem.decomposed[s] THEN stops + 1 ELSE
               stops

(* With a prefix, what is pending and was sent will be sent under its key. *)
Replayable(f, r, k) ==
    \A s \in Sessions : \A c \in Ledger!Pending(f, s) :
        r[<<s, c>>] > 0 => <<s, Ledger!Pending(f, s), c>> \in k
(* With a prefix, a revision is made once.                                 *)
BatchInv ==
    batch /\ ~regrown =>
        /\ \A r \in Ledger!Row : rows[r] <= 1
        /\ Replayable(file, rows, keys) /\ Replayable(run.mem, rows, keys)
        /\ \A s \in run.todo :
               \A c \in Ledger!Captures : file.mark[s][c] = run.mem.mark[s][c]
        /\ run.pc = "mark" =>
            /\ run.sent = Ledger!Pending(run.mem, run.s)
            /\ \A c \in run.sent : <<run.s, run.sent, c>> \in keys => c \in run.got

(* What is left to send is not younger than what was sent.                 *)
Older(s) == latest # 0 => s <= latest
(* The order of what is stacked and of what is left.                       *)
OrderInv ==
    ~late =>
        /\ latest = 0 => \A r \in Ledger!Row : rows[r] = 0
        /\ latest # 0 => /\ \E c \in Ledger!Captures : rows[<<latest, c>>] > 0
                         /\ \A r \in Ledger!Row : rows[r] > 0 => latest <= r[1]
        /\ \A s \in Sessions : file.status[s] = "extracted" => Older(s)
        /\ run.pc # "off" => \A s \in Sessions :
            /\ run.mem.status[s] = "extracted" => s \in run.todo
            /\ file.status[s] = "extracted" => s \in run.todo
            /\ s \in run.todo => Older(s)

(* Who is known was found under the scope that is written, or will be.     *)
ScopeInv ==
    /\ run.pc # "off" => \A s \in Sessions : run.mem.status[s] # "absent" =>
           Ledger!Known(s)
    /\ run.pc # "off" => \E s \in Sessions : run.mem.status[s] # "absent"
    /\ \A s \in run.todo : run.mem.status[s] # "absent"
    /\ codex =>
        /\ asked # NoScope \/ scope # NoScope => \E s \in Sessions : Ledger!Known(s)
        /\ \A s, t \in Sessions : Ledger!Known(s) /\ Ledger!Known(t) =>
               foundUnder[s] = foundUnder[t]
        /\ asked # NoScope => \A s \in Sessions : Ledger!Known(s) => foundUnder[s] = asked
        /\ scope # NoScope => \A s \in Sessions : Ledger!Known(s) => foundUnder[s] = scope

(* What the steps do, one operator for each kind of step.                  *)

(* How a staging file is put together.                                     *)
LEMMA StagingOf ==
    ASSUME NEW st \in [Sessions -> Ledger!Statuses],
           NEW mk \in [Sessions -> [Ledger!Captures -> Ledger!Marks]],
           NEW tr \in [Sessions -> BOOLEAN], NEW de \in [Sessions -> BOOLEAN]
    PROVE  [status |-> st, mark |-> mk, triples |-> tr,
        decomposed |-> de] \in Ledger!Staging
BY DEF Ledger!Staging

(* The marks of a session change.                                          *)
Remarked(f, s, A, m) ==
    [f EXCEPT !.mark[s] = [c \in Ledger!Captures |-> IF c \in A THEN m ELSE @[c]]]
(* What remarking does to a staging file.                                  *)
LEMMA MarkOne ==
    ASSUME NEW f \in Ledger!Staging, NEW s \in Sessions, NEW A, NEW m \in Ledger!Marks
    PROVE  LET g == Remarked(f, s, A, m)
           IN  /\ g \in Ledger!Staging /\ g.status = f.status
               /\ g.decomposed = f.decomposed
               /\ \A t \in Sessions, c \in Ledger!Captures :
                    g.mark[t][c] = IF t = s /\ c \in A THEN m ELSE f.mark[t][c]
<1> DEFINE g == Remarked(f, s, A, m)
<1> DEFINE new == [c \in Ledger!Captures |-> IF c \in A THEN m ELSE f.mark[s][c]]
<1>1. /\ f.mark \in [Sessions -> [Ledger!Captures -> Ledger!Marks]]
      /\ f.triples \in [Sessions -> BOOLEAN]
      /\ f.status \in [Sessions -> Ledger!Statuses]
      /\ f.decomposed \in [Sessions -> BOOLEAN]
      /\ f = [status |-> f.status, mark |-> f.mark, triples |-> f.triples,
               decomposed |-> f.decomposed]
  BY Zenon DEF Ledger!Staging
<1>2. g = [status |-> f.status, mark |-> [f.mark EXCEPT ![s] = new],
    triples |-> f.triples,
           decomposed |-> f.decomposed]
  <2>1. g = [f EXCEPT !.mark[s] = new]
    BY DEF Remarked
  <2> HIDE DEF g, new
  <2> QED
    BY <1>1, <2>1
<1> HIDE DEF g
<1>3. new \in [Ledger!Captures -> Ledger!Marks]
  BY <1>1
<1> HIDE DEF new
<1>4. [f.mark EXCEPT ![s] = new] \in [Sessions -> [Ledger!Captures -> Ledger!Marks]]
  BY <1>1, <1>3
<1>5. g \in Ledger!Staging
  <2> DEFINE mk == [f.mark EXCEPT ![s] = new]
  <2>1. mk \in [Sessions -> [Ledger!Captures -> Ledger!Marks]]
    BY <1>4
  <2>2. g = [status |-> f.status, mark |-> mk, triples |-> f.triples,
             decomposed |-> f.decomposed]
    BY <1>2
  <2> HIDE DEF mk
  <2>3. [status |-> f.status, mark |-> mk, triples |-> f.triples,
         decomposed |-> f.decomposed] \in Ledger!Staging
    BY <1>1, <2>1, StagingOf, Zenon
  <2> QED
    BY <2>2, <2>3, Zenon
<1>6. \A t \in Sessions, c \in Ledger!Captures :
        g.mark[t][c] = IF t = s THEN new[c] ELSE f.mark[t][c]
  BY <1>1, <1>2
<1> QED
  BY <1>2, <1>5, <1>6 DEF new, g

(* The inventory leaves the marks alone.                                   *)
Quiet ==
    /\ UNCHANGED <<batch, run, Ledger!server, regrown>> /\ late' = late
    /\ file' \in Ledger!Staging /\ stops' \in {stops, stops + 1}
    /\ file'.mark = file.mark /\ file'.decomposed = file.decomposed
    /\ \A s \in Sessions :
        /\ file'.status[s] # file.status[s] => file'.status[s] \in {"inventoried",
               "skipped"}
        /\ file'.status[s] = "absent" => file.status[s] = "absent"

(* Only the status of sessions changes.                                    *)
LEMMA StatusOf ==
    ASSUME NEW f \in Ledger!Staging, NEW st \in [Sessions -> Ledger!Statuses], NEW g,
           g = [f EXCEPT !.status = st]
    PROVE  /\ g \in Ledger!Staging /\ g.mark = f.mark /\ g.decomposed = f.decomposed
           /\ g.status = st
           /\ g.triples = f.triples
<1>1. f = [status |-> f.status, mark |-> f.mark, triples |-> f.triples,
           decomposed |-> f.decomposed]
  BY DEF Ledger!Staging
<1>2. g = [status |-> st, mark |-> f.mark, triples |-> f.triples,
    decomposed |-> f.decomposed]
  BY <1>1
<1>3. /\ f.mark \in [Sessions -> [Ledger!Captures -> Ledger!Marks]]
      /\ f.triples \in [Sessions -> BOOLEAN]
      /\ f.decomposed \in [Sessions -> BOOLEAN]
  BY Zenon DEF Ledger!Staging
<1> QED
  BY <1>2, <1>3 DEF Ledger!Staging

(* What a manifest does to the status of sessions.                         *)
LEMMA MergedIs ==
    ASSUME LedgerTyped
    PROVE  /\ Ledger!Merged \in [Sessions -> Ledger!Statuses]
           /\ \A s \in Sessions :
                /\ Ledger!Merged[s] # file.status[s] =>
                       Ledger!Merged[s] \in {"inventoried", "skipped"}
                /\ Ledger!Merged[s] = "absent" =>
                       file.status[s] = "absent" /\ s \notin found
                /\ ~Ledger!Known(s) /\ s \notin found => Ledger!Merged[s] = "absent"
<1>1. file.status \in [Sessions -> Ledger!Statuses]
  BY DEF LedgerTyped, Ledger!Staging
<1>2. \A s \in Sessions :
        Ledger!Merged[s] = IF s \notin found \/ Ledger!Known(s) THEN file.status[s]
                           ELSE IF s = Ledger!Youngest(found) THEN "inventoried" ELSE
                               "skipped"
  BY DEF Ledger!Merged
<1>3. \A s \in Sessions : file.status[s] \in Ledger!Statuses
  BY <1>1
<1>4. /\ DOMAIN Ledger!Merged = Sessions
      /\ Ledger!Merged = [s \in Sessions |-> Ledger!Merged[s]]
  BY DEF Ledger!Merged
<1>5. \A s \in Sessions : Ledger!Merged[s] \in Ledger!Statuses
  BY <1>2, <1>3 DEF Ledger!Statuses
<1> QED
  BY <1>2, <1>4, <1>5 DEF Ledger!Known

(* The inventory but for the staging of captures.                          *)
LEMMA QuietSteps ==
    ASSUME LedgerTyped,
           \/ Ledger!Appear \/ Ledger!Manifest \/ Ledger!NameScope \/ Ledger!ManifestDies
           \/ \E s \in Sessions : Ledger!PacketFails(s) \/ Ledger!Skip(s)
    PROVE  Quiet
<1> USE DEF Quiet, Ledger!ghosts, Ledger!server
<1>0. file \in Ledger!Staging
  BY DEF LedgerTyped
<1>1. CASE Ledger!Appear \/ Ledger!NameScope \/ Ledger!ManifestDies
  BY <1>0, <1>1 DEF Ledger!Appear, Ledger!NameScope, Ledger!ManifestDies
<1>2. CASE Ledger!Manifest
  <2>1. /\ file' = [file EXCEPT !.status = Ledger!Merged]
        /\ UNCHANGED <<batch, run, Ledger!server, regrown, late, stops>>
    BY <1>2 DEF Ledger!Manifest, Ledger!AddSessions
  <2>2. /\ file' \in Ledger!Staging /\ file'.mark = file.mark
        /\ file'.decomposed = file.decomposed
        /\ file'.status = Ledger!Merged
    BY <1>0, <2>1, MergedIs, StatusOf
  <2> QED
    BY <2>1, <2>2, MergedIs
<1>3. ASSUME NEW s \in Sessions, Ledger!PacketFails(s) \/ Ledger!Skip(s) PROVE Quiet
  <2> DEFINE st == [file.status EXCEPT ![s] = "skipped"]
  <2>1. /\ file' = [file EXCEPT !.status = st]
        /\ UNCHANGED <<batch, run, Ledger!server, regrown, late, stops>>
    BY <1>3 DEF Ledger!PacketFails, Ledger!Skip
  <2>2. file.status \in [Sessions -> Ledger!Statuses]
    BY <1>0 DEF Ledger!Staging
  <2>3. st \in [Sessions -> Ledger!Statuses]
    BY <2>2 DEF Ledger!Statuses
  <2>4. /\ file' \in Ledger!Staging /\ file'.mark = file.mark
        /\ file'.decomposed = file.decomposed
        /\ file'.status = st
    <3> HIDE DEF st
    <3> QED
      BY <1>0, <2>1, <2>3, StatusOf
  <2>5. \A t \in Sessions : st[t] = IF t = s THEN "skipped" ELSE file.status[t]
    BY <2>2
  <2> QED
    BY <2>1, <2>4, <2>5
<1> QED
  BY <1>1, <1>2, <1>3

(* Captures are staged.                                                    *)
StageDoes ==
    /\ UNCHANGED <<batch, run, Ledger!server, stops, codex, scope, asked, foundUnder>>
    /\ file' \in Ledger!Staging /\ file'.decomposed = file.decomposed
    /\ \E s \in Sessions : \E new \in SUBSET Ledger!Captures :
        /\ Ledger!Known(s)
        /\ \A c \in new : file.mark[s][c] = "absent"
        /\ \A t \in Sessions, c \in Ledger!Captures :
            file'.mark[t][c] = IF t = s /\ c \in new THEN "pending" ELSE file.mark[t][c]
        /\ \A t \in Sessions :
            file'.status[t] = IF t = s /\ new # {} THEN "extracted" ELSE file.status[t]
        /\ late' = (late \/ latest # 0 \/ run.pc # "off")
        /\ regrown' = (regrown \/ Ledger!Open(s))

(* What the staging of captures does.                                      *)
LEMMA StageIs ==
    ASSUME LedgerTyped, NEW s \in Sessions, NEW typed \in SUBSET Typed,
           Ledger!Stage(s, typed)
    PROVE  StageDoes
<1> DEFINE new == IF Ledger!Staged(file, s) = {} THEN typed \cup {Digest}
                  ELSE typed \ Ledger!Staged(file, s)
           marks == [file.mark EXCEPT ![s] =
                        [c \in Ledger!Captures |-> IF c \in new THEN "pending" ELSE @[c]]]
           status == [file.status EXCEPT ![s] = IF new # {} THEN "extracted" ELSE @]
           trip == [file.triples EXCEPT ![s] = @ \/ typed # {}]
<1>1. /\ file.mark \in [Sessions -> [Ledger!Captures -> Ledger!Marks]]
      /\ file.triples \in [Sessions -> BOOLEAN]
      /\ file.status \in [Sessions -> Ledger!Statuses]
      /\ file.decomposed \in [Sessions -> BOOLEAN]
      /\ file = [status |-> file.status, mark |-> file.mark, triples |-> file.triples,
                  decomposed |-> file.decomposed]
  BY Zenon DEF Ledger!Staging, LedgerTyped
<1>2. file' = [file EXCEPT
                  !.mark[s] = [c \in Ledger!Captures |->
                                  IF c \in new THEN "pending" ELSE @[c]],
                  !.triples[s] = @ \/ typed # {},
                  !.status[s] = IF new # {} THEN "extracted" ELSE @]
  BY DEF Ledger!Stage
<1>3. new \in SUBSET Ledger!Captures /\ \A c \in new : file.mark[s][c] = "absent"
  BY DEF Ledger!Captures, Ledger!Staged
<1> HIDE DEF new
<1>4. file' = [status |-> status, mark |-> marks, triples |-> trip,
    decomposed |-> file.decomposed]
  BY <1>1, <1>2
<1>5. trip \in [Sessions -> BOOLEAN]
  BY <1>1, Zenon
<1>6. status \in [Sessions -> Ledger!Statuses]
      /\ \A t \in Sessions : status[t] = IF t = s /\ new # {} THEN "extracted" ELSE
             file.status[t]
  BY <1>1 DEF Ledger!Statuses
<1>7. marks \in [Sessions -> [Ledger!Captures -> Ledger!Marks]]
      /\ \A t \in Sessions, c \in Ledger!Captures :
            marks[t][c] = IF t = s /\ c \in new THEN "pending" ELSE file.mark[t][c]
  <2> DEFINE row == [c \in Ledger!Captures |-> IF c \in new THEN "pending" ELSE
      file.mark[s][c]]
  <2>1. row \in [Ledger!Captures -> Ledger!Marks] /\ marks = [file.mark EXCEPT ![s] = row]
    BY <1>1 DEF Ledger!Marks
  <2>2. \A c \in Ledger!Captures : row[c] = IF c \in new THEN "pending" ELSE
      file.mark[s][c]
    OBVIOUS
  <2> HIDE DEF row, marks
  <2> QED
    BY <1>1, <2>1, <2>2
<1> HIDE DEF marks, status, trip
<1>8. file' \in Ledger!Staging /\ file'.decomposed = file.decomposed /\ file'.mark = marks
      /\ file'.status = status
  BY <1>1, <1>4, <1>5, <1>6, <1>7 DEF Ledger!Staging
<1>9. /\ Ledger!Known(s) /\ late' = (late \/ latest # 0 \/ run.pc # "off")
      /\ regrown' = (regrown \/ Ledger!Open(s))
      /\ UNCHANGED <<batch, run, Ledger!server, stops, codex, scope, asked, foundUnder>>
  BY DEF Ledger!Stage
<1>10. /\ \A t \in Sessions, c \in Ledger!Captures :
             file'.mark[t][c] = IF t = s /\ c \in new THEN "pending" ELSE file.mark[t][c]
       /\ \A t \in Sessions :
             file'.status[t] = IF t = s /\ new # {} THEN "extracted" ELSE file.status[t]
  BY <1>6, <1>7, <1>8
<1> QED
  BY <1>3, <1>8, <1>9, <1>10, Zenon DEF StageDoes

(* The runner.                                                             *)
Elsewhere == UNCHANGED <<codex, batch, found, scope, asked, foundUnder, late, regrown>>

(* The runner has its parts.                                               *)
LEMMA RunOf ==
    ASSUME LedgerTyped
    PROVE  /\ run.mem \in Ledger!Staging /\ run.pc \in Pcs /\ run.todo \subseteq Sessions
           /\ run.s \in Sessions \cup {0}
           /\ run.sent \subseteq Ledger!Captures /\ run.got \subseteq Ledger!Captures
           /\ run = [pc |-> run.pc, mem |-> run.mem, todo |-> run.todo, s |-> run.s,
                     sent |-> run.sent, got |-> run.got]
           /\ run.pc \notin {"off", "next"} => run.s \in Sessions
BY DEF LedgerTyped, RunRec

(* How a runner is put together.                                           *)
LEMMA RunType ==
    ASSUME NEW next \in Pcs, NEW mem \in Ledger!Staging, NEW waiting \in SUBSET Sessions,
           NEW s \in Sessions \cup {0}, NEW sent \in SUBSET Ledger!Captures,
           NEW got \in SUBSET Ledger!Captures
    PROVE  [pc |-> next, mem |-> mem, todo |-> waiting, s |-> s, sent |-> sent,
        got |-> got] \in RunRec
BY DEF RunRec

(* The empty file, and the runner that is off, have nothing in them.       *)
LEMMA EmptyIs ==
    /\ Ledger!Empty \in Ledger!Staging /\ Ledger!Off \in RunRec /\ Ledger!Off.pc = "off"
    /\ Ledger!Off.mem = Ledger!Empty /\ Ledger!Off.todo = {}
    /\ \A s \in Sessions : /\ Ledger!Empty.status[s] = "absent" /\ Ledger!Empty.decomposed[s] = FALSE
                           /\ \A c \in Ledger!Captures : Ledger!Empty.mark[s][c] = "absent"
<1> DEFINE none == [s \in Sessions |-> FALSE]
           st == [s \in Sessions |-> "absent"]
           mk == [s \in Sessions |-> [c \in Ledger!Captures |-> "absent"]]
<1>1. none \in [Sessions -> BOOLEAN] /\ \A s \in Sessions : none[s] = FALSE
  BY Zenon
<1>2. /\ st \in [Sessions -> Ledger!Statuses]
      /\ mk \in [Sessions -> [Ledger!Captures -> Ledger!Marks]]
      /\ \A s \in Sessions : st[s] = "absent" /\ \A c \in Ledger!Captures : mk[s][c] = "absent"
  BY DEF Ledger!Statuses, Ledger!Marks
<1>3. Ledger!Empty = [status |-> st, mark |-> mk, triples |-> none, decomposed |-> none]
  BY DEF Ledger!Empty
<1> HIDE DEF none, st, mk
<1>4. [status |-> st, mark |-> mk, triples |-> none,
    decomposed |-> none] \in Ledger!Staging
  BY <1>1, <1>2, StagingOf, Zenon
<1>5. Ledger!Empty \in Ledger!Staging
  BY <1>3, <1>4, Zenon
<1>6. Ledger!Empty.status = st /\ Ledger!Empty.mark = mk /\ Ledger!Empty.decomposed = none
  BY <1>3
<1>7. /\ Ledger!Off \in RunRec /\ Ledger!Off.pc = "off" /\ Ledger!Off.mem = Ledger!Empty
      /\ Ledger!Off.todo = {}
  <2>1. "off" \in Pcs
    BY DEF Pcs
  <2> QED
    BY <1>5, <2>1, RunType DEF Ledger!Off
<1> QED
  BY <1>1, <1>2, <1>5, <1>6, <1>7, Zenon

(* What the start of a run does.                                           *)
StartDoes ==
    /\ run.pc = "off" /\ UNCHANGED <<file, Ledger!server, stops>> /\ Elsewhere
    /\ run' \in RunRec /\ run'.pc = "next" /\ run'.mem = file /\ run'.todo # {}
    /\ \A s \in Sessions :
        s \in run'.todo <=> file.status[s] = "extracted" /\ Ledger!Staged(file, s) # {}

(* The start does that.                                                    *)
LEMMA StartIs == ASSUME LedgerTyped, Ledger!Start PROVE StartDoes
<1> DEFINE waiting == {s \in Sessions :
                          file.status[s] = "extracted" /\ Ledger!Staged(file, s) # {}}
<1>1. run' = [pc |-> "next", mem |-> file, todo |-> waiting, s |-> 0, sent |-> {},
    got |-> {}]
  BY DEF Ledger!Start, Ledger!Off
<1>2. /\ waiting \in SUBSET Sessions /\ waiting # {} /\ "next" \in Pcs
      /\ file \in Ledger!Staging
  BY DEF Ledger!Start, Pcs, LedgerTyped
<1>3. \A s \in Sessions : s \in waiting <=>
    file.status[s] = "extracted" /\ Ledger!Staged(file, s) # {}
  OBVIOUS
<1>4. run.pc = "off" /\ UNCHANGED <<file, Ledger!server, stops>> /\ Elsewhere
  BY DEF Ledger!Start, Ledger!RunnerKeeps, Elsewhere
<1> HIDE DEF waiting
<1>5. run' \in RunRec
  BY <1>1, <1>2, RunType
<1> QED
  BY <1>1, <1>2, <1>3, <1>4, <1>5 DEF StartDoes

(* The next session, or the runner ends.                                   *)
NextDoes ==
    /\ run.pc = "next" /\ UNCHANGED <<file, Ledger!server, stops>> /\ Elsewhere
    /\ run' \in RunRec
    /\ \/ run' = Ledger!Off
       \/ /\ run'.pc = "screen" /\ run'.mem = run.mem /\ run'.todo = run.todo
          /\ run'.s \in run.todo /\ \A t \in run.todo : t <= run'.s

(* The choice does that.                                                   *)
LEMMA NextIs == ASSUME LedgerTyped, Ledger!NextSession PROVE NextDoes
<1>1. run.pc = "next" /\ UNCHANGED <<file, Ledger!server, stops>> /\ Elsewhere
  BY DEF Ledger!NextSession, Ledger!RunnerKeeps, Elsewhere
<1>2. CASE run.todo = {}
  BY <1>1, <1>2, EmptyIs DEF Ledger!NextSession, NextDoes
<1>3. CASE run.todo # {}
  <2>1. /\ Ledger!Youngest(run.todo) \in run.todo
        /\ \A t \in run.todo : t <= Ledger!Youngest(run.todo)
        /\ Ledger!Youngest(run.todo) \in Sessions
    BY <1>3, RunOf, YoungestIs
  <2>2. run' = [pc |-> "screen", mem |-> run.mem, todo |-> run.todo,
      s |-> Ledger!Youngest(run.todo),
                sent |-> run.sent, got |-> run.got]
    BY <1>3, RunOf DEF Ledger!NextSession
  <2>3. "screen" \in Pcs
    BY DEF Pcs
  <2>4. run' \in RunRec
    BY <2>1, <2>2, <2>3, RunOf, RunType
  <2> QED
    BY <1>1, <2>1, <2>2, <2>4 DEF NextDoes
<1> QED
  BY <1>2, <1>3

(* What the screening of a session does.                                   *)
ScreenDoes ==
    /\ run.pc = "screen" /\ UNCHANGED <<Ledger!server, stops>> /\ Elsewhere
    /\ run' \in RunRec /\ run'.s = run.s /\ run'.todo = run.todo
    /\ file' \in Ledger!Staging
    /\ run'.mem.status = run.mem.status /\ run'.mem.decomposed = run.mem.decomposed
    /\ \E bad \in SUBSET Ledger!Captures :
        /\ \A c \in Ledger!Captures : c \in bad <=>
               run.mem.mark[run.s][c] = "pending" /\ c \in Secret
        /\ \A t \in Sessions, c \in Ledger!Captures :
            run'.mem.mark[t][c] = IF t = run.s /\ c \in bad THEN "screened"
                                  ELSE run.mem.mark[t][c]
        /\ file' = run'.mem \/ (file' = file /\ bad = {})
    /\ \/ run'.pc = "finish" /\ Ledger!Pending(run'.mem, run.s) = {}
       \/ run'.pc = "send"

(* The screening does that.                                                *)
LEMMA ScreenIs == ASSUME LedgerTyped, Ledger!Screen PROVE ScreenDoes
<1> DEFINE bad == Ledger!Pending(run.mem, run.s) \cap Secret
           mem == [run.mem EXCEPT !.mark[run.s] =
                       [c \in Ledger!Captures |-> IF c \in bad THEN "screened" ELSE @[c]]]
           next == IF Ledger!Pending(mem, run.s) = {} THEN "finish" ELSE "send"
<1>1. /\ run.pc = "screen" /\ UNCHANGED <<Ledger!server, stops>> /\ Elsewhere
      /\ file' = (IF bad = {} THEN file ELSE mem)
      /\ run' = [run EXCEPT !.mem = mem, !.pc = next]
  BY DEF Ledger!Screen, Ledger!RunnerKeeps, Elsewhere
<1>2. bad \in SUBSET Ledger!Captures
      /\ \A c \in Ledger!Captures : c \in bad <=>
             run.mem.mark[run.s][c] = "pending" /\ c \in Secret
  BY DEF Ledger!Pending
<1>3. "screened" \in Ledger!Marks /\ run.s \in Sessions /\ run.mem \in Ledger!Staging
  BY <1>1, RunOf DEF Ledger!Marks
<1>4. /\ next \in Pcs
      /\ ((next = "finish" /\ Ledger!Pending(mem, run.s) = {}) \/ next = "send")
  BY DEF Pcs
<1> HIDE DEF bad, next
<1>10. mem = Remarked(run.mem, run.s, bad, "screened")
  BY DEF Remarked
<1> HIDE DEF mem
<1>5. /\ mem \in Ledger!Staging /\ mem.status = run.mem.status
      /\ mem.decomposed = run.mem.decomposed
      /\ \A t \in Sessions, c \in Ledger!Captures :
            mem.mark[t][c] = IF t = run.s /\ c \in bad THEN "screened" ELSE
                run.mem.mark[t][c]
  BY <1>3, <1>10, MarkOne
<1>6. run' = [pc |-> next, mem |-> mem, todo |-> run.todo, s |-> run.s, sent |-> run.sent,
              got |-> run.got]
  BY <1>1, RunOf
<1>7. run' \in RunRec
  BY <1>4, <1>5, <1>6, RunOf, RunType
<1>8. run'.s = run.s /\ run'.todo = run.todo /\ run'.mem = mem /\ run'.pc = next
  BY <1>6
<1>9. file' \in Ledger!Staging /\ (file' = mem \/ (file' = file /\ bad = {}))
  BY <1>1, <1>5 DEF LedgerTyped
<1> QED
  BY <1>1, <1>2, <1>4, <1>5, <1>7, <1>8, <1>9 DEF ScreenDoes

(* What a call of the server does.                                         *)
SendDoes(sent, made) ==
    /\ run.pc = "send" /\ UNCHANGED <<file, triples, stops>> /\ Elsewhere
    /\ sent \subseteq Ledger!Pending(run.mem, run.s)
    /\ (batch => sent = Ledger!Pending(run.mem, run.s))
    /\ made \subseteq sent \ Ledger!Replayed(sent)
    /\ rows' \in [Ledger!Row -> Nat]
    /\ \A s \in Sessions, c \in Ledger!Captures :
        rows'[<<s, c>>] = IF s = run.s /\ c \in made THEN rows[<<s, c>>] + 1 ELSE
            rows[<<s, c>>]
    /\ keys' = keys \cup {<<run.s, sent, c>> : c \in IF batch THEN made ELSE {}}
    /\ latest' = IF made = {} THEN latest ELSE run.s
    /\ run' \in RunRec /\ run'.pc = "mark" /\ run'.mem = run.mem /\ run'.todo = run.todo
    /\ run'.s = run.s /\ run'.sent = sent /\ run'.got = made \cup Ledger!Replayed(sent)

(* The call does that.                                                     *)
LEMMA SendIs ==
    ASSUME LedgerTyped, NEW sent \in SUBSET Ledger!Captures, NEW made \in SUBSET sent,
           Ledger!Send(sent, made)
    PROVE  SendDoes(sent, made)
<1>1. /\ run.pc = "send" /\ UNCHANGED <<file, triples, stops>> /\ Elsewhere
      /\ keys' = keys \cup {<<run.s, sent, c>> : c \in IF batch THEN made ELSE {}}
      /\ latest' = IF made = {} THEN latest ELSE run.s
      /\ made \subseteq sent \ Ledger!Replayed(sent)
  BY DEF Ledger!Send, Ledger!RunnerKeeps, Elsewhere
<1>2. /\ sent \subseteq Ledger!Pending(run.mem, run.s)
      /\ (batch => sent = Ledger!Pending(run.mem, run.s))
  BY DEF Ledger!Send, Ledger!Call
<1>3. run' = [pc |-> "mark", mem |-> run.mem, todo |-> run.todo, s |-> run.s,
    sent |-> sent,
              got |-> made \cup Ledger!Replayed(sent)]
  BY RunOf DEF Ledger!Send
<1>4. "mark" \in Pcs /\ made \cup Ledger!Replayed(sent) \in SUBSET Ledger!Captures
  BY DEF Pcs, Ledger!Replayed
<1>5. run' \in RunRec
  BY <1>3, <1>4, RunOf, RunType
<1>6. rows' = [r \in Ledger!Row |-> rows[r] + (IF r[1] = run.s /\ r[2] \in made THEN 1 ELSE 0)]
  BY DEF Ledger!Send
<1>7. rows \in [Ledger!Row -> Nat]
  BY DEF LedgerTyped
<1>8. rows' \in [Ledger!Row -> Nat]
  BY <1>6, <1>7
<1>9. ASSUME NEW s \in Sessions, NEW c \in Ledger!Captures
      PROVE  rows'[<<s, c>>] = IF s = run.s /\ c \in made THEN rows[<<s, c>>] + 1
                               ELSE rows[<<s, c>>]
  <2>1. <<s, c>> \in Ledger!Row
    BY DEF Ledger!Row
  <2> QED
    BY <1>6, <1>7, <2>1
<1> QED
  BY <1>1, <1>2, <1>3, <1>5, <1>8, <1>9 DEF SendDoes

(* What was answered is marked.                                            *)
MarkDoes(f) ==
    /\ f \in Ledger!Staging /\ f.status = run.mem.status
    /\ f.decomposed = run.mem.decomposed
    /\ \A t \in Sessions, c \in Ledger!Captures :
        f.mark[t][c] = IF t = run.s /\ c \in run.got THEN "stored" ELSE run.mem.mark[t][c]

(* The file that is written after a call.                                  *)
LEMMA MarkedIs == ASSUME LedgerTyped, run.pc = "mark" PROVE MarkDoes(Ledger!Marked)
<1>1. "stored" \in Ledger!Marks /\ run.s \in Sessions /\ run.mem \in Ledger!Staging
  BY RunOf DEF Ledger!Marks
<1>2. Ledger!Marked = Remarked(run.mem, run.s, run.got, "stored")
  BY DEF Ledger!Marked, Remarked
<1> QED
  BY <1>1, <1>2, MarkOne DEF MarkDoes

(* What an answer without a failure does.                                  *)
MarkAllDoes ==
    /\ run.pc = "mark" /\ run.got = run.sent /\ UNCHANGED <<Ledger!server, stops>>
    /\ Elsewhere
    /\ MarkDoes(file')
    /\ run' \in RunRec /\ run'.mem = file' /\ run'.todo = run.todo /\ run'.s = run.s
    /\ \/ run'.pc = "finish" /\ Ledger!Pending(file', run.s) = {}
       \/ run'.pc = "send"

(* The answer does that.                                                   *)
LEMMA MarkAllIs == ASSUME LedgerTyped, Ledger!MarkAll PROVE MarkAllDoes
<1> DEFINE next == IF Ledger!Pending(Ledger!Marked, run.s) = {} THEN "finish" ELSE "send"
<1>1. /\ run.pc = "mark" /\ run.got = run.sent /\ UNCHANGED <<Ledger!server, stops>>
      /\ Elsewhere
      /\ file' = Ledger!Marked
      /\ run' = [run EXCEPT !.mem = Ledger!Marked, !.sent = {}, !.got = {}, !.pc = next]
  BY DEF Ledger!MarkAll, Ledger!RunnerKeeps, Elsewhere
<1>2. /\ next \in Pcs
      /\ ((next = "finish" /\ Ledger!Pending(Ledger!Marked, run.s) = {}) \/ next = "send")
  BY DEF Pcs
<1>3. MarkDoes(Ledger!Marked)
  BY <1>1, MarkedIs
<1> HIDE DEF next
<1>4. run' = [pc |-> next, mem |-> Ledger!Marked, todo |-> run.todo, s |-> run.s,
    sent |-> {}, got |-> {}]
  BY <1>1, RunOf
<1>5. run' \in RunRec
  BY <1>2, <1>3, <1>4, RunOf, RunType DEF MarkDoes
<1> QED
  BY <1>1, <1>2, <1>3, <1>4, <1>5 DEF MarkAllDoes

(* What an answer with a failure does.                                     *)
MarkSomeDoes ==
    /\ run.pc = "mark" /\ run.got # run.sent /\ UNCHANGED Ledger!server /\ Elsewhere
    /\ stops' = stops + 1 /\ run' = Ledger!Off
    /\ IF batch THEN MarkDoes(file') ELSE file' = file

(* The answer does that.                                                   *)
LEMMA MarkSomeIs == ASSUME LedgerTyped, Ledger!MarkSome PROVE MarkSomeDoes
BY MarkedIs DEF Ledger!MarkSome, MarkSomeDoes, Ledger!RunnerKeeps, Elsewhere

(* What the sending of triples does.                                       *)
DecomposeDoes ==
    /\ run.pc = "finish" /\ UNCHANGED <<file, rows, keys, latest, stops>> /\ Elsewhere
    /\ run' \in RunRec /\ run'.todo = run.todo /\ run'.s = run.s /\ run'.pc = "save"
    /\ run'.mem.status = run.mem.status /\ run'.mem.mark = run.mem.mark
    /\ triples' \in [Sessions -> Nat]
    /\ \A s \in Sessions : s # run.s => triples'[s] = triples[s]
                                        /\ (run'.mem.decomposed[s] <=>
                                               run.mem.decomposed[s])
    /\ \/ /\ triples'[run.s] = triples[run.s] + 1
          /\ ~run.mem.decomposed[run.s] /\ run'.mem.decomposed[run.s]
       \/ /\ triples'[run.s] = triples[run.s]
          /\ (run'.mem.decomposed[run.s] <=> run.mem.decomposed[run.s])

(* The sending does that.                                                  *)
LEMMA DecomposeIs == ASSUME LedgerTyped, Ledger!Decompose PROVE DecomposeDoes
<1> DEFINE s == run.s
           due == run.mem.triples[s] /\ Ledger!Stored(run.mem, s) # {} /\ ~run.mem.decomposed[s]
           de == [run.mem.decomposed EXCEPT ![s] = @ \/ due]
           mem == [status |-> run.mem.status, mark |-> run.mem.mark,
                   triples |-> run.mem.triples, decomposed |-> de]
<1>1. /\ run.pc = "finish" /\ UNCHANGED <<file, rows, keys, latest, stops>> /\ Elsewhere
      /\ triples' = (IF due THEN [triples EXCEPT ![s] = @ + 1] ELSE triples)
      /\ run' = [run EXCEPT !.mem.decomposed[s] = @ \/ due, !.pc = "save"]
  BY DEF Ledger!Decompose, Ledger!RunnerKeeps, Elsewhere
<1>2. /\ run.mem.mark \in [Sessions -> [Ledger!Captures -> Ledger!Marks]]
      /\ run.mem.triples \in [Sessions -> BOOLEAN]
      /\ run.mem.status \in [Sessions -> Ledger!Statuses]
      /\ run.mem.decomposed \in [Sessions -> BOOLEAN]
      /\ run.mem = [status |-> run.mem.status, mark |-> run.mem.mark,
                    triples |-> run.mem.triples, decomposed |-> run.mem.decomposed]
  <2>1. run.mem \in Ledger!Staging
    BY RunOf
  <2> QED
    BY <2>1, Zenon DEF Ledger!Staging
<1>3. s \in Sessions /\ triples \in [Sessions -> Nat] /\ "save" \in Pcs
  BY <1>1, RunOf DEF LedgerTyped, Pcs
<1> HIDE DEF due
<1>4. de \in [Sessions -> BOOLEAN]
      /\ \A t \in Sessions : de[t] <=> (run.mem.decomposed[t] \/ (t = s /\ due))
  BY <1>2, <1>3, Zenon
<1>5. run' = [pc |-> "save", mem |-> mem, todo |-> run.todo, s |-> run.s,
    sent |-> run.sent,
              got |-> run.got]
  BY <1>1, <1>2, RunOf
<1> HIDE DEF de
<1>6. mem \in Ledger!Staging
  BY <1>2, <1>4, StagingOf, Zenon
<1>7. run' \in RunRec
  <2> HIDE DEF mem
  <2> QED
    BY <1>3, <1>5, <1>6, RunOf, RunType
<1>8. /\ run'.todo = run.todo /\ run'.s = run.s /\ run'.pc = "save"
      /\ run'.mem.status = run.mem.status /\ run'.mem.mark = run.mem.mark
      /\ run'.mem.decomposed = de
  BY <1>5
<1>9. due => ~run.mem.decomposed[s]
  BY DEF due
<1>10. triples' \in [Sessions -> Nat]
       /\ \A t \in Sessions : triples'[t] = IF t = s /\ due THEN triples[t] + 1 ELSE
              triples[t]
  BY <1>1, <1>3
<1> HIDE DEF mem
<1>11. \A t \in Sessions : t # run.s => triples'[t] = triples[t]
                                        /\ (run'.mem.decomposed[t] <=>
                                               run.mem.decomposed[t])
  BY <1>4, <1>8, <1>10
<1>12. \/ /\ triples'[run.s] = triples[run.s] + 1
          /\ ~run.mem.decomposed[run.s] /\ run'.mem.decomposed[run.s]
       \/ /\ triples'[run.s] = triples[run.s]
          /\ (run'.mem.decomposed[run.s] <=> run.mem.decomposed[run.s])
  BY <1>3, <1>4, <1>8, <1>9, <1>10
<1> QED
  BY <1>1, <1>7, <1>8, <1>10, <1>11, <1>12 DEF DecomposeDoes

(* What the end of a session does.                                         *)
SaveDoes ==
    /\ run.pc = "save" /\ UNCHANGED <<Ledger!server, stops>> /\ Elsewhere
    /\ file' \in Ledger!Staging /\ run' \in RunRec /\ run'.mem = file' /\ run'.pc = "next"
    /\ run'.todo = run.todo \ {run.s}
    /\ file'.mark = run.mem.mark /\ file'.decomposed = run.mem.decomposed
    /\ \A t \in Sessions :
        file'.status[t] = IF t = run.s THEN "ingested" ELSE run.mem.status[t]

(* The end does that.                                                      *)
LEMMA SaveIs == ASSUME LedgerTyped, Ledger!Save PROVE SaveDoes
<1> DEFINE st == [run.mem.status EXCEPT ![run.s] = "ingested"]
           mem == [run.mem EXCEPT !.status = st]
<1>1. /\ run.pc = "save" /\ UNCHANGED <<Ledger!server, stops>> /\ Elsewhere /\ file' = mem
      /\ run' = [run EXCEPT !.mem = mem, !.todo = @ \ {run.s}, !.s = 0, !.pc = "next"]
  BY DEF Ledger!Save, Ledger!RunnerKeeps, Elsewhere
<1>2. run.mem \in Ledger!Staging /\ run.s \in Sessions /\ "next" \in Pcs
  BY <1>1, RunOf DEF Pcs
<1>3. run.mem.status \in [Sessions -> Ledger!Statuses]
  BY <1>2 DEF Ledger!Staging
<1>4. st \in [Sessions -> Ledger!Statuses]
      /\ \A t \in Sessions : st[t] = IF t = run.s THEN "ingested" ELSE run.mem.status[t]
  BY <1>2, <1>3 DEF Ledger!Statuses
<1> HIDE DEF st
<1>5. /\ mem \in Ledger!Staging /\ mem.mark = run.mem.mark
      /\ mem.decomposed = run.mem.decomposed
      /\ mem.status = st
  BY <1>2, <1>4, StatusOf
<1> HIDE DEF mem
<1>6. run' = [pc |-> "next", mem |-> mem, todo |-> run.todo \ {run.s}, s |-> 0,
              sent |-> run.sent, got |-> run.got]
  BY <1>1, RunOf
<1>7. run' \in RunRec
  BY <1>2, <1>5, <1>6, RunOf, RunType
<1> QED
  BY <1>1, <1>4, <1>5, <1>6, <1>7 DEF SaveDoes

(* What an early end of the run does.                                      *)
StopDoes ==
    UNCHANGED <<file,
        Ledger!server>> /\ Elsewhere /\ stops' = stops + 1 /\ run' = Ledger!Off

(* The early end does that.                                                *)
LEMMA StopIs == Ledger!Stop => StopDoes
BY DEF Ledger!Stop, StopDoes, Ledger!RunnerKeeps, Elsewhere

(* The types.                                                              *)
LEMMA LedgerInit == Ledger!Init => LedgerTyped
<1> SUFFICES ASSUME Ledger!Init PROVE LedgerTyped
  OBVIOUS
<1>1. file \in Ledger!Staging /\ run \in RunRec /\ run = Ledger!Off /\ run.pc = "off"
  BY EmptyIs DEF Ledger!Init
<1>2. rows \in [Ledger!Row -> Nat] /\ triples \in [Sessions -> Nat] /\ stops \in Nat
  BY DEF Ledger!Init
<1> QED
  BY <1>1, <1>2 DEF Ledger!Init, LedgerTyped

(* All that can happen to the file, the runner and the server.             *)
RunnerSteps ==
    \/ Quiet \/ StageDoes \/ StartDoes \/ NextDoes \/ ScreenDoes \/ MarkAllDoes
    \/ MarkSomeDoes \/ DecomposeDoes \/ SaveDoes \/ StopDoes
    \/ \E sent \in SUBSET Ledger!Captures : \E made \in SUBSET sent : SendDoes(sent, made)

(* Every step is one of these.                                             *)
LEMMA StepIs == ASSUME LedgerTyped, [Ledger!Next]_(Ledger!vars) PROVE RunnerSteps
<1>1. CASE UNCHANGED Ledger!vars
  BY <1>1 DEF Ledger!vars, Ledger!server, Ledger!ghosts, Quiet, LedgerTyped, RunnerSteps
<1>2. CASE Ledger!Inventory
  BY <1>2, QuietSteps, StageIs DEF Ledger!Inventory, RunnerSteps
<1>3. CASE Ledger!Runner
  BY <1>3, StartIs, NextIs, ScreenIs, SendIs, MarkAllIs, MarkSomeIs, DecomposeIs,
     SaveIs, StopIs
     DEF Ledger!Runner, RunnerSteps
<1> QED
  BY <1>1, <1>2, <1>3 DEF Ledger!Next

(* The sessions on disk are sessions.                                      *)
LEMMA FoundKept ==
    ASSUME LedgerTyped, [Ledger!Next]_(Ledger!vars)
    PROVE found' \subseteq Sessions
<1>0. found \subseteq Sessions
  BY DEF LedgerTyped
<1>1. CASE Ledger!Appear
  BY <1>0, <1>1 DEF Ledger!Appear
<1>2. CASE ~Ledger!Appear
  BY <1>0, <1>2 DEF Ledger!Next, Ledger!Inventory, Ledger!Runner, Ledger!vars,
     Ledger!Manifest, Ledger!AddSessions, Ledger!NameScope, Ledger!ManifestDies,
     Ledger!PacketFails, Ledger!Skip, Ledger!Stage, Ledger!RunnerKeeps, Ledger!Start,
         Ledger!NextSession, Ledger!Screen, Ledger!Send, Ledger!MarkAll, Ledger!MarkSome,
     Ledger!Decompose, Ledger!Save, Ledger!Stop
<1> QED
  BY <1>1, <1>2

(* Every step keeps the types.                                             *)
LEMMA TypedKept == ASSUME LedgerTyped, [Ledger!Next]_(Ledger!vars) PROVE LedgerTyped'
<1>0. found' \subseteq Sessions /\ RunnerSteps
  BY FoundKept, StepIs
<1> USE DEF Ledger!server
<1>1. CASE Quiet \/ StageDoes
  BY <1>0, <1>1 DEF Quiet, StageDoes, LedgerTyped
<1>2. CASE StartDoes \/ NextDoes
  BY <1>0, <1>2, EmptyIs DEF StartDoes, NextDoes, LedgerTyped
<1>3. CASE ScreenDoes \/ MarkAllDoes
  BY <1>0, <1>3 DEF ScreenDoes, MarkAllDoes, LedgerTyped, MarkDoes
<1>4. CASE DecomposeDoes \/ SaveDoes
  BY <1>0, <1>4 DEF DecomposeDoes, SaveDoes, LedgerTyped
<1>5. CASE StopDoes \/ MarkSomeDoes
  <2>1. /\ UNCHANGED Ledger!server /\ run' = Ledger!Off /\ stops' = stops + 1
        /\ file' \in Ledger!Staging
    BY <1>5 DEF StopDoes, MarkSomeDoes, MarkDoes, LedgerTyped
  <2> QED
    BY <1>0, <2>1, EmptyIs DEF LedgerTyped
<1>6. ASSUME NEW sent \in SUBSET Ledger!Captures,
             NEW made \in SUBSET sent, SendDoes(sent, made)
      PROVE  LedgerTyped'
  <2>1. run.s \in Sessions
    BY <1>6, RunOf DEF SendDoes
  <2>2. keys' \subseteq KeyRecord
    BY <1>6, <2>1 DEF SendDoes, LedgerTyped, KeyRecord
  <2> QED
    BY <1>0, <1>6, <2>1, <2>2 DEF SendDoes, LedgerTyped
<1> QED
  BY <1>0, <1>1, <1>2, <1>3, <1>4, <1>5, <1>6 DEF RunnerSteps

(* The marks.                                                              *)
LEMMA CapturesAre == Secret \subseteq Ledger!Captures
BY Assumed DEF Ledger!BackfillBounds

(* More on the server does not make a file worse.                          *)
LEMMA GoodStays ==
    ASSUME NEW f, NEW r, NEW q, FileGood(f, r),
           \A s \in Sessions, c \in Ledger!Captures : r[<<s, c>>] > 0 => q[<<s, c>>] > 0
    PROVE  FileGood(f, q)
BY DEF FileGood

(* An empty file says nothing.                                             *)
LEMMA GoodEmpty == ASSUME NEW r PROVE FileGood(Ledger!Empty, r)
BY EmptyIs DEF FileGood

(* No marks at the start.                                                  *)
LEMMA MarksInit == Ledger!Init => MarksInv
<1> SUFFICES ASSUME Ledger!Init PROVE MarksInv
  OBVIOUS
<1>1. file = Ledger!Empty /\ run.mem = Ledger!Empty /\ run.pc = "off" /\ keys = {}
  BY EmptyIs DEF Ledger!Init
<1>2. \A s \in Sessions, c \in Secret : rows[<<s, c>>] = 0
  BY CapturesAre DEF Ledger!Init, Ledger!Row
<1> QED
  BY <1>1, <1>2, GoodEmpty DEF MarksInv

(* What was answered is there.                                             *)
LEMMA GoodMarked ==
    ASSUME NEW f, MarkDoes(f), run.pc = "mark", LedgerTyped, MarksInv
    PROVE  FileGood(f, rows)
<1> SUFFICES ASSUME NEW s \in Sessions
             PROVE  /\ f.status[s] = "extracted" =>
                           \E c \in Ledger!Captures : f.mark[s][c] # "absent"
                    /\ f.status[s] = "ingested" =>
                           \A c \in Ledger!Captures : f.mark[s][c] # "pending"
                    /\ \A c \in Ledger!Captures : f.mark[s][c] = "stored" =>
                           rows[<<s, c>>] > 0
  BY DEF FileGood
<1>1. /\ f.status[s] = run.mem.status[s]
      /\ \A c \in Ledger!Captures :
            f.mark[s][c] = IF s = run.s /\ c \in run.got THEN "stored" ELSE
                run.mem.mark[s][c]
  BY DEF MarkDoes
<1> QED
  BY <1>1 DEF MarksInv, FileGood

(* The inventory.                                                          *)
LEMMA QuietMarks == ASSUME MarksInv, Quiet PROVE MarksInv'
<1>1. FileGood(file', rows)
  BY DEF Quiet, MarksInv, FileGood
<1> QED
  BY <1>1 DEF Quiet, MarksInv, Ledger!server

(* Captures are staged.                                                    *)
LEMMA StageMarks == ASSUME MarksInv, StageDoes PROVE MarksInv'
<1>1. PICK s \in Sessions, new \in SUBSET Ledger!Captures :
        /\ \A c \in new : file.mark[s][c] = "absent"
        /\ \A t \in Sessions, c \in Ledger!Captures :
            file'.mark[t][c] = IF t = s /\ c \in new THEN "pending" ELSE file.mark[t][c]
        /\ \A t \in Sessions :
            file'.status[t] = IF t = s /\ new # {} THEN "extracted" ELSE file.status[t]
  BY DEF StageDoes
<1>2. FileGood(file', rows)
  <2> SUFFICES ASSUME NEW t \in Sessions
               PROVE  /\ file'.status[t] = "extracted" =>
                             \E c \in Ledger!Captures : file'.mark[t][c] # "absent"
                      /\ file'.status[t] = "ingested" =>
                             \A c \in Ledger!Captures : file'.mark[t][c] # "pending"
                      /\ \A c \in Ledger!Captures : file'.mark[t][c] = "stored" =>
                             rows[<<t, c>>] > 0
    BY DEF FileGood
  <2>1. CASE t = s /\ new # {}
    <3>1. PICK c \in new : TRUE
      BY <2>1
    <3>2. c \in Ledger!Captures /\ file'.mark[t][c] = "pending"
      BY <1>1, <2>1
    <3> QED
      BY <1>1, <2>1, <3>2 DEF MarksInv, FileGood
  <2>2. CASE t # s \/ new = {}
    BY <1>1, <2>2 DEF MarksInv, FileGood
  <2> QED
    BY <2>1, <2>2
<1>3. \A t \in Sessions, c \in Ledger!Captures : file'.mark[t][c] = "stored" <=>
    file.mark[t][c] = "stored"
  BY <1>1
<1> QED
  BY <1>2, <1>3 DEF StageDoes, MarksInv, Ledger!server

(* A session is screened.                                                  *)
LEMMA ScreenMarks == ASSUME LedgerTyped, MarksInv, ScreenDoes PROVE MarksInv'
<1>1. PICK bad \in SUBSET Ledger!Captures :
        /\ \A c \in Ledger!Captures : c \in bad <=>
               run.mem.mark[run.s][c] = "pending" /\ c \in Secret
        /\ \A t \in Sessions, c \in Ledger!Captures :
            run'.mem.mark[t][c] = IF t = run.s /\ c \in bad THEN "screened"
                                  ELSE run.mem.mark[t][c]
        /\ file' = run'.mem \/ (file' = file /\ bad = {})
  BY DEF ScreenDoes
<1>2. FileGood(run'.mem, rows)
  <2> SUFFICES ASSUME NEW t \in Sessions
               PROVE  /\ run'.mem.status[t] = "extracted" =>
                            \E c \in Ledger!Captures : run'.mem.mark[t][c] # "absent"
                      /\ run'.mem.status[t] = "ingested" =>
                            \A c \in Ledger!Captures : run'.mem.mark[t][c] # "pending"
                      /\ \A c \in Ledger!Captures : run'.mem.mark[t][c] = "stored" =>
                             rows[<<t, c>>] > 0
    BY DEF FileGood
  <2>1. /\ \A c \in Ledger!Captures : run'.mem.mark[t][c] \in {"screened", run.mem.mark[t][c]}
        /\ run'.mem.status = run.mem.status
    BY <1>1 DEF ScreenDoes
  <2> QED
    BY <2>1 DEF MarksInv, FileGood
<1>3. \A t \in Sessions, c \in Ledger!Captures :
        /\ run'.mem.mark[t][c] = "stored" <=> run.mem.mark[t][c] = "stored"
        /\ run'.mem.mark[t][c] = "pending" => run.mem.mark[t][c] = "pending"
  BY <1>1
<1>4. /\ run.s \in Sessions /\ run.pc = "screen" /\ run'.s = run.s
      /\ run'.pc \in {"finish", "send"}
      /\ UNCHANGED <<rows, keys>>
  BY RunOf DEF ScreenDoes, Ledger!server
<1>5. \A t \in Sessions, c \in Ledger!Captures : run'.mem.mark[t][c] = "stored" <=>
    file'.mark[t][c] = "stored"
  BY <1>1, <1>3, <1>4 DEF MarksInv
<1>6. \A c \in Secret : run'.mem.mark[run.s][c] # "pending"
  BY <1>1, <1>4, CapturesAre
<1>7. run'.pc = "finish" => \A c \in Ledger!Captures : run'.mem.mark[run.s][c] # "pending"
  BY DEF ScreenDoes, Ledger!Pending
<1>8. FileGood(file', rows)
  BY <1>1, <1>2 DEF MarksInv
<1> QED
  BY <1>2, <1>4, <1>5, <1>6, <1>7, <1>8 DEF MarksInv

(* A call of the server.                                                   *)
LEMMA SendMarks ==
    ASSUME LedgerTyped, MarksInv, NEW sent \in SUBSET Ledger!Captures,
           NEW made \in SUBSET sent,
           SendDoes(sent, made)
    PROVE  MarksInv'
<1>1. run.s \in Sessions /\ run.pc = "send" /\ run'.pc = "mark" /\ run'.s = run.s
      /\ run'.mem = run.mem /\ file' = file /\ run'.sent = sent
      /\ run'.got = made \cup Ledger!Replayed(sent)
  BY RunOf DEF SendDoes
<1>2. \A s \in Sessions, c \in Ledger!Captures : rows[<<s, c>>] \in Nat
  BY DEF LedgerTyped, Ledger!Row
<1>3. \A s \in Sessions, c \in Ledger!Captures :
        rows'[<<s, c>>] = IF s = run.s /\ c \in made THEN rows[<<s, c>>] + 1 ELSE
            rows[<<s, c>>]
  BY DEF SendDoes
<1>4. \A s \in Sessions, c \in Ledger!Captures : rows[<<s, c>>] > 0 => rows'[<<s, c>>] > 0
  BY <1>2, <1>3
<1>5. FileGood(file', rows') /\ FileGood(run'.mem, rows')
  BY <1>1, <1>4, GoodStays DEF MarksInv
<1>6. \A c \in sent : run.mem.mark[run.s][c] = "pending" /\ c \notin Secret
  BY <1>1 DEF SendDoes, Ledger!Pending, MarksInv
<1>7. \A c \in made : c \in Ledger!Captures /\ rows'[<<run.s, c>>] > 0
  BY <1>1, <1>2, <1>3
<1>8. \A k \in keys : k[1] \in Sessions /\ k[3] \in Ledger!Captures /\ rows[<<k[1], k[3]>>] > 0
  BY DEF LedgerTyped, KeyRecord, MarksInv
<1>9. \A k \in keys' : rows'[<<k[1], k[3]>>] > 0
  <2> SUFFICES ASSUME NEW k \in keys' PROVE rows'[<<k[1], k[3]>>] > 0
    OBVIOUS
  <2>1. CASE k \in keys
    BY <1>4, <1>8, <2>1
  <2>2. ASSUME NEW c \in made, k = <<run.s, sent, c>> PROVE rows'[<<k[1], k[3]>>] > 0
    BY <1>7, <2>2
  <2> QED
    BY <2>1, <2>2 DEF SendDoes
<1>10. \A c \in Ledger!Replayed(sent) : c \in sent /\ rows'[<<run.s, c>>] > 0
  <2> SUFFICES ASSUME NEW c \in Ledger!Replayed(sent)
      PROVE c \in sent /\ rows'[<<run.s, c>>] > 0
    OBVIOUS
  <2>1. c \in sent /\ <<run.s, sent, c>> \in keys
    BY DEF Ledger!Replayed
  <2>2. rows[<<run.s, c>>] > 0
    BY <1>8, <2>1
  <2> QED
    BY <1>1, <1>4, <2>1, <2>2
<1>11. \A s \in Sessions, c \in Secret : rows'[<<s, c>>] = 0
  <2> SUFFICES ASSUME NEW s \in Sessions, NEW c \in Secret PROVE rows'[<<s, c>>] = 0
    OBVIOUS
  <2>1. c \in Ledger!Captures /\ c \notin made /\ rows[<<s, c>>] = 0
    BY <1>6, CapturesAre DEF MarksInv
  <2> QED
    BY <1>3, <2>1
<1>12. \A s \in Sessions, c \in Ledger!Captures :
         run'.mem.mark[s][c] = "stored" <=> file'.mark[s][c] = "stored"
  BY <1>1 DEF MarksInv
<1>13. \A c \in Secret : run'.mem.mark[run'.s][c] # "pending"
  BY <1>1 DEF MarksInv
<1>14. /\ run'.got \subseteq run'.sent
       /\ \A c \in run'.sent : run'.mem.mark[run'.s][c] = "pending"
       /\ \A c \in run'.got : rows'[<<run'.s, c>>] > 0
  BY <1>1, <1>6, <1>7, <1>10
<1> QED
  BY <1>1, <1>5, <1>9, <1>11, <1>12, <1>13, <1>14 DEF MarksInv

(* An answer without a failure.                                            *)
LEMMA MarkAllMarks == ASSUME LedgerTyped, MarksInv, MarkAllDoes PROVE MarksInv'
<1>1. FileGood(file', rows)
  BY GoodMarked DEF MarkAllDoes
<1>2. run.s \in Sessions /\ run'.mem = file' /\ run'.s = run.s /\ UNCHANGED <<rows, keys>>
      /\ run'.pc \in {"finish", "send"} /\ run.pc = "mark"
  BY RunOf DEF MarkAllDoes, Ledger!server
<1>3. run'.pc = "finish" => \A c \in Ledger!Captures : run'.mem.mark[run.s][c] # "pending"
  BY <1>2 DEF MarkAllDoes, Ledger!Pending
<1>4. \A c \in Ledger!Captures : file'.mark[run.s][c] = "pending" =>
    run.mem.mark[run.s][c] = "pending"
  BY <1>2 DEF MarkAllDoes, MarkDoes
<1>5. \A c \in Secret : run'.mem.mark[run.s][c] # "pending"
  BY <1>2, <1>4, CapturesAre DEF MarksInv
<1> QED
  BY <1>1, <1>2, <1>3, <1>5 DEF MarksInv

(* The run ends.                                                           *)
LEMMA OffMarks ==
    ASSUME LedgerTyped, MarksInv, run' = Ledger!Off, UNCHANGED Ledger!server,
           FileGood(file', rows)
    PROVE  MarksInv'
<1>1. run'.pc = "off" /\ run'.mem = Ledger!Empty
  BY EmptyIs
<1> QED
  BY <1>1, GoodEmpty DEF MarksInv, Ledger!server

(* Every step keeps the marks true.                                        *)
LEMMA MarksKept == ASSUME LedgerTyped, MarksInv, RunnerSteps PROVE MarksInv'
<1>1. CASE Quiet \/ StageDoes
  BY <1>1, QuietMarks, StageMarks
<1>2. CASE ScreenDoes \/ MarkAllDoes
  BY <1>2, ScreenMarks, MarkAllMarks
<1>3. CASE StartDoes
  <2>1. run'.pc = "next" /\ run'.mem = file /\ UNCHANGED <<file, rows, keys>>
    BY <1>3 DEF StartDoes, Ledger!server
  <2> QED
    BY <2>1 DEF MarksInv
<1>4. CASE NextDoes
  <2>1. CASE run' = Ledger!Off
    BY <1>4, <2>1, OffMarks DEF NextDoes, MarksInv
  <2>2. CASE run'.pc = "screen" /\ run'.mem = run.mem
    BY <1>4, <2>2 DEF NextDoes, MarksInv, Ledger!server
  <2> QED
    BY <1>4, <2>1, <2>2 DEF NextDoes
<1>5. CASE MarkSomeDoes
  <2>1. FileGood(file', rows)
    BY <1>5, GoodMarked DEF MarkSomeDoes, MarksInv
  <2> QED
    BY <1>5, <2>1, OffMarks DEF MarkSomeDoes
<1>6. CASE DecomposeDoes
  <2>1. FileGood(run'.mem, rows)
    BY <1>6 DEF DecomposeDoes, MarksInv, FileGood
  <2> QED
    BY <1>6, <2>1 DEF DecomposeDoes, MarksInv
<1>7. CASE SaveDoes
  <2>1. run.s \in Sessions /\ run.pc = "save" /\ run'.pc = "next" /\ run'.mem = file'
        /\ UNCHANGED <<rows, keys>> /\ file'.mark = run.mem.mark
    BY <1>7, RunOf DEF SaveDoes, Ledger!server
  <2>2. FileGood(file', rows)
    BY <1>7, <2>1 DEF SaveDoes, MarksInv, FileGood
  <2> QED
    BY <2>1, <2>2 DEF MarksInv
<1>8. CASE StopDoes
  BY <1>8, OffMarks DEF StopDoes, MarksInv
<1>9. ASSUME NEW sent \in SUBSET Ledger!Captures,
             NEW made \in SUBSET sent, SendDoes(sent, made)
      PROVE  MarksInv'
  BY <1>9, SendMarks
<1> QED
  BY <1>1, <1>2, <1>3, <1>4, <1>5, <1>6, <1>7, <1>8, <1>9 DEF RunnerSteps

(* The counts.                                                             *)
LEMMA Counts ==
    ASSUME LedgerTyped
    PROVE  /\ \A s \in Sessions, c \in Ledger!Captures : rows[<<s, c>>] \in Nat
           /\ \A s \in Sessions : triples[s] \in Nat
           /\ stops \in Nat
BY DEF LedgerTyped, Ledger!Row

(* Nothing was counted yet.                                                *)
LEMMA CountInit == Ledger!Init => CountInv
<1> SUFFICES ASSUME Ledger!Init PROVE CountInv
  OBVIOUS
<1>1. run.pc = "off" /\ stops = 0
  BY EmptyIs DEF Ledger!Init
<1>2. /\ (\A s \in Sessions, c \in Ledger!Captures : rows[<<s, c>>] = 0)
      /\ \A s \in Sessions : triples[s] = 0
  BY DEF Ledger!Init, Ledger!Row
<1> QED
  BY <1>1, <1>2 DEF CountInv

(* A stop pays for all that is not marked.                                 *)
LEMMA StopCounts ==
    ASSUME LedgerTyped, CountInv, stops' = stops + 1, UNCHANGED <<rows, triples>>,
           run' = Ledger!Off
    PROVE  CountInv'
<1>1. run'.pc = "off"
  BY EmptyIs
<1>2. /\ \A s \in Sessions, c \in Ledger!Captures : rows[<<s, c>>] <= stops + 1
      /\ \A s \in Sessions : triples[s] <= stops + 1
  BY Counts DEF CountInv
<1>3. \A n \in Nat : n <= stops + 1 => n <= stops' /\ n <= stops' + 1
  BY Counts
<1>4. \A s \in Sessions, c \in Ledger!Captures :
          rows'[<<s, c>>] <= stops' /\ rows'[<<s, c>>] <= stops' + 1
  BY <1>2, <1>3, Counts
<1>5. \A s \in Sessions : triples'[s] <= stops' /\ triples'[s] <= stops' + 1
  BY <1>2, <1>3, Counts
<1> QED
  BY <1>1, <1>4, <1>5 DEF CountInv

(* The inventory.                                                          *)
LEMMA QuietCounts == ASSUME LedgerTyped, CountInv, Quiet PROVE CountInv'
<1>1. /\ UNCHANGED <<rows, triples, run>> /\ stops' \in {stops, stops + 1}
      /\ file'.mark = file.mark /\ file'.decomposed = file.decomposed
  BY DEF Quiet, Ledger!server
<1>2. ASSUME NEW s \in Sessions, NEW c \in Ledger!Captures
      PROVE  rows'[<<s, c>>] <= IF \/ file'.mark[s][c] = "stored"
                                   \/ run'.pc = "mark" /\ s = run'.s /\ c \in run'.got
                                THEN stops' + 1 ELSE stops'
  BY <1>1, Counts DEF CountInv
<1>3. ASSUME NEW s \in Sessions
      PROVE  /\ triples'[s] <= IF file'.decomposed[s] \/ (run'.pc = "save" /\ s = run'.s)
                               THEN stops' + 1 ELSE stops'
             /\ run'.pc # "off" =>
                    triples'[s] <= IF run'.mem.decomposed[s] THEN stops' + 1 ELSE stops'
  <2> DEFINE A == file.decomposed[s] \/ (run.pc = "save" /\ s = run.s)
             B == run.mem.decomposed[s]
             n == triples[s]
  <2>1. n \in Nat /\ stops \in Nat /\ (n <= IF A THEN stops + 1 ELSE stops)
        /\ (run.pc # "off" => n <= IF B THEN stops + 1 ELSE stops)
    BY Counts DEF CountInv
  <2> HIDE DEF A, B, n
  <2>2. n \in Nat /\ stops \in Nat /\ (stops' = stops \/ stops' = stops + 1)
    BY <1>1, <2>1
  <2>3. n <= IF A THEN stops' + 1 ELSE stops'
    BY <2>1, <2>2
  <2>4. ASSUME run.pc # "off" PROVE n <= IF B THEN stops' + 1 ELSE stops'
    BY <2>1, <2>2, <2>4
  <2> QED
    BY <1>1, <2>3, <2>4 DEF A, B, n
<1> QED
  BY <1>2, <1>3 DEF CountInv

(* Captures are staged.                                                    *)
LEMMA StageCounts == ASSUME LedgerTyped, CountInv, StageDoes PROVE CountInv'
<1>1. /\ UNCHANGED <<rows, triples, run, stops>> /\ file'.decomposed = file.decomposed
      /\ \A s \in Sessions, c \in Ledger!Captures : file.mark[s][c] = "stored" =>
             file'.mark[s][c] = "stored"
  <2>1. PICK s \in Sessions, new \in SUBSET Ledger!Captures :
        /\ \A c \in new : file.mark[s][c] = "absent"
        /\ \A t \in Sessions, c \in Ledger!Captures :
            file'.mark[t][c] = IF t = s /\ c \in new THEN "pending" ELSE file.mark[t][c]
    BY DEF StageDoes
  <2> QED
    BY <2>1 DEF StageDoes, Ledger!server
<1>2. ASSUME NEW s \in Sessions, NEW c \in Ledger!Captures
      PROVE  rows'[<<s, c>>] <= IF \/ file'.mark[s][c] = "stored"
                                   \/ run'.pc = "mark" /\ s = run'.s /\ c \in run'.got
                                THEN stops' + 1 ELSE stops'
  BY <1>1, Counts DEF CountInv
<1> QED
  BY <1>1, <1>2 DEF CountInv

(* The marks in the file are those that the runner has.                    *)
LEMMA SendCounts ==
    ASSUME LedgerTyped, MarksInv, CountInv, NEW sent \in SUBSET Ledger!Captures,
           NEW made \in SUBSET sent, SendDoes(sent, made)
    PROVE  CountInv'
<1>1. /\ run.s \in Sessions /\ run.pc = "send" /\ run'.pc = "mark" /\ run'.s = run.s
      /\ run'.mem = run.mem /\ UNCHANGED <<file, triples, stops>>
      /\ made \subseteq run'.got
  BY RunOf DEF SendDoes
<1>2. ASSUME NEW s \in Sessions, NEW c \in Ledger!Captures
      PROVE  rows'[<<s, c>>] <= IF \/ file'.mark[s][c] = "stored"
                                   \/ run'.pc = "mark" /\ s = run'.s /\ c \in run'.got
                                THEN stops' + 1 ELSE stops'
  <2>1. rows[<<s, c>>] \in Nat /\ stops \in Nat
    BY Counts
  <2>2. CASE s = run.s /\ c \in made
    <3>1. run.mem.mark[s][c] = "pending"
      BY <2>2 DEF SendDoes, Ledger!Pending
    <3>2. file.mark[s][c] # "stored"
      BY <1>1, <3>1 DEF MarksInv
    <3>3. rows[<<s, c>>] <= stops
      BY <1>1, <3>2 DEF CountInv
    <3>4. rows'[<<s, c>>] = rows[<<s, c>>] + 1
      BY <2>2 DEF SendDoes
    <3> QED
      BY <1>1, <2>1, <2>2, <3>3, <3>4
  <2>3. CASE ~(s = run.s /\ c \in made)
    <3>1. rows'[<<s, c>>] = rows[<<s, c>>]
      BY <2>3 DEF SendDoes
    <3>2. rows[<<s, c>>] <= IF file.mark[s][c] = "stored" THEN stops + 1 ELSE stops
      BY <1>1 DEF CountInv
    <3> QED
      BY <1>1, <2>1, <3>1, <3>2
  <2> QED
    BY <2>2, <2>3
<1> QED
  BY <1>1, <1>2 DEF CountInv

(* The file of the runner is written.                                      *)
LEMMA WriteCounts ==
    ASSUME LedgerTyped, MarksInv, CountInv, UNCHANGED <<rows, triples, stops>>,
           run'.pc # "mark", run'.pc # "off", run.pc # "off",
           \A s \in Sessions, c \in Ledger!Captures :
               run.mem.mark[s][c] = "stored" => file'.mark[s][c] = "stored",
           run.pc = "mark" => \A c \in run.got : file'.mark[run.s][c] = "stored",
           run'.mem.decomposed = run.mem.decomposed,
           file'.decomposed = run.mem.decomposed
    PROVE  CountInv'
<1>1. ASSUME NEW s \in Sessions, NEW c \in Ledger!Captures
      PROVE  rows'[<<s, c>>] <= IF \/ file'.mark[s][c] = "stored"
                                   \/ run'.pc = "mark" /\ s = run'.s /\ c \in run'.got
                                THEN stops' + 1 ELSE stops'
  <2>1. file.mark[s][c] = "stored" => file'.mark[s][c] = "stored"
    BY DEF MarksInv
  <2>2. rows[<<s, c>>] \in Nat /\ stops \in Nat
    BY Counts
  <2> QED
    BY <2>1, <2>2 DEF CountInv
<1>2. ASSUME NEW s \in Sessions
      PROVE  /\ triples'[s] <= IF file'.decomposed[s] \/ (run'.pc = "save" /\ s = run'.s)
                               THEN stops' + 1 ELSE stops'
             /\ triples'[s] <= IF run'.mem.decomposed[s] THEN stops' + 1 ELSE stops'
  <2> DEFINE B == run.mem.decomposed[s]
             C == run'.pc = "save" /\ s = run'.s
             n == triples[s]
  <2>1. n \in Nat /\ stops \in Nat /\ (n <= IF B THEN stops + 1 ELSE stops)
    BY Counts DEF CountInv
  <2> HIDE DEF B, C, n
  <2>2. n <= IF B \/ C THEN stops + 1 ELSE stops
    BY <2>1
  <2> QED
    BY <2>1, <2>2 DEF B, C, n
<1> QED
  BY <1>1, <1>2 DEF CountInv

(* The runner writes nothing.                                              *)
LEMMA KeepCounts ==
    ASSUME LedgerTyped, CountInv, UNCHANGED <<rows, triples, stops, file>>,
           run.pc # "mark", run'.pc # "mark", run.pc # "save", run'.pc # "save",
           \/ run'.pc = "off" \/ run'.mem = file
           \/ run.pc # "off" /\ run'.mem.decomposed = run.mem.decomposed
    PROVE  CountInv'
<1>1. ASSUME NEW s \in Sessions
      PROVE  /\ triples[s] <= IF file.decomposed[s] THEN stops + 1 ELSE stops
             /\ run'.pc # "off" =>
                    triples[s] <= IF run'.mem.decomposed[s] THEN stops + 1 ELSE stops
  <2>1. triples[s] <= IF file.decomposed[s] THEN stops + 1 ELSE stops
    BY DEF CountInv
  <2>2. run.pc # "off" => triples[s] <= IF run.mem.decomposed[s] THEN stops + 1 ELSE stops
    BY DEF CountInv
  <2> QED
    BY <2>1, <2>2
<1> QED
  BY <1>1 DEF CountInv

(* Triples are sent.                                                       *)
LEMMA DecomposeCounts == ASSUME LedgerTyped, CountInv, DecomposeDoes PROVE CountInv'
<1>1. /\ run.pc = "finish" /\ run'.pc = "save" /\ run'.s = run.s /\ run.s \in Sessions
      /\ UNCHANGED <<file, rows, stops>>
  BY RunOf DEF DecomposeDoes
<1>2. ASSUME NEW s \in Sessions
      PROVE  /\ triples'[s] <= IF file.decomposed[s] \/ s = run.s THEN stops + 1 ELSE
                    stops
             /\ triples'[s] <= IF run'.mem.decomposed[s] THEN stops + 1 ELSE stops
  <2> DEFINE A == file.decomposed[s]
             B == run.mem.decomposed[s]
             D == run'.mem.decomposed[s]
             n == triples[s]
             m == triples'[s]
  <2>1. n \in Nat /\ stops \in Nat /\ (n <= IF B THEN stops + 1 ELSE stops)
        /\ (n <= IF A THEN stops + 1 ELSE stops)
    BY <1>1, Counts DEF CountInv
  <2>2. IF s = run.s THEN (m = n + 1 /\ ~B /\ D) \/ (m = n /\ (D <=> B))
        ELSE m = n /\ (D <=> B)
    BY DEF DecomposeDoes
  <2> HIDE DEF A, B, D, n, m
  <2>3. /\ (m <= IF A \/ s = run.s THEN stops + 1 ELSE stops)
        /\ (m <= IF D THEN stops + 1 ELSE stops)
    BY <2>1, <2>2
  <2> QED
    BY <2>3 DEF A, D, m
<1> QED
  BY <1>1, <1>2 DEF CountInv

(* Every step keeps the counts.                                            *)
LEMMA CountKept == ASSUME LedgerTyped, MarksInv, CountInv, RunnerSteps PROVE CountInv'
<1> USE DEF Ledger!server
<1>1. CASE Quiet \/ StageDoes \/ DecomposeDoes
  BY <1>1, QuietCounts, StageCounts, DecomposeCounts
<1>2. CASE StartDoes \/ NextDoes
  BY <1>2, KeepCounts, EmptyIs DEF StartDoes, NextDoes
<1>3. CASE ScreenDoes
  <2>1. /\ run.pc = "screen" /\ run'.pc \in {"finish", "send"}
        /\ UNCHANGED <<rows, triples, stops>>
        /\ run'.mem.decomposed = run.mem.decomposed
    BY <1>3 DEF ScreenDoes
  <2>2. CASE file' = file
    BY <2>1, <2>2, KeepCounts
  <2>3. CASE file' = run'.mem
    <3>1. \A s \in Sessions, c \in Ledger!Captures :
            run.mem.mark[s][c] = "stored" => run'.mem.mark[s][c] = "stored"
      BY <1>3 DEF ScreenDoes
    <3> QED
      BY <2>1, <2>3, <3>1, WriteCounts
  <2> QED
    BY <1>3, <2>2, <2>3 DEF ScreenDoes
<1>4. CASE MarkAllDoes
  <2>1. /\ run.pc = "mark" /\ run'.pc \in {"finish", "send"}
        /\ UNCHANGED <<rows, triples, stops>>
        /\ run'.mem.decomposed = run.mem.decomposed
        /\ file'.decomposed = run.mem.decomposed
        /\ run.s \in Sessions /\ run.got \subseteq Ledger!Captures
    BY <1>4, RunOf DEF MarkAllDoes, MarkDoes
  <2>2. \A s \in Sessions, c \in Ledger!Captures :
            run.mem.mark[s][c] = "stored" => file'.mark[s][c] = "stored"
    BY <1>4 DEF MarkAllDoes, MarkDoes
  <2>3. \A c \in run.got : file'.mark[run.s][c] = "stored"
    BY <1>4, <2>1 DEF MarkAllDoes, MarkDoes
  <2> QED
    BY <2>1, <2>2, <2>3, WriteCounts
<1>5. CASE SaveDoes
  BY <1>5, WriteCounts DEF SaveDoes
<1>6. CASE MarkSomeDoes \/ StopDoes
  BY <1>6, StopCounts DEF MarkSomeDoes, StopDoes
<1>7. ASSUME NEW sent \in SUBSET Ledger!Captures,
             NEW made \in SUBSET sent, SendDoes(sent, made)
      PROVE  CountInv'
  BY <1>7, SendCounts
<1> QED
  BY <1>1, <1>2, <1>3, <1>4, <1>5, <1>6, <1>7 DEF RunnerSteps

(* What is there was staged.                                               *)
LEMMA PresentInit == Ledger!Init => PresentInv
<1> SUFFICES ASSUME Ledger!Init PROVE PresentInv
  OBVIOUS
<1>1. /\ run.pc = "off" /\ keys = {}
      /\ \A s \in Sessions, c \in Ledger!Captures : rows[<<s, c>>] = 0
  BY EmptyIs DEF Ledger!Init, Ledger!Row
<1> QED
  BY <1>1 DEF PresentInv

(* The file after a step still knows what is there.                        *)
LEMMA FilePresent ==
    ASSUME PresentInv, UNCHANGED <<rows, keys>>, run'.pc = "off" \/ run' = run,
           \A s \in Sessions, c \in Ledger!Captures :
               file'.mark[s][c] = "absent" => file.mark[s][c] = "absent"
    PROVE  PresentInv'
BY DEF PresentInv

(* So does the copy of the runner.                                         *)
LEMMA MemPresent ==
    ASSUME PresentInv, UNCHANGED <<rows, keys>>, run.pc # "off",
           \A s \in Sessions, c \in Ledger!Captures :
               run'.mem.mark[s][c] = "absent" <=> run.mem.mark[s][c] = "absent",
           \/ file' = file
           \/ \A s \in Sessions, c \in Ledger!Captures :
                 file'.mark[s][c] = "absent" <=> run.mem.mark[s][c] = "absent"
    PROVE  PresentInv'
BY DEF PresentInv

(* Every step keeps it.                                                    *)
LEMMA PresentKept ==
    ASSUME LedgerTyped, MarksInv, PresentInv, RunnerSteps
    PROVE PresentInv'
<1> USE DEF Ledger!server
<1>1. CASE Quiet
  BY <1>1, FilePresent DEF Quiet
<1>2. CASE StageDoes
  <2>1. \A s \in Sessions, c \in Ledger!Captures :
               file'.mark[s][c] = "absent" => file.mark[s][c] = "absent"
    BY <1>2 DEF StageDoes
  <2> QED
    BY <1>2, <2>1, FilePresent DEF StageDoes
<1>3. CASE StartDoes
  BY <1>3 DEF StartDoes, PresentInv
<1>4. CASE NextDoes
  BY <1>4, FilePresent, MemPresent, EmptyIs DEF NextDoes
<1>5. CASE ScreenDoes
  <2>1. \A s \in Sessions, c \in Ledger!Captures :
               run'.mem.mark[s][c] = "absent" <=> run.mem.mark[s][c] = "absent"
    BY <1>5 DEF ScreenDoes
  <2>2. file' = file \/ file' = run'.mem
    BY <1>5 DEF ScreenDoes
  <2>3. run.pc # "off" /\ UNCHANGED <<rows, keys>>
    BY <1>5 DEF ScreenDoes
  <2> QED
    BY <2>1, <2>2, <2>3, MemPresent
<1>6. CASE MarkAllDoes \/ MarkSomeDoes
  <2>1. ASSUME MarkDoes(file')
        PROVE  \A s \in Sessions, c \in Ledger!Captures :
                  file'.mark[s][c] = "absent" <=> run.mem.mark[s][c] = "absent"
    <3>1. \A c \in run.got : run.mem.mark[run.s][c] # "absent"
      BY <1>6 DEF MarksInv, MarkAllDoes, MarkSomeDoes
    <3> QED
      BY <2>1, <3>1 DEF MarkDoes
  <2>2. CASE MarkAllDoes
    <3>1. run'.mem = file' /\ run.pc # "off" /\ UNCHANGED <<rows, keys>>
      BY <2>2 DEF MarkAllDoes
    <3>2. \A s \in Sessions, c \in Ledger!Captures :
                  file'.mark[s][c] = "absent" <=> run.mem.mark[s][c] = "absent"
      BY <2>1, <2>2 DEF MarkAllDoes
    <3> QED
      BY <3>1, <3>2, MemPresent
  <2>3. CASE MarkSomeDoes
    <3>1. run'.pc = "off" /\ run.pc # "off" /\ UNCHANGED <<rows, keys>>
      BY <2>3, EmptyIs DEF MarkSomeDoes
    <3>2. CASE file' = file
      BY <3>1, <3>2, FilePresent
    <3>3. CASE MarkDoes(file')
      <4>1. \A s \in Sessions, c \in Ledger!Captures :
                  file'.mark[s][c] = "absent" <=> run.mem.mark[s][c] = "absent"
        BY <2>1, <3>3
      <4> QED
        BY <3>1, <4>1 DEF PresentInv
    <3> QED
      BY <2>3, <3>2, <3>3 DEF MarkSomeDoes
  <2> QED
    BY <1>6, <2>2, <2>3
<1>7. CASE DecomposeDoes
  BY <1>7, MemPresent DEF DecomposeDoes
<1>8. CASE SaveDoes
  BY <1>8, MemPresent DEF SaveDoes
<1>9. CASE StopDoes
  BY <1>9, FilePresent, EmptyIs DEF StopDoes
<1>10. ASSUME NEW sent \in SUBSET Ledger!Captures,
              NEW made \in SUBSET sent, SendDoes(sent, made)
       PROVE  PresentInv'
  <2>1. /\ run.s \in Sessions /\ run.pc = "send" /\ run'.mem = run.mem /\ file' = file
        /\ run'.pc = "mark"
    BY <1>10, RunOf DEF SendDoes
  <2>2. \A c \in sent : run.mem.mark[run.s][c] = "pending" /\ c \notin Secret
    BY <1>10, <2>1 DEF SendDoes, Ledger!Pending, MarksInv
  <2>3. \A s \in Sessions, c \in Ledger!Captures :
            rows'[<<s, c>>] > 0 => rows[<<s, c>>] > 0 \/ (s = run.s /\ c \in sent)
    BY <1>10 DEF SendDoes
  <2>4. \A s \in Sessions, c \in Ledger!Captures :
            rows'[<<s, c>>] > 0 =>
                run.mem.mark[s][c] # "absent" /\ file.mark[s][c] # "absent"
    BY <2>1, <2>2, <2>3 DEF PresentInv
  <2>5. \A k \in keys' : k[2] \cap Secret = {}
    <3> SUFFICES ASSUME NEW k \in keys' PROVE k[2] \cap Secret = {}
      OBVIOUS
    <3>1. CASE k \in keys
      BY <3>1 DEF PresentInv
    <3>2. ASSUME NEW c \in made, k = <<run.s, sent, c>> PROVE k[2] \cap Secret = {}
      BY <2>2, <3>2
    <3> QED
      BY <1>10, <3>1, <3>2 DEF SendDoes
  <2> QED
    BY <2>1, <2>4, <2>5 DEF PresentInv
<1> QED
  BY <1>1, <1>2, <1>3, <1>4, <1>5, <1>6, <1>7, <1>8, <1>9, <1>10 DEF RunnerSteps

(* The keys.                                                               *)
LEMMA BatchInit == Ledger!Init => BatchInv
<1> SUFFICES ASSUME Ledger!Init PROVE BatchInv
  OBVIOUS
<1>1. /\ file = Ledger!Empty /\ run.mem = Ledger!Empty /\ run.pc = "off"
      /\ run.todo = {} /\ \A r \in Ledger!Row : rows[r] = 0
  BY EmptyIs DEF Ledger!Init
<1> QED
  BY <1>1, EmptyIs DEF BatchInv, Replayable, Ledger!Pending

(* Whether a file can be replayed depends on what is pending in it.        *)
LEMMA SamePending ==
    ASSUME NEW f, NEW g, NEW r, NEW k, Replayable(f, r, k),
           \A s \in Sessions, c \in Ledger!Captures : g.mark[s][c] = "pending" <=>
               f.mark[s][c] = "pending"
    PROVE  Replayable(g, r, k)
<1>1. \A s \in Sessions : Ledger!Pending(g, s) = Ledger!Pending(f, s)
  BY DEF Ledger!Pending
<1> QED
  BY <1>1 DEF Replayable

(* Less is pending, and of what still is nothing was sent.                 *)
LEMMA LessPending ==
    ASSUME NEW f, NEW g, NEW r, NEW k, Replayable(f, r, k), NEW s \in Sessions,
           \A t \in Sessions, c \in Ledger!Captures :
               t # s => (g.mark[t][c] = "pending" <=> f.mark[t][c] = "pending"),
           \A c \in Ledger!Pending(g, s) : ~(r[<<s, c>>] > 0)
    PROVE  Replayable(g, r, k)
<1>1. \A t \in Sessions \ {s} : Ledger!Pending(g, t) = Ledger!Pending(f, t)
  BY DEF Ledger!Pending
<1> QED
  BY <1>1 DEF Replayable

(* Nothing is pending in an empty file.                                    *)
LEMMA EmptyReplays == ASSUME NEW r, NEW k PROVE Replayable(Ledger!Empty, r, k)
BY EmptyIs DEF Replayable, Ledger!Pending

(* Captures are staged.                                                    *)
LEMMA StageBatch == ASSUME LedgerTyped, PresentInv, BatchInv, StageDoes PROVE BatchInv'
<1> SUFFICES ASSUME batch', ~regrown' PROVE BatchInv'
  BY DEF BatchInv
<1>1. PICK s \in Sessions, new \in SUBSET Ledger!Captures :
        /\ \A c \in new : file.mark[s][c] = "absent"
        /\ \A t \in Sessions, c \in Ledger!Captures :
            file'.mark[t][c] = IF t = s /\ c \in new THEN "pending" ELSE file.mark[t][c]
        /\ regrown' = (regrown \/ Ledger!Open(s))
  BY DEF StageDoes
<1>2. ~regrown /\ ~Ledger!Open(s) /\ UNCHANGED <<batch, run, rows, keys>>
  BY <1>1 DEF StageDoes, Ledger!server
<1>3. s \notin run.todo /\ \A c \in Ledger!Pending(file, s) : ~(rows[<<s, c>>] > 0)
  BY <1>2 DEF Ledger!Open
<1>4. \A c \in new : ~(rows[<<s, c>>] > 0)
  BY <1>1 DEF PresentInv
<1>5. \A c \in Ledger!Pending(file', s) : ~(rows[<<s, c>>] > 0)
  BY <1>1, <1>3, <1>4 DEF Ledger!Pending
<1>6. Replayable(file', rows, keys)
  <2>1. Replayable(file, rows, keys)
    BY <1>2 DEF BatchInv
  <2> QED
    BY <1>1, <1>5, <2>1, LessPending
<1>7. \A t \in run.todo : t # s /\ t \in Sessions
  BY <1>3, RunOf
<1> QED
  BY <1>1, <1>2, <1>6, <1>7 DEF BatchInv

(* A session is screened: what it loses was never sent.                    *)
LEMMA ScreenBatch ==
    ASSUME LedgerTyped, PresentInv, BatchInv, ScreenDoes
    PROVE BatchInv'
<1> SUFFICES ASSUME batch', ~regrown' PROVE BatchInv'
  BY DEF BatchInv
<1>1. PICK bad \in SUBSET Ledger!Captures :
        /\ \A c \in Ledger!Captures : c \in bad <=>
               run.mem.mark[run.s][c] = "pending" /\ c \in Secret
        /\ \A t \in Sessions, c \in Ledger!Captures :
            run'.mem.mark[t][c] = IF t = run.s /\ c \in bad THEN "screened"
                                  ELSE run.mem.mark[t][c]
        /\ file' = run'.mem \/ (file' = file /\ bad = {})
  BY DEF ScreenDoes
<1>2. /\ batch /\ ~regrown /\ UNCHANGED <<rows, keys>> /\ run'.todo = run.todo
      /\ run.todo \subseteq Sessions /\ run.s \in Sessions /\ run'.pc # "mark"
  BY RunOf DEF ScreenDoes, Elsewhere, Ledger!server
<1>3. Replayable(file, rows, keys) /\ Replayable(run.mem, rows, keys)
      /\ \A s \in run.todo :
             \A c \in Ledger!Captures : file.mark[s][c] = run.mem.mark[s][c]
      /\ \A r \in Ledger!Row : rows[r] <= 1
  BY <1>2 DEF BatchInv
<1>4. Replayable(run'.mem, rows, keys)
  <2>1. CASE bad = {}
    BY <1>1, <1>3, <2>1, SamePending
  <2>2. CASE bad # {}
    <3>1. PICK b \in bad : b \in Ledger!Pending(run.mem, run.s) /\ b \in Secret
      BY <1>1, <2>2 DEF Ledger!Pending
    <3>2. \A c \in Ledger!Pending(run.mem, run.s) : ~(rows[<<run.s, c>>] > 0)
      <4> SUFFICES ASSUME NEW c \in Ledger!Pending(run.mem, run.s), rows[<<run.s, c>>] > 0
                   PROVE  FALSE
        OBVIOUS
      <4> DEFINE k == <<run.s, Ledger!Pending(run.mem, run.s), c>>
      <4>1. k \in keys
        BY <1>2, <1>3 DEF Replayable
      <4>2. k[2] \cap Secret = {} /\ k[2] = Ledger!Pending(run.mem, run.s)
        BY <4>1 DEF PresentInv
      <4> QED
        BY <3>1, <4>2
    <3>3. Ledger!Pending(run'.mem, run.s) \subseteq Ledger!Pending(run.mem, run.s)
      BY <1>1, <1>2 DEF Ledger!Pending
    <3>4. \A t \in Sessions, c \in Ledger!Captures :
            t # run.s => (run'.mem.mark[t][c] = "pending" <=>
                run.mem.mark[t][c] = "pending")
      BY <1>1
    <3>5. \A c \in Ledger!Pending(run'.mem, run.s) : ~(rows[<<run.s, c>>] > 0)
      BY <3>2, <3>3
    <3> QED
      BY <1>2, <1>3, <3>4, <3>5, LessPending
  <2> QED
    BY <2>1, <2>2
<1>5. Replayable(file', rows, keys)
  BY <1>1, <1>3, <1>4
<1>6. \A s \in run.todo :
    \A c \in Ledger!Captures : file'.mark[s][c] = run'.mem.mark[s][c]
  BY <1>1, <1>2, <1>3
<1> QED
  BY <1>2, <1>3, <1>4, <1>5, <1>6 DEF BatchInv

(* A call files what it made under its key.                                *)
LEMMA SendReplays ==
    ASSUME NEW sent, NEW made, SendDoes(sent, made), LedgerTyped, batch, NEW f,
           Replayable(f, rows, keys), Ledger!Pending(f, run.s) = sent
    PROVE  Replayable(f, rows', keys')
<1> SUFFICES ASSUME NEW s \in Sessions,
    NEW c \in Ledger!Pending(f, s), rows'[<<s, c>>] > 0
             PROVE  <<s, Ledger!Pending(f, s), c>> \in keys'
  BY DEF Replayable
<1>1. c \in Ledger!Captures
  BY DEF Ledger!Pending
<1>2. CASE s = run.s /\ c \in made
  BY <1>2 DEF SendDoes
<1>3. CASE ~(s = run.s /\ c \in made)
  <2>1. rows[<<s, c>>] > 0
    BY <1>1, <1>3 DEF SendDoes
  <2> QED
    BY <2>1 DEF Replayable, SendDoes
<1> QED
  BY <1>2, <1>3

(* A call of the server.                                                   *)
LEMMA SendBatch ==
    ASSUME LedgerTyped, BatchInv, NEW sent \in SUBSET Ledger!Captures,
           NEW made \in SUBSET sent,
           SendDoes(sent, made)
    PROVE  BatchInv'
<1> SUFFICES ASSUME batch', ~regrown' PROVE BatchInv'
  BY DEF BatchInv
<1>1. /\ batch /\ ~regrown /\ run'.todo = run.todo /\ run.s \in run.todo
      /\ run.todo \subseteq Sessions /\ run.s \in Sessions /\ file' = file
      /\ run'.mem = run.mem /\ run'.s = run.s /\ run'.sent = sent
      /\ sent = Ledger!Pending(run.mem, run.s)
      /\ run'.got = made \cup Ledger!Replayed(sent)
  BY RunOf DEF SendDoes, Elsewhere, LedgerTyped
<1>2. Replayable(file, rows, keys) /\ Replayable(run.mem, rows, keys)
      /\ (\A s \in run.todo :
             \A c \in Ledger!Captures : file.mark[s][c] = run.mem.mark[s][c])
      /\ \A r \in Ledger!Row : rows[r] <= 1
  BY <1>1 DEF BatchInv
<1>3. Ledger!Pending(file, run.s) = sent
  BY <1>1, <1>2 DEF Ledger!Pending
<1>4. Replayable(file, rows', keys') /\ Replayable(run.mem, rows', keys')
  BY <1>1, <1>2, <1>3, SendReplays
<1>5. \A c \in sent : <<run.s, sent, c>> \in keys => c \in Ledger!Replayed(sent)
  BY <1>1 DEF Ledger!Replayed
<1>6. \A c \in made : rows[<<run.s, c>>] = 0
  <2> SUFFICES ASSUME NEW c \in made PROVE rows[<<run.s, c>>] = 0
    OBVIOUS
  <2>1. c \in sent /\ c \notin Ledger!Replayed(sent) /\ c \in Ledger!Captures
    BY DEF SendDoes
  <2>2. ~(rows[<<run.s, c>>] > 0)
    BY <1>1, <1>2, <1>5, <2>1 DEF Replayable
  <2> QED
    BY <1>1, <2>1, <2>2, Counts
<1>7. ASSUME NEW r \in Ledger!Row PROVE rows'[r] <= 1
  <2>1. PICK s \in Sessions, c \in Ledger!Captures : r = <<s, c>>
    BY DEF Ledger!Row
  <2>2. rows[<<s, c>>] <= 1
    BY <1>2, <2>1
  <2> QED
    BY <1>6, <2>1, <2>2 DEF SendDoes
<1>8. \A c \in sent : <<run.s, sent, c>> \in keys' => c \in run'.got
  <2> SUFFICES ASSUME NEW c \in sent, <<run.s, sent, c>> \in keys' PROVE c \in run'.got
    OBVIOUS
  <2>1. CASE <<run.s, sent, c>> \in keys
    BY <1>1, <1>5, <2>1
  <2>2. ASSUME NEW d \in made, <<run.s, sent, c>> = <<run.s, sent, d>>
      PROVE c \in run'.got
    BY <1>1, <2>2
  <2> QED
    BY <2>1, <2>2 DEF SendDoes
<1> QED
  BY <1>1, <1>2, <1>4, <1>7, <1>8 DEF BatchInv

(* An answer is marked.                                                    *)
LEMMA MarkBatch ==
    ASSUME LedgerTyped, BatchInv, run.pc = "mark", batch, ~regrown, NEW f, MarkDoes(f)
    PROVE  Replayable(f, rows, keys)
<1>1. /\ Replayable(run.mem, rows, keys) /\ run.sent = Ledger!Pending(run.mem, run.s)
      /\ \A c \in run.sent : <<run.s, run.sent, c>> \in keys => c \in run.got
  BY DEF BatchInv
<1>2. run.s \in Sessions
  BY RunOf
<1>3. \A c \in Ledger!Pending(f, run.s) : ~(rows[<<run.s, c>>] > 0)
  <2> SUFFICES ASSUME NEW c \in Ledger!Pending(f, run.s), rows[<<run.s, c>>] > 0
      PROVE FALSE
    OBVIOUS
  <2>1. c \notin run.got /\ c \in Ledger!Pending(run.mem, run.s)
    BY <1>2 DEF MarkDoes, Ledger!Pending
  <2>2. <<run.s, run.sent, c>> \in keys
    BY <1>1, <1>2, <2>1 DEF Replayable
  <2> QED
    BY <1>1, <2>1, <2>2
<1>4. \A t \in Sessions, c \in Ledger!Captures :
        t # run.s => (f.mark[t][c] = "pending" <=> run.mem.mark[t][c] = "pending")
  BY DEF MarkDoes
<1> QED
  BY <1>1, <1>2, <1>3, <1>4, LessPending

(* The run ends.                                                           *)
LEMMA OffBatch ==
    ASSUME run' = Ledger!Off, UNCHANGED <<rows, keys>>,
           \A r \in Ledger!Row : rows[r] <= 1,
           Replayable(file', rows, keys)
    PROVE  BatchInv'
BY EmptyIs, EmptyReplays DEF BatchInv

(* Every step keeps it.                                                    *)
LEMMA BatchKept == ASSUME LedgerTyped, PresentInv, BatchInv, RunnerSteps PROVE BatchInv'
<1> USE DEF Ledger!server
<1>1. CASE StageDoes \/ ScreenDoes
  BY <1>1, StageBatch, ScreenBatch
<1>2. ASSUME NEW sent \in SUBSET Ledger!Captures,
             NEW made \in SUBSET sent, SendDoes(sent, made)
      PROVE  BatchInv'
  BY <1>2, SendBatch
<1>3. ASSUME batch', ~regrown', ~StageDoes, ~ScreenDoes,
             ~ \E sent \in SUBSET Ledger!Captures :
                 \E made \in SUBSET sent : SendDoes(sent, made)
      PROVE  BatchInv'
  <2>1. batch /\ ~regrown /\ UNCHANGED <<rows, keys>>
    <3>1. \/ Quiet \/ StartDoes \/ NextDoes \/ MarkAllDoes \/ MarkSomeDoes \/ DecomposeDoes
          \/ SaveDoes \/ StopDoes
      BY <1>3 DEF RunnerSteps
    <3>2. batch' = batch /\ regrown' = regrown /\ rows' = rows /\ keys' = keys
      BY <3>1 DEF Quiet, StartDoes, NextDoes, MarkAllDoes, MarkSomeDoes, DecomposeDoes,
         SaveDoes, StopDoes, Elsewhere
    <3> QED
      BY <1>3, <3>2
  <2>2. Replayable(file, rows, keys) /\ Replayable(run.mem, rows, keys)
        /\ (\A s \in run.todo :
               \A c \in Ledger!Captures : file.mark[s][c] = run.mem.mark[s][c])
        /\ \A r \in Ledger!Row : rows[r] <= 1
    BY <2>1 DEF BatchInv
  <2>3. CASE Quiet
    <3>1. Replayable(file', rows, keys)
      BY <2>2, <2>3, SamePending DEF Quiet
    <3> QED
      BY <2>1, <2>2, <2>3, <3>1 DEF Quiet, BatchInv
  <2>4. CASE StartDoes
    BY <2>1, <2>2, <2>4 DEF StartDoes, BatchInv
  <2>5. CASE NextDoes
    <3>1. CASE run' = Ledger!Off
      BY <2>1, <2>2, <2>5, <3>1, OffBatch DEF NextDoes
    <3>2. CASE run' # Ledger!Off
      BY <2>1, <2>2, <2>5, <3>2 DEF NextDoes, BatchInv
    <3> QED
      BY <3>1, <3>2
  <2>6. CASE MarkAllDoes
    <3>1. Replayable(file', rows, keys)
      BY <2>1, <2>6, MarkBatch DEF MarkAllDoes
    <3> QED
      BY <2>1, <2>2, <2>6, <3>1 DEF MarkAllDoes, BatchInv
  <2>7. CASE MarkSomeDoes
    <3>1. Replayable(file', rows, keys)
      BY <2>1, <2>2, <2>7, MarkBatch DEF MarkSomeDoes
    <3> QED
      BY <2>1, <2>2, <2>7, <3>1, OffBatch DEF MarkSomeDoes
  <2>8. CASE DecomposeDoes
    <3>1. Replayable(run'.mem, rows, keys)
      BY <2>2, <2>8, SamePending DEF DecomposeDoes
    <3> QED
      BY <2>1, <2>2, <2>8, <3>1 DEF DecomposeDoes, BatchInv
  <2>9. CASE SaveDoes
    <3>1. Replayable(file', rows, keys)
      BY <2>2, <2>9, SamePending DEF SaveDoes
    <3> QED
      BY <2>1, <2>2, <2>9, <3>1 DEF SaveDoes, BatchInv
  <2>10. CASE StopDoes
    BY <2>1, <2>2, <2>10, OffBatch DEF StopDoes
  <2> QED
    BY <1>3, <2>3, <2>4, <2>5, <2>6, <2>7, <2>8, <2>9, <2>10 DEF RunnerSteps
<1> QED
  BY <1>1, <1>2, <1>3 DEF BatchInv

(* The order.                                                              *)
LEMMA OrderInit == Ledger!Init => OrderInv
<1> SUFFICES ASSUME Ledger!Init PROVE OrderInv
  OBVIOUS
<1>1. /\ file = Ledger!Empty /\ run.pc = "off" /\ latest = 0
      /\ \A r \in Ledger!Row : rows[r] = 0
  BY EmptyIs DEF Ledger!Init
<1> QED
  BY <1>1, EmptyIs DEF OrderInv

(* A call stacks what is not younger than what is there.                   *)
LEMMA SendOrder ==
    ASSUME LedgerTyped, OrderInv, NEW sent \in SUBSET Ledger!Captures,
           NEW made \in SUBSET sent,
           SendDoes(sent, made)
    PROVE  OrderInv'
<1> SUFFICES ASSUME ~late' PROVE OrderInv'
  BY DEF OrderInv
<1>1. /\ ~late /\ run.pc = "send" /\ run.s \in run.todo /\ run.s \in Sessions
      /\ \A t \in run.todo : t <= run.s
      /\ run'.mem = run.mem /\ run'.todo = run.todo /\ file' = file /\ run'.pc = "mark"
  BY RunOf DEF SendDoes, Elsewhere, LedgerTyped
<1>2. /\ latest = 0 => \A r \in Ledger!Row : rows[r] = 0
      /\ latest # 0 => /\ \E c \in Ledger!Captures : rows[<<latest, c>>] > 0
                       /\ \A r \in Ledger!Row : rows[r] > 0 => latest <= r[1]
      /\ \A s \in Sessions :
            /\ run.mem.status[s] = "extracted" => s \in run.todo
            /\ file.status[s] = "extracted" => s \in run.todo
            /\ s \in run.todo => Older(s)
  BY <1>1 DEF OrderInv
<1>3. latest \in Nat /\ \A s \in Sessions : s \in Nat /\ s # 0
  BY SessionsAre DEF LedgerTyped
<1>4. CASE made = {}
  <2>1. latest' = latest /\ \A r \in Ledger!Row : rows'[r] = rows[r]
    BY <1>4 DEF SendDoes, Ledger!Row
  <2>2. (latest # 0 => \E c \in Ledger!Captures : rows'[<<latest, c>>] > 0)
    <3> SUFFICES ASSUME latest # 0
        PROVE \E c \in Ledger!Captures : rows'[<<latest, c>>] > 0
      OBVIOUS
    <3>1. PICK c \in Ledger!Captures : rows[<<latest, c>>] > 0
      BY <1>2
    <3>2. <<latest, c>> \in Ledger!Row
      BY DEF LedgerTyped, Ledger!Row
    <3> QED
      BY <2>1, <3>1, <3>2
  <2> QED
    BY <1>1, <1>2, <2>1, <2>2 DEF OrderInv, Older
<1>5. CASE made # {}
  <2>1. latest' = run.s /\ latest' # 0
    BY <1>1, <1>3, <1>5 DEF SendDoes
  <2>2. PICK c \in made : TRUE
    BY <1>5
  <2>3. c \in Ledger!Captures /\ rows'[<<latest', c>>] > 0
    BY <1>1, <2>1, <2>2, Counts DEF SendDoes
  <2>4. ASSUME NEW r \in Ledger!Row, rows'[r] > 0 PROVE latest' <= r[1]
    <3>1. PICK s \in Sessions, d \in Ledger!Captures : r = <<s, d>>
      BY DEF Ledger!Row
    <3>2. CASE s = run.s
      BY <1>3, <2>1, <3>1, <3>2
    <3>3. CASE s # run.s
      <4>1. rows[r] > 0
        BY <2>4, <3>1, <3>3 DEF SendDoes
      <4>2. latest # 0 /\ latest <= s
        BY <1>2, <3>1, <4>1
      <4>3. run.s <= latest
        BY <1>1, <1>2, <4>2 DEF Older
      <4> QED
        BY <1>1, <1>3, <2>1, <3>1, <4>2, <4>3
    <3> QED
      BY <3>2, <3>3
  <2>5. \A s \in run.todo : Older(s)'
    BY <1>1, <2>1 DEF Older
  <2> QED
    BY <1>1, <1>2, <2>1, <2>3, <2>4, <2>5 DEF OrderInv
<1> QED
  BY <1>4, <1>5

(* Every step keeps the order.                                             *)
LEMMA OrderKept == ASSUME LedgerTyped, MarksInv, OrderInv, RunnerSteps PROVE OrderInv'
<1> USE DEF Ledger!server
<1>1. ASSUME NEW sent \in SUBSET Ledger!Captures,
             NEW made \in SUBSET sent, SendDoes(sent, made)
      PROVE  OrderInv'
  BY <1>1, SendOrder
<1>2. CASE StageDoes
  <2> SUFFICES ASSUME ~late' PROVE OrderInv'
    BY DEF OrderInv
  <2>1. ~late /\ latest = 0 /\ run.pc = "off" /\ UNCHANGED <<latest, run, rows>>
    BY <1>2 DEF StageDoes
  <2> QED
    BY <2>1 DEF OrderInv, Older
<1>3. ASSUME ~late', ~StageDoes,
             ~ \E sent \in SUBSET Ledger!Captures :
                 \E made \in SUBSET sent : SendDoes(sent, made)
      PROVE  OrderInv'
  <2>1. \/ Quiet \/ StartDoes \/ NextDoes \/ ScreenDoes \/ MarkAllDoes \/ MarkSomeDoes
        \/ DecomposeDoes \/ SaveDoes \/ StopDoes
    BY <1>3 DEF RunnerSteps
  <2>2. late' = late /\ UNCHANGED <<rows, latest>>
    BY <2>1 DEF Quiet, StartDoes, NextDoes, ScreenDoes, MarkAllDoes, MarkSomeDoes,
       DecomposeDoes,
       SaveDoes, StopDoes, Elsewhere
  <2>3. /\ latest = 0 => \A r \in Ledger!Row : rows[r] = 0
        /\ latest # 0 => /\ \E c \in Ledger!Captures : rows[<<latest, c>>] > 0
                         /\ \A r \in Ledger!Row : rows[r] > 0 => latest <= r[1]
    BY <1>3, <2>2 DEF OrderInv
  <2>4. (\A s \in Sessions : file.status[s] = "extracted" => Older(s))
        /\ (run.pc # "off" => \A s \in Sessions :
               /\ run.mem.status[s] = "extracted" => s \in run.todo
               /\ file.status[s] = "extracted" => s \in run.todo
               /\ s \in run.todo => Older(s))
    BY <1>3, <2>2 DEF OrderInv
  <2>5. \A s : Older(s)' <=> Older(s)
    BY <2>2 DEF Older
  <2>6. /\ \A s \in Sessions : file'.status[s] = "extracted" => Older(s)
        /\ run'.pc # "off" => \A s \in Sessions :
              /\ run'.mem.status[s] = "extracted" => s \in run'.todo
              /\ file'.status[s] = "extracted" => s \in run'.todo
              /\ s \in run'.todo => Older(s)
    <3>1. CASE Quiet
      BY <2>4, <3>1 DEF Quiet
    <3>2. CASE StartDoes
      <4>1. \A s \in Sessions : file.status[s] = "extracted" =>
          Ledger!Staged(file, s) # {}
        BY DEF MarksInv, FileGood, Ledger!Staged
      <4> QED
        BY <2>4, <3>2, <4>1 DEF StartDoes
    <3>3. CASE NextDoes
      BY <2>4, <3>3, EmptyIs DEF NextDoes
    <3>4. CASE ScreenDoes
      BY <2>4, <3>4 DEF ScreenDoes
    <3>5. CASE MarkAllDoes
      BY <2>4, <3>5 DEF MarkAllDoes, MarkDoes
    <3>6. CASE MarkSomeDoes
      BY <2>4, <3>6, EmptyIs DEF MarkSomeDoes, MarkDoes
    <3>7. CASE DecomposeDoes
      BY <2>4, <3>7 DEF DecomposeDoes
    <3>8. CASE SaveDoes
      BY <2>4, <3>8 DEF SaveDoes
    <3>9. CASE StopDoes
      BY <2>4, <3>9, EmptyIs DEF StopDoes
    <3> QED
      BY <2>1, <3>1, <3>2, <3>3, <3>4, <3>5, <3>6, <3>7, <3>8, <3>9
  <2> QED
    BY <2>2, <2>3, <2>5, <2>6 DEF OrderInv
<1> QED
  BY <1>1, <1>2, <1>3 DEF OrderInv

(* The scope.                                                              *)
LEMMA ScopeInit == Ledger!Init => ScopeInv
<1> SUFFICES ASSUME Ledger!Init PROVE ScopeInv
  OBVIOUS
<1>1. /\ run.pc = "off" /\ run.todo = {} /\ asked = NoScope /\ scope = NoScope
      /\ \A s \in Sessions : ~Ledger!Known(s)
  BY EmptyIs DEF Ledger!Init, Ledger!Known
<1> QED
  BY <1>1 DEF ScopeInv

(* A step that finds no session.                                           *)
LEMMA ScopeStays ==
    ASSUME ScopeInv, UNCHANGED <<codex, asked, scope, foundUnder>>,
           \A s \in Sessions : Ledger!Known(s)' => Ledger!Known(s),
           (\E s \in Sessions : Ledger!Known(s)) => \E s \in Sessions : Ledger!Known(s)',
           run'.pc # "off" => \A s \in Sessions : run'.mem.status[s] # "absent" =>
               Ledger!Known(s)',
           run'.pc # "off" => \E s \in Sessions : run'.mem.status[s] # "absent",
           \A s \in run'.todo : run'.mem.status[s] # "absent"
    PROVE  ScopeInv'
BY DEF ScopeInv

(* The steps that find no session.                                         *)
SameScope ==
    \/ StageDoes \/ StartDoes \/ NextDoes \/ ScreenDoes \/ MarkAllDoes
    \/ MarkSomeDoes \/ DecomposeDoes \/ SaveDoes \/ StopDoes
    \/ \E sent \in SUBSET Ledger!Captures : \E made \in SUBSET sent : SendDoes(sent, made)

(* Those steps.                                                            *)
LEMMA StepScope == ASSUME LedgerTyped, ScopeInv, SameScope PROVE ScopeInv'
<1>1. UNCHANGED <<codex, asked, scope, foundUnder>>
  BY DEF SameScope, StageDoes, StartDoes, NextDoes, ScreenDoes, SendDoes, MarkAllDoes,
     MarkSomeDoes,
     DecomposeDoes, SaveDoes, StopDoes, Elsewhere
<1>2. /\ run.pc # "off" => \A s \in Sessions : run.mem.status[s] # "absent" =>
             Ledger!Known(s)
      /\ run.pc # "off" => \E s \in Sessions : run.mem.status[s] # "absent"
      /\ run.todo \subseteq Sessions /\ \A s \in run.todo : run.mem.status[s] # "absent"
  BY RunOf DEF ScopeInv
<1>3. \A s \in Sessions : Ledger!Known(s)' <=> file'.status[s] # "absent"
  BY DEF Ledger!Known
<1>4. CASE StageDoes
  <2>1. run' = run /\ \A s \in Sessions : Ledger!Known(s)' <=> Ledger!Known(s)
    BY <1>3, <1>4 DEF StageDoes, Ledger!Known
  <2> QED
    BY <1>1, <1>2, <2>1, ScopeStays
<1>5. CASE StartDoes
  <2>1. /\ file' = file /\ run'.mem = file /\ run'.todo # {}
        /\ run'.todo \subseteq Sessions
        /\ \A s \in run'.todo : file.status[s] # "absent"
    BY <1>5 DEF StartDoes, RunRec
  <2> QED
    BY <1>1, <1>3, <2>1, ScopeStays DEF Ledger!Known
<1>6. CASE run' = Ledger!Off /\ file' = file
  BY <1>1, <1>3, <1>6, EmptyIs, ScopeStays DEF Ledger!Known
<1>7. ASSUME run.pc # "off", run' = Ledger!Off, file'.status = run.mem.status
    PROVE ScopeInv'
  BY <1>1, <1>2, <1>3, <1>7, EmptyIs, ScopeStays
<1>8. ASSUME run.pc # "off",
             \A s \in Sessions : run'.mem.status[s] = "absent" <=>
                 run.mem.status[s] = "absent",
             \/ file' = file
             \/ \A s \in Sessions : file'.status[s] = "absent" <=>
                    run.mem.status[s] = "absent",
             run'.todo \subseteq run.todo
      PROVE  ScopeInv'
  <2>1. \A s \in Sessions : Ledger!Known(s)' => Ledger!Known(s)
    BY <1>2, <1>3, <1>8 DEF Ledger!Known
  <2>2. (\E s \in Sessions : Ledger!Known(s)) => \E s \in Sessions : Ledger!Known(s)'
    BY <1>2, <1>3, <1>8 DEF Ledger!Known
  <2>3. \A s \in Sessions : run'.mem.status[s] # "absent" => Ledger!Known(s)'
    BY <1>2, <1>3, <1>8 DEF Ledger!Known
  <2>4. \E s \in Sessions : run'.mem.status[s] # "absent"
    BY <1>2, <1>8
  <2>5. \A s \in run'.todo : run'.mem.status[s] # "absent"
    BY <1>2, <1>8
  <2> QED
    BY <1>1, <2>1, <2>2, <2>3, <2>4, <2>5, ScopeStays
<1>9. CASE NextDoes
  BY <1>6, <1>8, <1>9 DEF NextDoes
<1>10. CASE ScreenDoes
  <2>1. file' = file \/ file'.status = run.mem.status
    BY <1>10 DEF ScreenDoes
  <2> QED
    BY <1>8, <1>10, <2>1 DEF ScreenDoes
<1>11. CASE MarkAllDoes
  BY <1>8, <1>11 DEF MarkAllDoes, MarkDoes
<1>12. CASE MarkSomeDoes
  BY <1>6, <1>7, <1>12 DEF MarkSomeDoes, MarkDoes
<1>13. CASE DecomposeDoes
  BY <1>8, <1>13 DEF DecomposeDoes
<1>14. CASE SaveDoes
  <2>1. \A s \in Sessions : file'.status[s] = "absent" <=> run.mem.status[s] = "absent"
    <3>1. run.s \in run.todo
      BY <1>14 DEF SaveDoes, LedgerTyped
    <3> QED
      BY <1>2, <1>14, <3>1 DEF SaveDoes
  <2> QED
    BY <1>8, <1>14, <2>1 DEF SaveDoes
<1>15. CASE StopDoes
  BY <1>6, <1>15 DEF StopDoes
<1>16. ASSUME NEW sent \in SUBSET Ledger!Captures,
              NEW made \in SUBSET sent, SendDoes(sent, made)
       PROVE  ScopeInv'
  BY <1>8, <1>16 DEF SendDoes
<1> QED
  BY <1>4, <1>5, <1>9, <1>10, <1>11, <1>12, <1>13, <1>14, <1>15, <1>16 DEF SameScope

(* A manifest adds sessions.                                               *)
LEMMA AddScope == ASSUME LedgerTyped, ScopeInv, Ledger!Manifest PROVE ScopeInv'
<1>1. PICK sc \in Scopes :
        (codex =>
            (\A s \in Sessions : ~Ledger!Known(s)) \/ scope = sc) /\ Ledger!AddSessions(sc)
  BY DEF Ledger!Manifest
<1>2. /\ asked = NoScope /\ found # {} /\ found \subseteq Sessions
      /\ file \in Ledger!Staging
      /\ UNCHANGED <<codex, scope, run>>
      /\ file' = [file EXCEPT !.status = Ledger!Merged]
      /\ \A s \in Sessions : foundUnder'[s] =
             IF codex /\ s \in found /\ ~Ledger!Known(s) THEN sc ELSE foundUnder[s]
      /\ asked' = IF codex THEN sc ELSE NoScope
  BY <1>1 DEF Ledger!AddSessions, LedgerTyped
<1>3. \A s \in Sessions : Ledger!Known(s)' <=> Ledger!Known(s) \/ s \in found
  <2>1. file'.status = Ledger!Merged
    BY <1>2, MergedIs, StatusOf
  <2>2. \A s \in Sessions : Ledger!Merged[s] = "absent" <=>
      ~Ledger!Known(s) /\ s \notin found
    BY MergedIs DEF Ledger!Known
  <2> QED
    BY <2>1, <2>2 DEF Ledger!Known
<1>4. \A s \in run.todo : run.mem.status[s] # "absent"
  BY DEF ScopeInv
<1>5. ASSUME codex
      PROVE  /\ \E s \in Sessions : Ledger!Known(s)'
             /\ \A s \in Sessions : Ledger!Known(s)' => foundUnder'[s] = sc
             /\ scope # NoScope => scope = sc
  <2>1. \E s \in Sessions : Ledger!Known(s)'
    BY <1>2, <1>3
  <2>2. sc # NoScope
    BY Assumed DEF Ledger!BackfillBounds
  <2>3. scope # NoScope => \E s \in Sessions : Ledger!Known(s)
    BY <1>5 DEF ScopeInv
  <2>4. scope # NoScope => scope = sc
    BY <1>1, <1>5, <2>3
  <2>5. \A s \in Sessions : Ledger!Known(s) => scope = sc /\ foundUnder[s] = sc
    BY <1>1, <1>5, <2>2 DEF ScopeInv
  <2>6. \A s \in Sessions : Ledger!Known(s)' => foundUnder'[s] = sc
    BY <1>2, <1>3, <1>5, <2>5
  <2> QED
    BY <2>1, <2>4, <2>6
<1> QED
  BY <1>2, <1>3, <1>4, <1>5 DEF ScopeInv

(* The rest of the inventory.                                              *)
LEMMA QuietScope ==
    ASSUME LedgerTyped, ScopeInv,
           \/ Ledger!Appear \/ Ledger!NameScope \/ Ledger!ManifestDies \/ UNCHANGED Ledger!vars
           \/ \E s \in Sessions : Ledger!PacketFails(s) \/ Ledger!Skip(s)
    PROVE  ScopeInv'
<1>1. CASE Ledger!Appear \/ UNCHANGED Ledger!vars
  BY <1>1 DEF Ledger!Appear, Ledger!vars, Ledger!ghosts, ScopeInv, Ledger!Known
<1>2. CASE Ledger!NameScope
  BY <1>2 DEF Ledger!NameScope, Ledger!ghosts, ScopeInv, Ledger!Known
<1>3. CASE Ledger!ManifestDies
  BY <1>3 DEF Ledger!ManifestDies, Ledger!ghosts, ScopeInv, Ledger!Known
<1>4. ASSUME NEW s \in Sessions, Ledger!PacketFails(s) \/ Ledger!Skip(s) PROVE ScopeInv'
  <2>1. UNCHANGED <<codex, scope, asked, foundUnder, run>> /\ Quiet
    BY <1>4, QuietSteps DEF Ledger!PacketFails, Ledger!Skip, Ledger!ghosts
  <2>2. /\ file' = [file EXCEPT !.status[s] = "skipped"] /\ file.status[s] # "absent"
        /\ file \in Ledger!Staging
    BY <1>4 DEF Ledger!PacketFails, Ledger!Skip, LedgerTyped
  <2>3. /\ file'.status = [file.status EXCEPT ![s] = "skipped"]
        /\ file.status \in [Sessions -> Ledger!Statuses]
    BY <2>2 DEF Ledger!Staging
  <2>4. \A t \in Sessions : Ledger!Known(t)' <=> Ledger!Known(t)
    BY <2>2, <2>3 DEF Ledger!Known
  <2> QED
    BY <2>1, <2>4, ScopeStays DEF ScopeInv
<1> QED
  BY <1>1, <1>2, <1>3, <1>4

(* Every step keeps the scope.                                             *)
LEMMA ScopeKept ==
    ASSUME LedgerTyped, ScopeInv, [Ledger!Next]_(Ledger!vars)
    PROVE ScopeInv'
<1>1. CASE Ledger!Manifest
  BY <1>1, AddScope
<1>2. CASE \/ Ledger!Appear \/ Ledger!NameScope \/ Ledger!ManifestDies \/ UNCHANGED Ledger!vars
           \/ \E s \in Sessions : Ledger!PacketFails(s) \/ Ledger!Skip(s)
  BY <1>2, QuietScope
<1>3. CASE \E s \in Sessions, typed \in SUBSET Typed : Ledger!Stage(s, typed)
  BY <1>3, StageIs, StepScope DEF SameScope
<1>4. CASE Ledger!Runner
  BY <1>4, StepScope, StartIs, NextIs, ScreenIs, SendIs, MarkAllIs, MarkSomeIs,
     DecomposeIs,
     SaveIs, StopIs DEF Ledger!Runner, SameScope
<1> QED
  BY <1>1, <1>2, <1>3, <1>4 DEF Ledger!Next, Ledger!Inventory

(* The inductive invariant of the ledger.                                  *)
LedgerInv ==
    /\ LedgerTyped /\ MarksInv /\ PresentInv /\ CountInv /\ BatchInv /\ OrderInv
    /\ ScopeInv

(* It holds at the start.                                                  *)
LEMMA LedgerStarts == Ledger!Init => LedgerInv
BY LedgerInit, MarksInit, PresentInit, CountInit, BatchInit, OrderInit, ScopeInit
   DEF LedgerInv

(* Every step keeps it.                                                    *)
LEMMA LedgerKept == LedgerInv /\ [Ledger!Next]_(Ledger!vars) => LedgerInv'
BY TypedKept, StepIs, MarksKept, PresentKept, CountKept, BatchKept, OrderKept, ScopeKept
   DEF LedgerInv

(* It says that the ledger is true.                                        *)
LEMMA LedgerIsGood == LedgerInv => Ledger!LedgerIsTrue
<1> SUFFICES ASSUME LedgerInv PROVE Ledger!LedgerIsTrue
  OBVIOUS
<1>1. LedgerTyped /\ MarksInv /\ CountInv /\ BatchInv /\ OrderInv /\ ScopeInv
  BY DEF LedgerInv
<1>2. Ledger!StoredOnce
  <2>1. ASSUME NEW r \in Ledger!Row PROVE rows[r] <= IF batch /\ ~regrown THEN 1 ELSE
      1 + stops
    <3>1. PICK s \in Sessions, c \in Ledger!Captures : r = <<s, c>>
      BY DEF Ledger!Row
    <3>2. rows[<<s, c>>] \in Nat /\ stops \in Nat /\ rows[<<s, c>>] <= stops + 1
      BY <1>1, Counts DEF CountInv
    <3> QED
      BY <1>1, <3>1, <3>2 DEF BatchInv
  <2>2. ASSUME NEW s \in Sessions PROVE triples[s] <= 1 + stops
    <3>1. triples[s] \in Nat /\ stops \in Nat
          /\ (triples[s] <= stops + 1 \/ triples[s] <= stops)
      BY <1>1, Counts DEF CountInv
    <3> QED
      BY <3>1
  <2> QED
    BY <2>1, <2>2 DEF Ledger!StoredOnce
<1>3. Ledger!MarksAreTrue
  BY <1>1 DEF MarksInv, FileGood, Ledger!MarksAreTrue, Ledger!Stored, Ledger!Pending
<1>4. Ledger!OldestOnTop
  <2> DEFINE stored == {s \in Sessions : \E c \in Ledger!Captures : rows[<<s, c>>] > 0}
  <2> SUFFICES ASSUME ~late, stored # {} PROVE latest = Ledger!Oldest(stored)
    BY DEF Ledger!OldestOnTop
  <2>1. PICK s \in Sessions, c \in Ledger!Captures : rows[<<s, c>>] > 0
    OBVIOUS
  <2>2. latest # 0
    BY <1>1, <2>1 DEF OrderInv, Ledger!Row
  <2>3. latest \in stored
    BY <1>1, <2>2 DEF OrderInv, LedgerTyped
  <2>4. \A t \in stored : latest <= t
    <3> SUFFICES ASSUME NEW t \in stored PROVE latest <= t
      OBVIOUS
    <3>1. PICK d \in Ledger!Captures : rows[<<t, d>>] > 0
      OBVIOUS
    <3>2. <<t, d>> \in Ledger!Row /\ <<t, d>>[1] = t
      BY DEF Ledger!Row
    <3> QED
      BY <1>1, <2>2, <3>1, <3>2 DEF OrderInv
  <2>5. \A t \in stored : t \in Nat
    BY SessionsAre
  <2> HIDE DEF stored
  <2>6. Ledger!Oldest(stored) \in stored /\ \A t \in stored : Ledger!Oldest(stored) <= t
    BY <2>3, <2>4 DEF Ledger!Oldest
  <2> QED
    BY <2>3, <2>4, <2>5, <2>6
<1>5. Ledger!OneScope
  <2> DEFINE all == {foundUnder[s] : s \in {t \in Sessions : Ledger!Known(t)}}
  <2> SUFFICES ASSUME codex PROVE Cardinality(all) <= 1
    BY DEF Ledger!OneScope, Ledger!Cardinality, Cardinality
  <2>1. CASE all = {}
    BY <2>1, FS_EmptySet
  <2>2. CASE all # {}
    <3>1. PICK x \in all : TRUE
      BY <2>2
    <3>2. all = {x}
      BY <1>1, <3>1 DEF ScopeInv
    <3>3. Cardinality({x}) = 1
      BY FS_Singleton
    <3> HIDE DEF all
    <3> QED
      BY <3>2, <3>3
  <2> QED
    BY <2>1, <2>2
<1> QED
  BY <1>2, <1>3, <1>4, <1>5 DEF Ledger!LedgerIsTrue

(***************************************************************************)
(* The saves of the ComfyUI nodes                                          *)
(***************************************************************************)

(* What artifacts are called, alone and by save.                           *)
PathNames == {"image", "image_0", "image_1", "video", "preview", "file"}
NameLists == {<<"image">>, <<"image_0", "image_1">>, <<"video">>, <<"video", "preview">>}
Owners == {"out"} \cup Assets!Files
Paths == Owners \X Nat \X PathNames

(* A save, and a revision.                                                 *)
JobRec == [save : Nat, kind : {"image", "video"}, names : NameLists, workflow : Workflows]
Abouts == {Assets!Metadata(j) : j \in JobRec \cup {Assets!Idle}}
RevRec == [owner : Owners, arts : SUBSET Paths, edges : SUBSET Nat, closed : BOOLEAN,
           save : Nat, about : Abouts]

OutPaths(j) == {Assets!OutputPath(j.save, j.names[k]) : k \in DOMAIN j.names}
Loaded(j) == {j.workflow[k].value : k \in Assets!Dependencies(j.workflow)}

(* Every variable has its type.                                            *)
AssetTyped ==
    /\ revisions \in Seq(RevRec) /\ written \in Nat
    /\ doing \in [Comfy -> Assets!Calls \cup {"idle", "finish"}]
    /\ job \in [Comfy -> JobRec \cup {Assets!Idle}] /\ owner \in [Comfy -> Owners]
    /\ todo \in [Comfy -> Seq(PathNames)] /\ again \in [Comfy -> BOOLEAN]
    /\ target \in [Comfy -> Nat] /\ held \in [Comfy -> Nat]
    /\ deps \in [Comfy -> SUBSET Nat] /\ missed \in [Comfy -> SUBSET Assets!Files]

(* The revisions that hold a file.                                         *)
Holding(revs, f) == {i \in DOMAIN revs : Assets!InputPath(f) \in revs[i].arts}

(* A revision has files of its own kind, a preview is never the first, and *)
(* an edge leads to the holder of a file.                                  *)
RevGood(revs, i) ==
    /\ IsFiniteSet(revs[i].arts)
    /\ revs[i].owner = "out" =>
          \A p \in revs[i].arts :
              /\ p[1] = "out"
              /\ p[3] = "preview" => \E q \in revs[i].arts : q[3] = "video"
    /\ revs[i].owner # "out" => revs[i].arts \subseteq {Assets!InputPath(revs[i].owner)}
    /\ \A e \in revs[i].edges :
           \E f \in Assets!Files : e \in Holding(revs, f) /\ revs[e].owner = f

(* Revision i is of save j ...                                             *)
Of(revs, i, j) ==
    /\ i \in DOMAIN revs /\ revs[i].owner = "out"
    /\ revs[i].save = j.save /\ revs[i].about = Assets!Metadata(j)

(* ... and has its artifacts but for the rest ...                          *)
Half(arts, j, rest) ==
    \/ rest = j.names /\ arts = {}
    \/ /\ DOMAIN j.names = 1..2 /\ rest = <<j.names[2]>>
       /\ arts = {Assets!OutputPath(j.save, j.names[1])}

(* ... and its edges, but for the rest and what was given up.              *)
Lineage(revs, i, j, rest, gone) ==
    /\ \A e \in revs[i].edges : \E f \in Loaded(j) : e \in Holding(revs, f)
    /\ \A k \in Assets!Dependencies(j.workflow) \ rest :
          \/ j.workflow[k].value \in gone
          \/ revs[i].edges \cap Holding(revs, j.workflow[k].value) # {}

(* The output is complete, the rest of its dependencies aside.             *)
Output(revs, i, j, rest, gone) ==
    /\ Of(revs, i, j) /\ revs[i].arts = OutPaths(j)
    /\ Lineage(revs, i, j, rest, gone)

LeastOf(rest) == CHOOSE i \in rest : \A k \in rest : i <= k
FileNext(j, rest) == j.workflow[LeastOf(rest)].value

(* What a process has done of a save: before its output is complete,       *)
Begun(revs, at, j, list, i, rest, gone) ==
    /\ rest = Assets!Dependencies(j.workflow)
    /\ at \in {"look", "make", "revision"} => list = j.names
    /\ at = "artifact" => Of(revs, i, j) /\ Half(revs[i].arts, j, list)
                          /\ Lineage(revs, i, j, rest, gone)

(* and of a dependency, before there is an edge to it.                     *)
Linking(revs, at, j, whom, list, h, rest) ==
    /\ rest # {} /\ whom = FileNext(j, rest)
    /\ at # "edge" => list = <<"file">>
    /\ at = "artifact" => h \in DOMAIN revs /\ revs[h].owner = whom
    /\ at = "edge" => h \in Holding(revs, whom)

Started(revs, n, at, j, whom, list, i, h, rest, gone) ==
    /\ j \in JobRec /\ j.save \in 1..n /\ rest \subseteq Assets!Dependencies(j.workflow)
    /\ \/ /\ whom = "out" /\ at \in {"look", "make", "revision", "artifact"}
          /\ Begun(revs, at, j, list, i, rest, gone)
       \/ /\ whom = "out" /\ at = "tag" /\ Output(revs, i, j, rest, gone)
       \/ /\ whom = "out" /\ at = "find" /\ Output(revs, i, j, rest, gone) /\ rest # {}
       \/ /\ whom = "out" /\ at = "finish" /\ Output(revs, i, j, rest, gone) /\ rest = {}
       \/ /\ whom # "out" /\ at \in {"look", "make", "revision", "artifact", "edge"}
          /\ Output(revs, i, j, rest, gone)
          /\ Linking(revs, at, j, whom, list, h, rest)

Working(revs, n, at, j, whom, list, i, h, rest, gone) ==
    \/ at = "idle" /\ whom = "out"
    \/ Started(revs, n, at, j, whom, list, i, h, rest, gone)

ProcOf(c) == Working(revisions, written, doing[c], job[c], owner[c], todo[c], target[c],
                     held[c], deps[c], missed[c])

(* What was returned is whole.                                             *)
ReturnGood(revs, n, r) ==
    /\ r.job \in JobRec /\ r.job.save \in 1..n
    /\ Output(revs, r.rev, r.job, {}, r.missed)

(* No save is done twice.                                                  *)
Apart ==
    /\ \A c, d \in Comfy :
          doing[c] # "idle" /\ doing[d] # "idle" /\ job[c].save = job[d].save => c = d
    /\ \A r \in returned : \A c \in Comfy : doing[c] # "idle" => job[c].save # r.job.save

AssetInv ==
    /\ AssetTyped /\ Apart
    /\ \A i \in DOMAIN revisions : RevGood(revisions, i)
    /\ \A c \in Comfy : ProcOf(c)
    /\ \A r \in returned : ReturnGood(revisions, written, r)

----
(* What is listed has the four forms.                                      *)
LEMMA BatchIs ==
    ASSUME NEW k \in {"image", "video"}
    PROVE Assets!Batches(k) \subseteq NameLists
BY DEF Assets!Batches, NameLists

(* A list names a file first, and a preview after a video only.            *)
LEMMA NamesAre ==
    ASSUME NEW names \in NameLists
    PROVE  /\ names \in Seq(PathNames)
           /\ \/ DOMAIN names = 1..1 /\ Len(names) = 1
              \/ DOMAIN names = 1..2 /\ Len(names) = 2
           /\ names[1] \notin {"preview", "file"}
           /\ DOMAIN names = 1..2 => (names[2] = "preview" => names[1] = "video")
<1>1. CASE names = <<"image">>
  BY <1>1 DEF PathNames
<1>2. CASE names = <<"image_0", "image_1">>
  BY <1>2 DEF PathNames
<1>3. CASE names = <<"video">>
  BY <1>3 DEF PathNames
<1>4. CASE names = <<"video", "preview">>
  BY <1>4 DEF PathNames
<1> QED
  BY <1>1, <1>2, <1>3, <1>4 DEF NameLists

(* What is left of a list of two.                                          *)
LEMMA TailOfNames ==
    ASSUME NEW names \in NameLists, Len(names) = 2
    PROVE  Tail(names) = <<names[2]>>
<1>1. CASE names = <<"image_0", "image_1">>
  BY <1>1
<1>2. CASE names = <<"video", "preview">>
  BY <1>2
<1> QED
  BY <1>1, <1>2 DEF NameLists

(* What is left of a list of one is a list.                                *)
LEMMA TailIs == ASSUME NEW S, NEW s \in Seq(S), Len(s) = 1 PROVE Tail(s) \in Seq(S)
OBVIOUS

(* Nothing is registered yet.                                              *)
LEMMA AssetInit == Assets!Init => AssetInv
<1> SUFFICES ASSUME Assets!Init PROVE AssetInv
  OBVIOUS
<1>1. AssetTyped
  BY Assumed DEF Assets!Init, AssetTyped, Owners, Assets!Calls
<1>2. Apart /\ DOMAIN revisions = {} /\ returned = {}
  BY DEF Assets!Init, Apart
<1>3. \A c \in Comfy : ProcOf(c)
  BY DEF Assets!Init, ProcOf, Working
<1> QED
  BY <1>1, <1>2, <1>3 DEF AssetInv

(* What the workflow loads are files.                                      *)
LEMMA LoadedAre ==
    ASSUME NEW w \in Workflows, NEW k \in Assets!Dependencies(w)
    PROVE  w[k].value \in Assets!Files /\ k \in Nat /\ w[k].value # "out"
<1>1. w \in Seq([type : STRING, value : STRING \cup {Linked}]) /\ k \in DOMAIN w
  BY Assumed DEF Assets!ComfyAssumption, Assets!Dependencies
<1>2. w[k].value \in Assets!Files
  BY DEF Assets!Files
<1> QED
  BY <1>1, <1>2, Assumed DEF Assets!ComfyAssumption

(* The next dependency is one.                                             *)
LEMMA FirstIs ==
    ASSUME NEW j \in JobRec,
           NEW rest \in SUBSET Assets!Dependencies(j.workflow), rest # {}
    PROVE  /\ LeastOf(rest) \in rest /\ FileNext(j, rest) \in Assets!Files
           /\ FileNext(j, rest) # "out" /\ FileNext(j, rest) \in Loaded(j)
<1>1. j.workflow \in Workflows
  BY DEF JobRec
<1>2. rest \in SUBSET Nat
  BY <1>1, LoadedAre
<1>3. LeastOf(rest) \in rest
  BY <1>2, MinExists DEF LeastOf
<1> QED
  BY <1>1, <1>3, LoadedAre DEF FileNext, Loaded

----
(* Revisions stay what they are and lose nothing.                          *)
Grown(before, after) ==
    \A i \in DOMAIN before :
        /\ i \in DOMAIN after
        /\ after[i].owner = before[i].owner /\ after[i].save = before[i].save
        /\ after[i].about = before[i].about
        /\ before[i].arts \subseteq after[i].arts
        /\ before[i].edges \subseteq after[i].edges

(* Revision i is as it was, unless it is of one save.                      *)
Spared(before, after, i) == after[i].arts = before[i].arts /\ after[i].edges = before[i].edges

(* A file keeps its holders,                                               *)
LEMMA HoldersGrow ==
    ASSUME NEW before, NEW after, Grown(before, after), NEW f
    PROVE  Holding(before, f) \subseteq Holding(after, f)
BY DEF Grown, Holding

(* a revision its lineage, if new edges lead where the workflow loads from,*)
LEMMA LineageKept ==
    ASSUME NEW before, NEW after, Grown(before, after), NEW i \in DOMAIN before,
           NEW j, NEW rest, NEW gone, Lineage(before, i, j, rest, gone),
           \A e \in after[i].edges \ before[i].edges :
               \E f \in Loaded(j) : e \in Holding(after, f)
    PROVE  Lineage(after, i, j, rest, gone)
<1>1. \A f : Holding(before, f) \subseteq Holding(after, f)
  BY HoldersGrow
<1>2. before[i].edges \subseteq after[i].edges
  BY DEF Grown
<1>3. ASSUME NEW e \in after[i].edges PROVE \E f \in Loaded(j) : e \in Holding(after, f)
  BY <1>1, <1>3 DEF Lineage
<1>4. ASSUME NEW k \in Assets!Dependencies(j.workflow) \ rest, j.workflow[k].value \notin gone
      PROVE  after[i].edges \cap Holding(after, j.workflow[k].value) # {}
  <2>1. before[i].edges \cap Holding(before, j.workflow[k].value) # {}
    BY <1>4 DEF Lineage
  <2> QED
    BY <2>1, <1>1, <1>2
<1> QED
  BY <1>3, <1>4 DEF Lineage

(* and its save;                                                           *)
LEMMA OfKept ==
    ASSUME NEW before, NEW after, Grown(before, after), NEW i, NEW j, Of(before, i, j)
    PROVE  Of(after, i, j)
BY DEF Grown, Of

(* an output that is spared stays complete.                                *)
LEMMA OutputKept ==
    ASSUME NEW before, NEW after, Grown(before, after), NEW i, NEW j, NEW rest, NEW gone,
           Output(before, i, j, rest, gone), Spared(before, after, i)
    PROVE  Output(after, i, j, rest, gone)
<1>1. i \in DOMAIN before
  BY DEF Output, Of
<1>2. Lineage(after, i, j, rest, gone)
  BY <1>1, LineageKept DEF Output, Spared
<1> QED
  BY <1>2, OfKept DEF Output, Spared

(* A process that is spared stays where it was.                            *)
LEMMA StartedKept ==
    ASSUME NEW before, NEW after, Grown(before, after), NEW n \in Nat,
           NEW m \in Nat, n <= m,
           NEW at, NEW j, NEW whom, NEW list, NEW i, NEW h, NEW rest, NEW gone,
           Started(before, n, at, j, whom, list, i, h, rest, gone),
           Of(before, i, j) => Spared(before, after, i)
    PROVE  Started(after, m, at, j, whom, list, i, h, rest, gone)
<1>1. j.save \in 1..m
  BY DEF Started
<1>2. Output(before, i, j, rest, gone) => Output(after, i, j, rest, gone)
  BY OutputKept DEF Output
<1>3. Begun(before, at, j, list, i, rest, gone) =>
    Begun(after, at, j, list, i, rest, gone)
  <2>1. SUFFICES ASSUME Begun(before, at, j, list, i, rest, gone), at = "artifact"
                 PROVE  /\ Of(after, i, j) /\ Half(after[i].arts, j, list)
                        /\ Lineage(after, i, j, rest, gone)
    BY DEF Begun
  <2>2. /\ Of(before, i, j) /\ Half(before[i].arts, j, list)
        /\ Lineage(before, i, j, rest, gone)
        /\ i \in DOMAIN before /\ Spared(before, after, i)
    BY <2>1 DEF Begun, Of
  <2>3. Lineage(after, i, j, rest, gone)
    BY <2>2, LineageKept DEF Spared
  <2> QED
    BY <2>2, <2>3, OfKept DEF Spared
<1>4. Linking(before, at, j, whom, list, h, rest) =>
    Linking(after, at, j, whom, list, h, rest)
  BY HoldersGrow DEF Linking, Grown
<1> QED
  BY <1>1, <1>2, <1>3, <1>4 DEF Started

----
(* What a process works on has its type.                                   *)
LEMMA TypedOf ==
    ASSUME AssetInv, NEW c \in Comfy
    PROVE  /\ revisions \in Seq(RevRec) /\ written \in Nat
           /\ doing[c] \in Assets!Calls \cup {"idle", "finish"}
           /\ job[c] \in JobRec \cup {Assets!Idle}
           /\ owner[c] \in Owners /\ todo[c] \in Seq(PathNames)
           /\ target[c] \in Nat /\ held[c] \in Nat
           /\ deps[c] \in SUBSET Nat /\ missed[c] \in SUBSET Assets!Files
           /\ DOMAIN revisions = 1..Len(revisions) /\ Len(revisions) \in Nat
           /\ \A i \in DOMAIN revisions : revisions[i] \in RevRec
BY DEF AssetInv, AssetTyped

(* A step of c keeps what others work on.                                  *)
Frame(c) ==
    /\ Grown(revisions, revisions') /\ revisions' \in Seq(RevRec)
    /\ \A i \in DOMAIN revisions' : RevGood(revisions', i)
    /\ \A i \in DOMAIN revisions :
          \/ Spared(revisions, revisions', i) \/ revisions[i].owner # "out"
          \/ doing[c] # "idle" /\ revisions[i].save = job[c].save

(* A step that changes no revision keeps them all.                         *)
LEMMA FrameSame ==
    ASSUME AssetInv, NEW c \in Comfy, UNCHANGED revisions
    PROVE  Frame(c)
BY DEF Frame, Grown, Spared, AssetInv, AssetTyped

(* Goodness lasts where nothing is added to the files.                     *)
LEMMA GoodKept ==
    ASSUME NEW before, NEW after, Grown(before, after),
           NEW i \in DOMAIN before, RevGood(before, i),
           after[i].arts = before[i].arts, before[i].edges \subseteq DOMAIN before,
           \A e \in after[i].edges \ before[i].edges :
              \E f \in Assets!Files : e \in Holding(after, f) /\ after[e].owner = f
    PROVE  RevGood(after, i)
<1>1. \A f : Holding(before, f) \subseteq Holding(after, f)
  BY HoldersGrow
<1>2. ASSUME NEW e \in after[i].edges
      PROVE  \E f \in Assets!Files : e \in Holding(after, f) /\ after[e].owner = f
  <2>1. CASE e \in before[i].edges
    <3>1. PICK f \in Assets!Files : e \in Holding(before, f) /\ before[e].owner = f
      BY <2>1 DEF RevGood
    <3> QED
      BY <1>1, <3>1, <2>1 DEF Grown
  <2> QED
    BY <2>1, <1>2
<1>3. after[i].owner = before[i].owner
  BY DEF Grown
<1> QED
  BY <1>2, <1>3 DEF RevGood

(* An edge leads to a revision.                                            *)
LEMMA EdgesLead ==
    ASSUME NEW revs, NEW i \in DOMAIN revs, RevGood(revs, i)
    PROVE  revs[i].edges \subseteq DOMAIN revs
BY DEF RevGood, Holding

(* create_revision() adds a revision without files.                        *)
LEMMA Created ==
    ASSUME AssetInv, NEW c \in Comfy, doing[c] = "revision",
           revisions' = Append(revisions, Assets!NewRevision(c))
    PROVE  /\ Frame(c) /\ Len(revisions') \in DOMAIN revisions'
           /\ Len(revisions') \in Nat
           /\ \A i \in DOMAIN revisions : Spared(revisions, revisions', i)
           /\ revisions'[Len(revisions')] = Assets!NewRevision(c)
<1> DEFINE r == Assets!NewRevision(c)
<1>1. r \in RevRec /\ r.arts = {} /\ r.edges = {}
  <2>1. job[c] \in JobRec \cup {Assets!Idle} /\ owner[c] \in Owners /\ job[c].save \in Nat
    BY TypedOf DEF JobRec, Assets!Idle
  <2>2. Assets!Metadata(job[c]) \in Abouts /\ Assets!Metadata(Assets!Idle) \in Abouts
    BY <2>1 DEF Abouts
  <2> HIDE DEF Assets!Metadata
  <2> QED
    BY <2>1, <2>2 DEF Assets!NewRevision, RevRec
<1>2. /\ revisions \in Seq(RevRec) /\ Len(revisions) \in Nat
      /\ DOMAIN revisions = 1..Len(revisions)
  BY TypedOf
<1>3. revisions' = Append(revisions, r)
  OBVIOUS
<1> HIDE DEF r
<1>4. /\ revisions' \in Seq(RevRec) /\ Len(revisions') = Len(revisions) + 1
      /\ DOMAIN revisions' = 1..(Len(revisions) + 1)
      /\ revisions'[Len(revisions) + 1] = r
      /\ \A i \in DOMAIN revisions : revisions'[i] = revisions[i]
  BY <1>1, <1>2, <1>3
<1>5. /\ Grown(revisions, revisions')
      /\ \A i \in DOMAIN revisions : Spared(revisions, revisions', i)
  BY <1>2, <1>4 DEF Grown, Spared
<1>6. ASSUME NEW i \in DOMAIN revisions' PROVE RevGood(revisions', i)
  <2>1. CASE i \in DOMAIN revisions
    <3>1. RevGood(revisions, i) /\ revisions[i].edges \subseteq DOMAIN revisions
      BY <2>1, EdgesLead DEF AssetInv
    <3> QED
      BY <2>1, <3>1, <1>4, <1>5, GoodKept
  <2>2. CASE i = Len(revisions) + 1
    BY <2>2, <1>1, <1>4, FS_EmptySet DEF RevGood
  <2> QED
    BY <2>1, <2>2, <1>2, <1>4
<1> QED
  BY <1>2, <1>4, <1>5, <1>6 DEF Frame, r

(* What an artifact is added to, in each of the two uses.                  *)
LEMMA FillingIs ==
    ASSUME AssetInv, NEW c \in Comfy, doing[c] = "artifact"
    PROVE  /\ Assets!Filling(c) \in DOMAIN revisions /\ Assets!Path(c) \in Paths
           /\ owner[c] = "out" =>
                 /\ Assets!Filling(c) = target[c] /\ Of(revisions, target[c], job[c])
                 /\ Half(revisions[target[c]].arts, job[c], todo[c])
                 /\ job[c] \in JobRec
                 /\ Assets!Path(c) = Assets!OutputPath(job[c].save, todo[c][1])
           /\ owner[c] # "out" =>
                 /\ Assets!Filling(c) = held[c] /\ revisions[held[c]].owner = owner[c]
                 /\ Assets!Path(c) = Assets!InputPath(owner[c])
<1>1. Started(revisions, written, "artifact", job[c], owner[c], todo[c], target[c],
              held[c], deps[c], missed[c])
  BY DEF AssetInv, ProcOf, Working
<1>2. CASE owner[c] = "out"
  <2>1. /\ job[c] \in JobRec /\ Of(revisions, target[c], job[c])
        /\ Half(revisions[target[c]].arts, job[c], todo[c])
    BY <1>1, <1>2 DEF Started, Begun
  <2>2. todo[c][1] \in PathNames /\ Head(todo[c]) = todo[c][1] /\ job[c].save \in Nat
    <3>1. job[c].names \in NameLists /\ job[c].save \in Nat
      BY <2>1 DEF JobRec
    <3> QED
      BY <2>1, <3>1, NamesAre DEF Half
  <2> QED
    BY <1>2, <2>1, <2>2 DEF Assets!Filling, Assets!Path, Assets!OutputPath, Paths,
       Owners, Of
<1>3. CASE owner[c] # "out"
  <2>1. held[c] \in DOMAIN revisions /\ revisions[held[c]].owner = owner[c]
    BY <1>1, <1>3 DEF Started, Linking
  <2> QED
    BY <1>3, <2>1, TypedOf DEF Assets!Filling, Assets!Path, Assets!InputPath, Paths,
       PathNames
<1> QED
  BY <1>2, <1>3

(* create_artifact() adds it, and a preview only where there is a video.   *)
LEMMA Added ==
    ASSUME AssetInv, NEW c \in Comfy, doing[c] = "artifact",
           revisions' = [revisions EXCEPT ![Assets!Filling(c)].arts = @ \cup {Assets!Path(c)}]
    PROVE  /\ Frame(c)
           /\ revisions'[Assets!Filling(c)].arts = revisions[Assets!Filling(c)].arts \cup {Assets!Path(c)}
           /\ \A i \in DOMAIN revisions : revisions'[i].edges = revisions[i].edges
           /\ \A i \in DOMAIN revisions \ {Assets!Filling(c)} : Spared(revisions, revisions', i)
<1> DEFINE b == Assets!Filling(c)
           p == Assets!Path(c)
<1>1. b \in DOMAIN revisions /\ p \in Paths
  BY FillingIs
<1>2. revisions \in Seq(RevRec)
  BY TypedOf
<1>3. revisions' = [revisions EXCEPT ![b] = [revisions[b] EXCEPT !.arts = @ \cup {p}]]
  OBVIOUS
<1> HIDE DEF b, p
<1>4. /\ revisions' \in Seq(RevRec) /\ DOMAIN revisions' = DOMAIN revisions
      /\ \A i \in DOMAIN revisions \ {b} : revisions'[i] = revisions[i]
      /\ revisions'[b] = [revisions[b] EXCEPT !.arts = @ \cup {p}]
  <2>1. revisions[b] \in RevRec
    BY <1>1, <1>2
  <2>2. [revisions[b] EXCEPT !.arts = @ \cup {p}] \in RevRec
    BY <2>1, <1>1 DEF RevRec
  <2>3. /\ DOMAIN revisions' = DOMAIN revisions
        /\ revisions'[b] = [revisions[b] EXCEPT !.arts = @ \cup {p}]
        /\ \A i \in DOMAIN revisions \ {b} : revisions'[i] = revisions[i]
    BY <1>1, <1>3
  <2>4. revisions \in [1..Len(revisions) -> RevRec] /\ Len(revisions) \in Nat
        /\ DOMAIN revisions = 1..Len(revisions)
    BY <1>2
  <2> DEFINE x == [revisions[b] EXCEPT !.arts = @ \cup {p}]
  <2>5. revisions' = [revisions EXCEPT ![b] = x] /\ x \in RevRec
    BY <1>3, <2>2
  <2> HIDE DEF x
  <2>6. revisions' \in [1..Len(revisions) -> RevRec]
    BY <1>1, <2>4, <2>5
  <2> QED
    BY <2>3, <2>4, <2>6
<1>5. /\ revisions'[b].owner = revisions[b].owner
      /\ revisions'[b].save = revisions[b].save
      /\ revisions'[b].about = revisions[b].about
      /\ revisions'[b].edges = revisions[b].edges
      /\ revisions'[b].arts = revisions[b].arts \cup {p}
  <2>1. revisions[b] \in RevRec
    BY <1>1, <1>2
  <2> QED
    BY <2>1, <1>4 DEF RevRec
<1>6. Grown(revisions, revisions')
  BY <1>4, <1>5 DEF Grown
<1>7. \A i \in DOMAIN revisions \ {b} : Spared(revisions, revisions', i)
  BY <1>4 DEF Spared
<1>8. ASSUME NEW i \in DOMAIN revisions' PROVE RevGood(revisions', i)
  <2>1. RevGood(revisions, i) /\ revisions[i].edges \subseteq DOMAIN revisions
    BY <1>4, EdgesLead DEF AssetInv
  <2>2. CASE i # b
    BY <2>1, <2>2, <1>4, <1>6, GoodKept, ZenonT(60)
  <2>3. CASE i = b
    <3>1. IsFiniteSet(revisions'[b].arts)
      <4>1. IsFiniteSet(revisions[b].arts)
        BY <2>1, <2>3 DEF RevGood
      <4>2. IsFiniteSet(revisions[b].arts \cup {p})
        BY <4>1, FS_AddElement
      <4> QED
        BY <4>2, <1>5
    <3>2. \A e \in revisions'[b].edges :
        \E f \in Assets!Files : e \in Holding(revisions', f) /\ revisions'[e].owner = f
      <4> SUFFICES ASSUME NEW e \in revisions[b].edges
                   PROVE  \E f \in Assets!Files :
                             e \in Holding(revisions', f) /\ revisions'[e].owner = f
        BY <1>5
      <4>2. PICK f \in Assets!Files : e \in Holding(revisions, f) /\ revisions[e].owner = f
        BY <2>1, <2>3 DEF RevGood
      <4>3. /\ e \in DOMAIN revisions
            /\ Holding(revisions, f) \subseteq Holding(revisions', f)
        BY <2>1, <2>3, <1>6, HoldersGrow
      <4> QED
        BY <4>2, <4>3, <1>6 DEF Grown
    <3>3. CASE owner[c] = "out"
      <4>1. /\ b = target[c] /\ Of(revisions, b, job[c])
            /\ Half(revisions[b].arts, job[c], todo[c])
            /\ job[c] \in JobRec /\ p = Assets!OutputPath(job[c].save, todo[c][1])
        BY <3>3, FillingIs DEF b, p
      <4>2. p[1] = "out" /\ p[3] = todo[c][1]
        BY <4>1 DEF Assets!OutputPath
      <4>3. p[3] = "preview" => \E q \in revisions[b].arts : q[3] = "video"
        <5>1. SUFFICES ASSUME todo[c][1] = "preview"
            PROVE \E q \in revisions[b].arts : q[3] = "video"
          BY <4>2
        <5>2. job[c].names \in NameLists
          BY <4>1 DEF JobRec
        <5>3. /\ DOMAIN job[c].names = 1..2 /\ todo[c] = <<job[c].names[2]>>
              /\ revisions[b].arts = {Assets!OutputPath(job[c].save, job[c].names[1])}
          BY <5>1, <5>2, <4>1, NamesAre DEF Half
        <5>4. job[c].names[1] = "video"
          BY <5>1, <5>2, <5>3, NamesAre
        <5> QED
          BY <5>3, <5>4 DEF Assets!OutputPath
      <4>4. revisions[b].owner = "out"
        BY <4>1 DEF Of
      <4> QED
        BY <4>2, <4>3, <4>4, <3>1, <3>2, <2>1, <2>3, <1>5 DEF RevGood
    <3>4. CASE owner[c] # "out"
      <4>1. revisions[b].owner = owner[c] /\ p = Assets!InputPath(owner[c])
        BY <3>4, FillingIs DEF b, p
      <4> QED
        BY <3>4, <4>1, <3>1, <3>2, <2>1, <2>3, <1>5 DEF RevGood
    <3> QED
      BY <3>3, <3>4
  <2> QED
    BY <2>2, <2>3
<1>9. revisions[b].owner # "out" \/ revisions[b].save = job[c].save
  <2>1. CASE owner[c] = "out"
    BY <2>1, FillingIs DEF b, Of
  <2>2. CASE owner[c] # "out"
    BY <2>2, FillingIs DEF b
  <2> QED
    BY <2>1, <2>2
<1>10. doing[c] # "idle"
  OBVIOUS
<1> QED
  BY <1>1, <1>4, <1>5, <1>6, <1>7, <1>8, <1>9, <1>10 DEF Frame, b, p

(* What a process does for a dependency.                                   *)
LEMMA DependencyIs ==
    ASSUME AssetInv, NEW c \in Comfy, doing[c] # "idle"
    PROVE  /\ Started(revisions, written, doing[c], job[c], owner[c], todo[c], target[c],
                      held[c], deps[c], missed[c])
           /\ job[c] \in JobRec /\ deps[c] \subseteq Assets!Dependencies(job[c].workflow)
           /\ owner[c] # "out" \/ doing[c] \in {"tag", "find", "finish"} =>
                 Output(revisions, target[c], job[c], deps[c], missed[c])
           /\ owner[c] # "out" =>
                 /\ Linking(revisions, doing[c], job[c], owner[c], todo[c], held[c], deps[c])
                 /\ owner[c] = Assets!FileOf(c)
           /\ deps[c] # {} =>
                 /\ Assets!First(c) \in deps[c] /\ Assets!FileOf(c) \in Assets!Files
                 /\ Assets!FileOf(c) # "out" /\ Assets!FileOf(c) \in Loaded(job[c])
<1>1. Started(revisions, written, doing[c], job[c], owner[c], todo[c], target[c],
              held[c], deps[c], missed[c])
  BY DEF AssetInv, ProcOf, Working
<1>2. job[c] \in JobRec /\ deps[c] \subseteq Assets!Dependencies(job[c].workflow)
  BY <1>1 DEF Started
<1>3. owner[c] # "out" \/ doing[c] \in {"tag", "find", "finish"} =>
         Output(revisions, target[c], job[c], deps[c], missed[c])
  BY <1>1 DEF Started
<1>4. Assets!First(c) = LeastOf(deps[c]) /\ Assets!FileOf(c) = FileNext(job[c], deps[c])
  BY DEF Assets!First, Assets!FileOf, LeastOf, FileNext
<1>5. owner[c] # "out" =>
         /\ Linking(revisions, doing[c], job[c], owner[c], todo[c], held[c], deps[c])
         /\ owner[c] = Assets!FileOf(c)
  BY <1>1, <1>4 DEF Started, Linking
<1>6. deps[c] # {} =>
         /\ Assets!First(c) \in deps[c] /\ Assets!FileOf(c) \in Assets!Files
         /\ Assets!FileOf(c) # "out" /\ Assets!FileOf(c) \in Loaded(job[c])
  BY <1>2, <1>4, FirstIs
<1> QED
  BY <1>1, <1>2, <1>3, <1>5, <1>6

(* create_edge() leads to the file's own revision.                         *)
LEMMA Joined ==
    ASSUME AssetInv, NEW c \in Comfy, doing[c] = "edge", owner[c] # "out",
           revisions' = [revisions EXCEPT ![target[c]].edges = @ \cup {held[c]}]
    PROVE  /\ Frame(c)
           /\ revisions'[target[c]].edges = revisions[target[c]].edges \cup {held[c]}
           /\ held[c] \in Holding(revisions', Assets!FileOf(c))
           /\ Output(revisions', target[c], job[c], deps[c], missed[c])
<1> DEFINE b == target[c]
           h == held[c]
<1>1. /\ Output(revisions, b, job[c], deps[c], missed[c]) /\ b \in DOMAIN revisions
      /\ h \in Holding(revisions, Assets!FileOf(c)) /\ h \in DOMAIN revisions
      /\ Assets!FileOf(c) \in Assets!Files /\ Assets!FileOf(c) # "out"
      /\ Assets!FileOf(c) \in Loaded(job[c])
      /\ revisions[b].save = job[c].save
  BY DependencyIs DEF Linking, Output, Of, Holding
<1>2. revisions[h].owner = Assets!FileOf(c)
  <2>1. RevGood(revisions, h) /\ Assets!InputPath(Assets!FileOf(c)) \in revisions[h].arts
    BY <1>1 DEF AssetInv, Holding
  <2>2. Assets!InputPath(Assets!FileOf(c))[1] = Assets!FileOf(c)
    BY DEF Assets!InputPath
  <2>3. revisions[h].owner # "out"
    BY <2>1, <2>2, <1>1 DEF RevGood
  <2>4. Assets!InputPath(Assets!FileOf(c)) = Assets!InputPath(revisions[h].owner)
    BY <2>1, <2>3 DEF RevGood
  <2> QED
    BY <2>4 DEF Assets!InputPath
<1>3. revisions \in Seq(RevRec) /\ h \in Nat
  BY TypedOf
<1>4. revisions' = [revisions EXCEPT ![b] = [revisions[b] EXCEPT !.edges = @ \cup {h}]]
  OBVIOUS
<1> HIDE DEF b, h
<1>5. /\ revisions' \in Seq(RevRec) /\ DOMAIN revisions' = DOMAIN revisions
      /\ \A i \in DOMAIN revisions \ {b} : revisions'[i] = revisions[i]
      /\ revisions'[b] = [revisions[b] EXCEPT !.edges = @ \cup {h}]
  <2>1. revisions[b] \in RevRec
    BY <1>1, <1>3
  <2>2. [revisions[b] EXCEPT !.edges = @ \cup {h}] \in RevRec
    BY <2>1, <1>3 DEF RevRec
  <2>3. revisions \in [1..Len(revisions) -> RevRec] /\ Len(revisions) \in Nat
        /\ DOMAIN revisions = 1..Len(revisions)
    BY <1>3
  <2> DEFINE x == [revisions[b] EXCEPT !.edges = @ \cup {h}]
  <2>4. revisions' = [revisions EXCEPT ![b] = x] /\ x \in RevRec
    BY <1>4, <2>2
  <2> HIDE DEF x
  <2>5. /\ revisions' \in [1..Len(revisions) -> RevRec] /\ revisions'[b] = x
        /\ \A i \in DOMAIN revisions \ {b} : revisions'[i] = revisions[i]
    BY <1>1, <2>3, <2>4
  <2> QED
    BY <2>3, <2>5 DEF x
<1>6. /\ revisions'[b].owner = revisions[b].owner
      /\ revisions'[b].save = revisions[b].save
      /\ revisions'[b].about = revisions[b].about
      /\ revisions'[b].arts = revisions[b].arts
      /\ revisions'[b].edges = revisions[b].edges \cup {h}
  <2>1. revisions[b] \in RevRec
    BY <1>1, <1>3
  <2> QED
    BY <2>1, <1>5 DEF RevRec
<1>7. Grown(revisions, revisions')
  BY <1>5, <1>6 DEF Grown
<1>8. /\ h \in Holding(revisions', Assets!FileOf(c))
      /\ revisions'[h].owner = Assets!FileOf(c)
  <2>1. Holding(revisions, Assets!FileOf(c)) \subseteq Holding(revisions',
      Assets!FileOf(c))
    BY <1>7, HoldersGrow
  <2>2. revisions'[h].owner = revisions[h].owner
    BY <1>1, <1>7 DEF Grown
  <2> QED
    BY <2>1, <2>2, <1>1, <1>2
<1>9. ASSUME NEW i \in DOMAIN revisions' PROVE RevGood(revisions', i)
  <2>1. RevGood(revisions, i) /\ revisions[i].edges \subseteq DOMAIN revisions
    BY <1>5, EdgesLead DEF AssetInv
  <2>2. revisions'[i].arts = revisions[i].arts
    BY <1>5, <1>6
  <2>3. \A e \in revisions'[i].edges \ revisions[i].edges : e = h
    BY <1>5, <1>6
  <2>4. \A e \in revisions'[i].edges \ revisions[i].edges :
           \E f \in Assets!Files : e \in Holding(revisions', f) /\ revisions'[e].owner = f
    BY <2>3, <1>1, <1>8
  <2>5. i \in DOMAIN revisions
    BY <1>5
  <2>6. revisions[i].edges \subseteq DOMAIN revisions
    BY <2>1
  <2> QED
    BY ONLY <2>1, <2>2, <2>4, <2>5, <2>6, <1>7, GoodKept
<1>10. Output(revisions', b, job[c], deps[c], missed[c])
  <2>1. \A e \in revisions'[b].edges \ revisions[b].edges :
           \E f \in Loaded(job[c]) : e \in Holding(revisions', f)
    BY <1>1, <1>6, <1>8
  <2>2. Lineage(revisions', b, job[c], deps[c], missed[c])
    BY <2>1, <1>1, <1>7, LineageKept DEF Output
  <2> QED
    BY <2>2, <1>1, <1>6, <1>7, OfKept DEF Output
<1>11. \A i \in DOMAIN revisions : Spared(revisions, revisions', i) \/ revisions[i].save = job[c].save
  BY <1>1, <1>5 DEF Spared
<1> QED
  BY <1>5, <1>6, <1>7, <1>8, <1>9, <1>10, <1>11 DEF Frame, b, h

(* What a call does to the service, whether its answer arrives or not.     *)
LEMMA Effects ==
    ASSUME AssetInv, NEW c \in Comfy, doing[c] # "idle",
           \/ doing[c] \in {"make", "revision", "artifact", "tag",
                  "edge"} /\ Assets!Effect(c)
           \/ UNCHANGED revisions
    PROVE  /\ Frame(c)
           /\ owner[c] # "out" \/ doing[c] \in {"tag", "find", "finish"} =>
                 Output(revisions', target[c], job[c], deps[c], missed[c])
<1> DEFINE Full == owner[c] # "out" \/ doing[c] \in {"tag", "find", "finish"}
<1>0. Full => /\ Output(revisions, target[c], job[c], deps[c], missed[c])
              /\ target[c] \in DOMAIN revisions /\ revisions[target[c]].owner = "out"
  BY DependencyIs DEF Output, Of
<1>1. CASE UNCHANGED revisions
  BY <1>0, <1>1, FrameSame
<1>2. CASE doing[c] = "revision" /\ revisions' = Append(revisions, Assets!NewRevision(c))
  <2>1. Frame(c) /\ \A i \in DOMAIN revisions : Spared(revisions, revisions', i)
    BY <1>2, Created
  <2> QED
    BY <2>1, <1>0, OutputKept DEF Frame
<1>3. CASE /\ doing[c] = "artifact"
           /\ revisions' = [revisions EXCEPT ![Assets!Filling(c)].arts = @ \cup {Assets!Path(c)}]
  <2>1. /\ Frame(c)
        /\ \A i \in DOMAIN revisions \ {Assets!Filling(c)} : Spared(revisions, revisions', i)
    BY <1>3, Added
  <2>2. owner[c] # "out" => Assets!Filling(c) # target[c]
    BY <1>0, <1>3, FillingIs
  <2>3. Full => owner[c] # "out"
    BY <1>3
  <2> QED
    BY <2>1, <2>2, <2>3, <1>0, OutputKept DEF Frame
<1>4. CASE /\ doing[c] = "edge"
           /\ revisions' = [revisions EXCEPT ![target[c]].edges = @ \cup {held[c]}]
  <2>1. owner[c] # "out"
    BY <1>4, DependencyIs DEF Started
  <2> QED
    BY <2>1, <1>4, Joined
<1> QED
  BY <1>1, <1>2, <1>3, <1>4 DEF Assets!Effect

----
(* Process c, and no other, comes to a state.                              *)
Moved(c, at, j, whom, list, i, h, rest, gone) ==
    /\ doing' = [doing EXCEPT ![c] = at] /\ job' = [job EXCEPT ![c] = j]
    /\ owner' = [owner EXCEPT ![c] = whom] /\ todo' = [todo EXCEPT ![c] = list]
    /\ target' = [target EXCEPT ![c] = i] /\ held' = [held EXCEPT ![c] = h]
    /\ deps' = [deps EXCEPT ![c] = rest] /\ missed' = [missed EXCEPT ![c] = gone]

(* Where the others are.                                                   *)
LEMMA OthersRest ==
    ASSUME AssetInv, NEW c \in Comfy, Frame(c), NEW m \in Nat, written <= m,
           NEW d \in Comfy, d # c
    PROVE  Working(revisions', m, doing[d], job[d], owner[d], todo[d], target[d], held[d],
                   deps[d], missed[d])
<1>1. CASE doing[d] = "idle" /\ owner[d] = "out"
  BY <1>1 DEF Working
<1>2. CASE Started(revisions, written, doing[d], job[d], owner[d], todo[d], target[d],
                   held[d], deps[d], missed[d])
  <2>1. doing[d] # "idle"
    BY <1>2 DEF Started
  <2>2. Of(revisions, target[d], job[d]) => Spared(revisions, revisions', target[d])
    BY <2>1, d # c DEF AssetInv, Apart, Frame, Of
  <2>3. Grown(revisions, revisions') /\ written \in Nat
    BY TypedOf DEF Frame
  <2>4. Started(revisions', m, doing[d], job[d], owner[d], todo[d], target[d], held[d],
                deps[d], missed[d])
    BY <1>2, <2>2, <2>3, StartedKept
  <2> QED
    BY <2>4 DEF Working
<1> QED
  BY <1>1, <1>2 DEF AssetInv, ProcOf, Working

(* What was returned stays whole.                                          *)
LEMMA ReturnedStays ==
    ASSUME AssetInv, NEW c \in Comfy, Frame(c), NEW m \in Nat, written <= m,
           NEW r \in returned
    PROVE  ReturnGood(revisions', m, r)
<1>1. ReturnGood(revisions, written, r) /\ written \in Nat
  BY TypedOf DEF AssetInv
<1>2. doing[c] # "idle" => job[c].save # r.job.save
  BY DEF AssetInv, Apart
<1>3. Spared(revisions, revisions', r.rev)
  BY <1>1, <1>2 DEF ReturnGood, Output, Of, Frame
<1>4. Output(revisions', r.rev, r.job, {}, r.missed)
  BY <1>1, <1>3, OutputKept DEF ReturnGood, Frame
<1> QED
  BY <1>1, <1>4 DEF ReturnGood

(* Whatever comes to a state that fits keeps the invariant.                *)
LEMMA Moves ==
    ASSUME AssetInv, NEW c \in Comfy, Frame(c),
           NEW at \in Assets!Calls \cup {"idle", "finish"},
           NEW j \in JobRec \cup {Assets!Idle},
           NEW whom \in Owners, NEW list \in Seq(PathNames), NEW i \in Nat, NEW h \in Nat,
           NEW rest \in SUBSET Nat, NEW gone \in SUBSET Assets!Files,
           Moved(c, at, j, whom, list, i, h, rest, gone), again' \in [Comfy -> BOOLEAN],
           written' \in Nat, written <= written',
           Working(revisions', written', at, j, whom, list, i, h, rest, gone),
           at = "idle" \/ (doing[c] # "idle" /\ j.save = job[c].save) \/ j.save = written + 1,
           \A r \in returned' :
              r \in returned
              \/ /\ ReturnGood(revisions', written', r)
                 /\ r.job.save = job[c].save /\ doing[c] # "idle" /\ at = "idle"
    PROVE  AssetInv'
<1>1. AssetTyped'
  BY DEF AssetInv, AssetTyped, Moved, Frame
<1>2. ASSUME NEW d \in Comfy PROVE ProcOf(d)'
  <2>1. CASE d = c
    BY <2>1 DEF ProcOf, Moved, AssetInv, AssetTyped
  <2>2. CASE d # c
    <3>1. Working(revisions', written', doing[d], job[d], owner[d], todo[d], target[d],
                  held[d], deps[d], missed[d])
      BY <2>2, OthersRest
    <3>2. /\ doing'[d] = doing[d] /\ job'[d] = job[d] /\ owner'[d] = owner[d]
          /\ todo'[d] = todo[d] /\ target'[d] = target[d] /\ held'[d] = held[d]
          /\ deps'[d] = deps[d] /\ missed'[d] = missed[d]
      BY <2>2 DEF Moved, AssetInv, AssetTyped
    <3> QED
      BY <3>1, <3>2 DEF ProcOf
  <2> QED
    BY <2>1, <2>2
<1>3. \A r \in returned' : ReturnGood(revisions', written', r)
  BY ReturnedStays
<1>4. \A d \in Comfy : doing[d] # "idle" => job[d].save \in 1..written
  BY DEF AssetInv, ProcOf, Working, Started
<1>5. \A r \in returned : r.job.save \in 1..written
  BY DEF AssetInv, ReturnGood
<1>6. /\ \A d \in Comfy \ {c} : doing'[d] = doing[d] /\ job'[d] = job[d]
      /\ doing'[c] = at /\ job'[c] = j /\ written \in Nat
  BY DEF Moved, AssetInv, AssetTyped
<1>7. ASSUME NEW d \in Comfy, NEW e \in Comfy, doing'[d] # "idle", doing'[e] # "idle",
             job'[d].save = job'[e].save
      PROVE  d = e
  <2>1. CASE d # c /\ e # c
    BY <2>1, <1>6, <1>7 DEF AssetInv, Apart
  <2>2. ASSUME NEW x \in Comfy \ {c}, doing[x] # "idle", at # "idle", job[x].save = j.save
        PROVE FALSE
    BY <2>2, <1>4, <1>6 DEF AssetInv, Apart
  <2> QED
    BY <2>1, <2>2, <1>6, <1>7
<1>8. ASSUME NEW r \in returned', NEW d \in Comfy, doing'[d] # "idle"
      PROVE  job'[d].save # r.job.save
  <2>1. CASE r \in returned
    <3>1. CASE d # c
      BY <3>1, <2>1, <1>6, <1>8 DEF AssetInv, Apart
    <3>2. CASE d = c
      BY <3>2, <2>1, <1>5, <1>6, <1>8 DEF AssetInv, Apart
    <3> QED
      BY <3>1, <3>2
  <2>2. CASE r \notin returned
    BY <2>2, <1>6, <1>8 DEF AssetInv, Apart
  <2> QED
    BY <2>1, <2>2
<1>9. Apart'
  BY <1>7, <1>8 DEF Apart
<1>10. \A k \in DOMAIN revisions' : RevGood(revisions', k)
  BY DEF Frame
<1> QED
  BY <1>1, <1>2, <1>3, <1>9, <1>10 DEF AssetInv

(* What a step leaves alone is as it was, at c too.                        *)
LEMMA SameAt ==
    ASSUME AssetInv, NEW c \in Comfy
    PROVE  /\ doing = [doing EXCEPT ![c] = doing[c]] /\ job = [job EXCEPT ![c] = job[c]]
           /\ owner = [owner EXCEPT ![c] = owner[c]]
           /\ todo = [todo EXCEPT ![c] = todo[c]]
           /\ target = [target EXCEPT ![c] = target[c]]
           /\ held = [held EXCEPT ![c] = held[c]]
           /\ deps = [deps EXCEPT ![c] = deps[c]]
           /\ missed = [missed EXCEPT ![c] = missed[c]]
BY DEF AssetInv, AssetTyped

(* Forgetting.                                                             *)
LEMMA Forgotten ==
    ASSUME AssetInv, NEW c \in Comfy, Frame(c), Assets!Forget(c), written' = written,
           \A r \in returned' :
              r \in returned
              \/ /\ ReturnGood(revisions', written', r)
                 /\ r.job.save = job[c].save /\ doing[c] # "idle"
    PROVE  AssetInv'
<1>1. Moved(c, "idle", Assets!Idle, "out", <<>>, 0, 0, {}, {})
  BY DEF Assets!Forget, Assets!Go, Moved
<1>2. again' \in [Comfy -> BOOLEAN]
  BY DEF AssetInv, AssetTyped, Assets!Forget
<1>3. Working(revisions', written', "idle", Assets!Idle, "out", <<>>, 0, 0, {}, {})
  BY DEF Working
<1>4. /\ "out" \in Owners /\ written' \in Nat /\ written <= written'
      /\ Assets!Idle \in JobRec \cup {Assets!Idle}
  BY TypedOf DEF Owners
<1>5. /\ <<>> \in Seq(PathNames) /\ {} \in SUBSET Nat /\ {} \in SUBSET Assets!Files
      /\ 0 \in Nat
  OBVIOUS
<1> HIDE DEF Assets!Idle
<1> QED
  BY <1>1, <1>2, <1>3, <1>4, <1>5, Moves

(* On to the next dependency.                                              *)
LEMMA OnToNext ==
    ASSUME AssetInv, NEW c \in Comfy, Frame(c), doing[c] # "idle",
           NEW rest \in SUBSET deps[c], NEW list \in Seq(PathNames),
           NEW gone \in SUBSET Assets!Files,
           Assets!NextDep(c, rest), todo' = [todo EXCEPT ![c] = list],
           missed' = [missed EXCEPT ![c] = gone],
           Output(revisions', target[c], job[c], rest, gone),
           UNCHANGED <<job, again, target, returned, held, written>>
    PROVE  AssetInv'
<1> DEFINE at == IF rest = {} THEN "finish" ELSE "find"
<1>1. Moved(c, at, job[c], "out", list, target[c], held[c], rest, gone)
  BY SameAt DEF Assets!NextDep, Assets!Go, Moved
<1>2. job[c] \in JobRec /\ deps[c] \subseteq Assets!Dependencies(job[c].workflow)
      /\ job[c].save \in 1..written
  BY DependencyIs DEF Started
<1>3. Working(revisions', written', at, job[c],
    "out", list, target[c], held[c], rest, gone)
  BY <1>2 DEF Working, Started
<1>4. /\ "out" \in Owners /\ written' \in Nat /\ written <= written'
      /\ rest \in SUBSET Nat /\ target[c] \in Nat /\ held[c] \in Nat
      /\ at \in Assets!Calls \cup {"idle", "finish"} /\ again' \in [Comfy -> BOOLEAN]
  BY TypedOf DEF Owners, Assets!Calls, AssetInv, AssetTyped
<1> HIDE DEF at
<1> QED
  BY <1>1, <1>2, <1>3, <1>4, Moves

----
(* A save starts a registration of its own.                                *)
LEMMA KeepsSave ==
    ASSUME AssetInv, NEW c \in Comfy, NEW k \in {"image", "video"}, Assets!Save(c, k)
    PROVE  AssetInv'
<1>1. PICK w \in Workflows, names \in Assets!Batches(k) :
         /\ job' = [job EXCEPT ![c] = [save |-> written', kind |-> k, names |-> names,
                                       workflow |-> w]]
         /\ todo' = [todo EXCEPT ![c] = names]
         /\ deps' = [deps EXCEPT ![c] = Assets!Dependencies(w)]
  BY DEF Assets!Save
<1> DEFINE j == [save |-> written', kind |-> k, names |-> names, workflow |-> w]
<1>2. /\ written \in Nat /\ written' = written + 1 /\ doing[c] = "idle"
      /\ UNCHANGED <<revisions, owner, again, target, missed, held, returned>>
      /\ Assets!Go(c, "look")
  BY TypedOf DEF Assets!Save, Assets!service
<1>3. names \in NameLists /\ names \in Seq(PathNames)
  BY BatchIs, NamesAre
<1>4. j \in JobRec
  BY <1>2, <1>3 DEF JobRec
<1>5. owner[c] = "out"
  BY <1>2 DEF AssetInv, ProcOf, Working, Started
<1>6. Moved(c, "look", j, "out", names, target[c], held[c],
    Assets!Dependencies(w), missed[c])
  BY <1>1, <1>2, <1>5, SameAt DEF Moved, Assets!Go
<1>7. j.save = written + 1 /\ j.names = names /\ j.workflow = w
  BY <1>2
<1> HIDE DEF j
<1>8. Working(revisions', written', "look", j, "out", names, target[c], held[c],
              Assets!Dependencies(w), missed[c])
  BY <1>2, <1>4, <1>7 DEF Working, Started, Begun
<1>9. Frame(c)
  BY <1>2, FrameSame
<1>10. Assets!Dependencies(w) \in SUBSET Nat
  BY LoadedAre
<1>11. again' \in [Comfy -> BOOLEAN] /\ "out" \in Owners /\ "look" \in Assets!Calls
  BY <1>2 DEF AssetInv, AssetTyped, Owners, Assets!Calls
<1>12. target[c] \in Nat /\ held[c] \in Nat /\ missed[c] \in SUBSET Assets!Files
  BY TypedOf
<1> QED
  BY <1>2, <1>3, <1>4, <1>6, <1>7, <1>8, <1>9, <1>10, <1>11, <1>12, Moves

(* To another call for the same owner, with a list of artifacts.           *)
LEMMA OnWith ==
    ASSUME AssetInv, NEW c \in Comfy, Frame(c), doing[c] # "idle",
           NEW at \in Assets!Calls, NEW list \in Seq(PathNames), NEW i \in Nat,
           NEW h \in Nat,
           Moved(c, at, job[c], owner[c], list, i, h, deps[c], missed[c]),
           again' \in [Comfy -> BOOLEAN], UNCHANGED <<returned, written>>,
           Started(revisions', written, at, job[c], owner[c], list, i, h, deps[c], missed[c])
    PROVE  AssetInv'
<1>1. Working(revisions', written', at, job[c], owner[c], list, i, h, deps[c], missed[c])
  BY DEF Working
<1>2. /\ job[c] \in JobRec \cup {Assets!Idle} /\ owner[c] \in Owners
      /\ deps[c] \in SUBSET Nat
      /\ missed[c] \in SUBSET Assets!Files /\ written' \in Nat /\ written <= written'
  BY TypedOf
<1> QED
  BY <1>1, <1>2, Moves

(* Looking changes nothing.                                                *)
LEMMA KeepsLook == ASSUME AssetInv, NEW c \in Comfy, Assets!Look(c) PROVE AssetInv'
<1> DEFINE at == IF owner[c] \in existing THEN "revision" ELSE "make"
<1>1. /\ doing[c] = "look" /\ UNCHANGED <<revisions, job, again, target, returned, owner,
                                         todo, deps, missed, held, written>>
      /\ Assets!Go(c, at)
  BY DEF Assets!Look, Assets!service, Assets!jobVars
<1>2. Moved(c, at, job[c], owner[c], todo[c], target[c], held[c], deps[c], missed[c])
  BY <1>1, SameAt DEF Moved, Assets!Go
<1>3. Started(revisions, written, "look", job[c], owner[c], todo[c], target[c], held[c],
              deps[c], missed[c])
  BY <1>1, DependencyIs
<1>4. Started(revisions', written, at, job[c], owner[c], todo[c], target[c], held[c],
              deps[c], missed[c])
  BY <1>1, <1>3 DEF Started, Begun, Linking
<1>5. Frame(c) /\ again' \in [Comfy -> BOOLEAN] /\ at \in Assets!Calls
  BY <1>1, FrameSame DEF AssetInv, AssetTyped, Assets!Calls
<1> HIDE DEF at
<1> QED
  BY <1>1, <1>2, <1>4, <1>5, TypedOf, OnWith

(* An item is made for its owner.                                          *)
LEMMA KeepsMake == ASSUME AssetInv, NEW c \in Comfy, Assets!Make(c) PROVE AssetInv'
<1>1. /\ doing[c] = "make" /\ UNCHANGED <<revisions, job, again, target, returned, owner,
                                         todo, deps, missed, held, written>>
      /\ Assets!Go(c, "revision")
  BY DEF Assets!Make, Assets!Effect, Assets!jobVars
<1>2. Moved(c,
    "revision", job[c], owner[c], todo[c], target[c], held[c], deps[c], missed[c])
  BY <1>1, SameAt DEF Moved, Assets!Go
<1>3. Started(revisions, written, "make", job[c], owner[c], todo[c], target[c], held[c],
              deps[c], missed[c])
  BY <1>1, DependencyIs
<1>4. Started(revisions', written,
    "revision", job[c], owner[c], todo[c], target[c], held[c],
              deps[c], missed[c])
  BY <1>1, <1>3 DEF Started, Begun, Linking
<1>5. Frame(c) /\ again' \in [Comfy -> BOOLEAN] /\ "revision" \in Assets!Calls
  BY <1>1, FrameSame DEF AssetInv, AssetTyped, Assets!Calls
<1> QED
  BY <1>1, <1>2, <1>4, <1>5, TypedOf, OnWith

(* The new revision is of the save, or of the dependency.                  *)
LEMMA KeepsCreateRevision ==
    ASSUME AssetInv, NEW c \in Comfy, Assets!CreateRevision(c) PROVE AssetInv'
<1> DEFINE after == Len(revisions')
           i == IF owner[c] = "out" THEN after ELSE target[c]
           h == IF owner[c] = "out" THEN held[c] ELSE after
<1>1. /\ doing[c] = "revision" /\ revisions' = Append(revisions, Assets!NewRevision(c))
      /\ UNCHANGED <<job, again, returned, owner, todo, deps, missed, written>>
      /\ Assets!Go(c, "artifact")
      /\ target' = [target EXCEPT ![c] = i] /\ held' = [held EXCEPT ![c] = h]
  BY SameAt DEF Assets!CreateRevision, Assets!Effect
<1>0. doing[c] \in {"make", "revision", "artifact", "tag", "edge"} /\ Assets!Effect(c)
  BY DEF Assets!CreateRevision
<1>2. /\ Frame(c) /\ after \in DOMAIN revisions' /\ after \in Nat
      /\ revisions'[after] = Assets!NewRevision(c)
  BY <1>1, Created
<1>3. Moved(c, "artifact", job[c], owner[c], todo[c], i, h, deps[c], missed[c])
  BY <1>1, SameAt DEF Moved, Assets!Go
<1>4. Started(revisions, written,
    "revision", job[c], owner[c], todo[c], target[c], held[c],
              deps[c], missed[c])
  BY <1>1, DependencyIs
<1>5. /\ revisions'[after].owner = owner[c] /\ revisions'[after].arts = {}
      /\ revisions'[after].edges = {} /\ revisions'[after].save = job[c].save
      /\ owner[c] = "out" => revisions'[after].about = Assets!Metadata(job[c])
  BY <1>2 DEF Assets!NewRevision
<1>6. Started(revisions', written,
    "artifact", job[c], owner[c], todo[c], i, h, deps[c], missed[c])
  <2>1. CASE owner[c] = "out"
    <3>1. deps[c] = Assets!Dependencies(job[c].workflow) /\ todo[c] = job[c].names
      BY <1>4, <2>1 DEF Started, Begun
    <3>2. Of(revisions', after, job[c]) /\ Half(revisions'[after].arts, job[c], todo[c])
      BY <1>2, <1>5, <2>1, <3>1 DEF Of, Half
    <3>3. Lineage(revisions', after, job[c], deps[c], missed[c])
      BY <1>5, <3>1 DEF Lineage
    <3>4. Begun(revisions', "artifact", job[c], todo[c], i, deps[c], missed[c])
      BY <2>1, <3>1, <3>2, <3>3 DEF Begun
    <3> QED
      BY <1>4, <2>1, <3>4 DEF Started
  <2>2. CASE owner[c] # "out"
    <3>1. Output(revisions', target[c], job[c], deps[c], missed[c])
      BY <1>0, <1>1, <2>2, Effects
    <3>2. Linking(revisions', "artifact", job[c], owner[c], todo[c], h, deps[c])
      BY <1>2, <1>4, <1>5, <2>2 DEF Started, Linking
    <3> QED
      BY <1>4, <2>2, <3>1, <3>2 DEF Started
  <2> QED
    BY <2>1, <2>2
<1>7. i \in Nat /\ h \in Nat /\ todo[c] \in Seq(PathNames)
  BY <1>2, TypedOf
<1>8. again' \in [Comfy -> BOOLEAN] /\ "artifact" \in Assets!Calls
  BY <1>1 DEF AssetInv, AssetTyped, Assets!Calls
<1> HIDE DEF i, h
<1> QED
  BY <1>1, <1>2, <1>3, <1>6, <1>7, <1>8, OnWith

(* An artifact more, and one less to create.                               *)
LEMMA KeepsCreateArtifact ==
    ASSUME AssetInv, NEW c \in Comfy, Assets!CreateArtifact(c) PROVE AssetInv'
<1> DEFINE at == IF Len(todo[c]) > 1 THEN "artifact" ELSE
    IF owner[c] = "out" THEN "tag" ELSE "edge"
<1>1. /\ doing[c] = "artifact"
      /\ revisions' = [revisions EXCEPT ![Assets!Filling(c)].arts = @ \cup {Assets!Path(c)}]
      /\ UNCHANGED <<job, again, target, returned, owner, deps, missed, held, written>>
      /\ todo' = [todo EXCEPT ![c] = Tail(todo[c])] /\ Assets!Go(c, at)
  BY DEF Assets!CreateArtifact, Assets!Effect, Assets!jobVars
<1>0. doing[c] \in {"make", "revision", "artifact", "tag", "edge"} /\ Assets!Effect(c)
  BY DEF Assets!CreateArtifact
<1>2. /\ Frame(c)
      /\ revisions'[Assets!Filling(c)].arts = revisions[Assets!Filling(c)].arts \cup {Assets!Path(c)}
      /\ \A i \in DOMAIN revisions : revisions'[i].edges = revisions[i].edges
  BY <1>1, Added
<1>3. Moved(c, at, job[c], owner[c], Tail(todo[c]), target[c], held[c], deps[c], missed[c])
  BY <1>1, SameAt DEF Moved, Assets!Go
<1>4. Started(revisions, written,
    "artifact", job[c], owner[c], todo[c], target[c], held[c],
              deps[c], missed[c])
  BY <1>1, DependencyIs
<1>5. /\ Started(revisions', written, at, job[c], owner[c], Tail(todo[c]), target[c], held[c],
                 deps[c], missed[c])
      /\ Tail(todo[c]) \in Seq(PathNames)
  <2>1. CASE owner[c] = "out"
    <3> DEFINE j == job[c]
    <3>1. /\ deps[c] = Assets!Dependencies(j.workflow) /\ Assets!Filling(c) = target[c]
          /\ Of(revisions, target[c], j) /\ Half(revisions[target[c]].arts, j, todo[c])
          /\ Lineage(revisions, target[c], j, deps[c], missed[c])
          /\ j \in JobRec /\ Assets!Path(c) = Assets!OutputPath(j.save, todo[c][1])
      BY <1>1, <1>4, <2>1, FillingIs DEF Started, Begun
    <3> HIDE DEF j
    <3>2. j.names \in NameLists
      BY <3>1 DEF JobRec
    <3>3. /\ Of(revisions', target[c], j)
          /\ Lineage(revisions', target[c], j, deps[c], missed[c])
      BY <1>2, <3>1, OfKept, LineageKept DEF Of, Frame
    <3>4. CASE at = "artifact"
      <4>1. /\ todo[c] = j.names /\ revisions[target[c]].arts = {}
            /\ DOMAIN j.names = 1..2 /\ Len(j.names) = 2
        <5>1. Len(todo[c]) > 1
          BY <3>4, <2>1
        <5>2. CASE todo[c] = j.names /\ revisions[target[c]].arts = {}
          <6>1. Len(j.names) > 1
            BY <5>1, <5>2
          <6>2. DOMAIN j.names = 1..2 /\ Len(j.names) = 2
            <7> DEFINE names == j.names
            <7>1. names \in NameLists /\ Len(names) > 1
              BY <6>1, <3>2
            <7> HIDE DEF names
            <7>2. /\ \/ DOMAIN names = 1..1 /\ Len(names) = 1
                     \/ DOMAIN names = 1..2 /\ Len(names) = 2
              BY <7>1, NamesAre
            <7>3. DOMAIN names = 1..2 /\ Len(names) = 2
              <8>1. ASSUME Len(names) = 1 PROVE FALSE
                BY <7>1, <8>1
              <8> QED
                BY <7>2, <8>1
            <7> QED
              BY <7>3 DEF names
          <6> QED
            BY <5>2, <6>2
        <5>3. CASE todo[c] = <<j.names[2]>>
          BY <5>1, <5>3
        <5> QED
          BY <5>2, <5>3, <3>1 DEF Half
      <4>2. Tail(todo[c]) = <<j.names[2]>>
        <5>1. Tail(j.names) = <<j.names[2]>>
          BY <3>2, <4>1, TailOfNames
        <5> QED
          BY <5>1, <4>1, TailIs
      <4>3. revisions'[target[c]].arts = {Assets!OutputPath(j.save, j.names[1])}
        BY <1>2, <3>1, <4>1
      <4>4. Half(revisions'[target[c]].arts, j, Tail(todo[c]))
        BY <4>1, <4>2, <4>3 DEF Half
      <4>5. Tail(todo[c]) \in Seq(PathNames)
        BY <3>2, <4>1, NamesAre
      <4> QED
        BY <1>4, <2>1, <3>1, <3>3, <3>4, <4>4, <4>5 DEF Started, Begun, j
    <3>5. CASE at = "tag"
      <4>1. Len(todo[c]) = 1 /\ revisions'[target[c]].arts = OutPaths(j)
        <5>1. CASE todo[c] = j.names /\ revisions[target[c]].arts = {}
          <6>1. Len(j.names) = 1 /\ DOMAIN j.names = 1..1
            BY <5>1, <3>2, <3>5, <2>1, NamesAre
          <6>2. revisions'[target[c]].arts = {Assets!OutputPath(j.save, j.names[1])}
            BY <1>2, <3>1, <5>1
          <6>3. OutPaths(j) = {Assets!OutputPath(j.save, j.names[1])}
            BY <6>1 DEF OutPaths
          <6> QED
            BY <6>1, <6>2, <6>3, <5>1
        <5>2. CASE /\ DOMAIN j.names = 1..2 /\ todo[c] = <<j.names[2]>>
                   /\ revisions[target[c]].arts = {Assets!OutputPath(j.save, j.names[1])}
          <6>1. /\ revisions'[target[c]].arts = {Assets!OutputPath(j.save, j.names[1])}
                                               \cup {Assets!OutputPath(j.save, j.names[2])}
                /\ Len(todo[c]) = 1
            BY <1>2, <3>1, <5>2
          <6>2. OutPaths(j) = {Assets!OutputPath(j.save, j.names[1])} \cup {Assets!OutputPath(j.save, j.names[2])}
            BY <5>2 DEF OutPaths
          <6> QED
            BY <6>1, <6>2
        <5> QED
          BY <3>1, <5>1, <5>2 DEF Half
      <4>2. Tail(todo[c]) \in Seq(PathNames)
        <5>1. todo[c] \in Seq(PathNames)
          BY TypedOf
        <5> QED
          BY <5>1, <4>1, TailIs
      <4>3. Output(revisions', target[c], j, deps[c], missed[c])
        BY <3>3, <4>1 DEF Output
      <4> QED
        BY <1>4, <2>1, <3>5, <4>2, <4>3 DEF Started, j
    <3> QED
      BY <2>1, <3>4, <3>5
  <2>2. CASE owner[c] # "out"
    <3>1. Output(revisions', target[c], job[c], deps[c], missed[c])
      BY <1>0, <1>1, <2>2, Effects
    <3>2. /\ todo[c] = <<"file">> /\ held[c] \in DOMAIN revisions /\ deps[c] # {}
          /\ owner[c] = FileNext(job[c], deps[c])
      BY <1>4, <2>2 DEF Started, Linking
    <3>3. at = "edge" /\ Tail(todo[c]) \in Seq(PathNames)
      BY <3>2, <2>2
    <3>4. held[c] \in Holding(revisions', owner[c])
      <4>1. Assets!Filling(c) = held[c] /\ Assets!Path(c) = Assets!InputPath(owner[c])
        BY <1>1, <2>2, FillingIs
      <4> QED
        BY <4>1, <1>2, <3>2 DEF Holding, Frame, Grown
    <3>5. Linking(revisions', at, job[c], owner[c], Tail(todo[c]), held[c], deps[c])
      BY <3>2, <3>3, <3>4 DEF Linking
    <3> QED
      BY <1>4, <2>2, <3>1, <3>3, <3>5 DEF Started
  <2> QED
    BY <2>1, <2>2
<1>6. /\ again' \in [Comfy -> BOOLEAN] /\ at \in Assets!Calls /\ target[c] \in Nat
      /\ held[c] \in Nat
  BY <1>1, TypedOf DEF AssetInv, AssetTyped, Assets!Calls
<1> HIDE DEF at
<1> QED
  BY <1>1, <1>2, <1>3, <1>5, <1>6, OnWith

(* A retry starts over with all artifacts: nothing returned yet lies on the old.*)
LEMMA KeepsRetry == ASSUME AssetInv, NEW c \in Comfy, Assets!Retry(c) PROVE AssetInv'
<1>1. /\ doing[c] = "artifact" /\ owner[c] = "out"
      /\ UNCHANGED <<revisions, job, target, returned, owner, deps, missed, held, written>>
      /\ again' = [again EXCEPT ![c] = TRUE]
      /\ todo' = [todo EXCEPT ![c] = job[c].names] /\ Assets!Go(c, "revision")
  BY DEF Assets!Retry, Assets!service
<1>2. Moved(c,
    "revision", job[c], owner[c], job[c].names, target[c], held[c], deps[c], missed[c])
  BY <1>1, SameAt DEF Moved, Assets!Go
<1>3. Started(revisions, written,
    "artifact", job[c], owner[c], todo[c], target[c], held[c],
              deps[c], missed[c])
  BY <1>1, DependencyIs
<1>4. Started(revisions', written, "revision", job[c], owner[c], job[c].names, target[c],
              held[c], deps[c], missed[c])
  BY <1>1, <1>3 DEF Started, Begun
<1>5. job[c].names \in Seq(PathNames)
  BY <1>3, NamesAre DEF Started, JobRec
<1>6. /\ Frame(c) /\ again' \in [Comfy -> BOOLEAN] /\ "revision" \in Assets!Calls
      /\ target[c] \in Nat /\ held[c] \in Nat
  BY <1>1, FrameSame, TypedOf DEF AssetInv, AssetTyped, Assets!Calls
<1> QED
  BY <1>1, <1>2, <1>4, <1>5, <1>6, OnWith

(* The tag comes when the artifacts are complete.                          *)
LEMMA KeepsTag == ASSUME AssetInv, NEW c \in Comfy, Assets!Tag(c) PROVE AssetInv'
<1>1. /\ doing[c] = "tag" /\ Assets!NextDep(c, deps[c])
      /\ UNCHANGED <<revisions, job, again, target, returned, todo, missed, held, written>>
  BY DEF Assets!Tag, Assets!Effect, Assets!jobVars
<1>2. /\ Frame(c) /\ Output(revisions', target[c], job[c], deps[c], missed[c])
  BY <1>1, Effects
<1>3. todo' = [todo EXCEPT ![c] = todo[c]] /\ missed' = [missed EXCEPT ![c] = missed[c]]
  BY <1>1, SameAt
<1>4. todo[c] \in Seq(PathNames) /\ missed[c] \in SUBSET Assets!Files
  BY TypedOf
<1> QED
  BY <1>1, <1>2, <1>3, <1>4, OnToNext

(* What is found holds the file.                                           *)
LEMMA KeepsFind == ASSUME AssetInv, NEW c \in Comfy, Assets!Find(c) PROVE AssetInv'
<1>1. /\ doing[c] = "find" /\ owner' = [owner EXCEPT ![c] = Assets!FileOf(c)]
      /\ UNCHANGED <<revisions, job, again, target, returned, deps, missed, written>>
  BY DEF Assets!Find, Assets!service, Assets!jobVars
<1>2. Started(revisions, written, "find", job[c], owner[c], todo[c], target[c], held[c],
              deps[c], missed[c])
  BY <1>1, DependencyIs
<1>3. /\ Output(revisions, target[c], job[c], deps[c], missed[c]) /\ deps[c] # {}
      /\ Assets!FileOf(c) = FileNext(job[c], deps[c])
      /\ Assets!FileOf(c) \in Assets!Files /\ Assets!FileOf(c) # "out"
      /\ job[c] \in JobRec /\ job[c].save \in 1..written
      /\ deps[c] \subseteq Assets!Dependencies(job[c].workflow)
  BY <1>1, <1>2, DependencyIs DEF Started, Assets!First, Assets!FileOf, LeastOf, FileNext
<1>4. /\ Frame(c) /\ again' \in [Comfy -> BOOLEAN] /\ Assets!FileOf(c) \in Owners
      /\ written' \in Nat /\ written <= written'
  BY <1>1, <1>3, FrameSame, TypedOf DEF AssetInv, AssetTyped, Owners
<1>5. /\ target[c] \in Nat /\ held[c] \in Nat /\ todo[c] \in Seq(PathNames)
      /\ deps[c] \in SUBSET Nat /\ missed[c] \in SUBSET Assets!Files
      /\ <<"file">> \in Seq(PathNames)
  BY TypedOf DEF PathNames
<1>6. CASE /\ \E i \in Assets!Holders(Assets!FileOf(c)) : held' = [held EXCEPT ![c] = i]
           /\ Assets!Go(c, "edge") /\ UNCHANGED todo
  <2>1. PICK i \in Assets!Holders(Assets!FileOf(c)) : held' = [held EXCEPT ![c] = i]
    BY <1>6
  <2>2. i \in Holding(revisions, Assets!FileOf(c)) /\ i \in Nat
    BY TypedOf DEF Assets!Holders, Holding
  <2>3. Moved(c, "edge", job[c],
      Assets!FileOf(c), todo[c], target[c], i, deps[c], missed[c])
    BY <1>1, <1>6, <2>1, SameAt DEF Moved, Assets!Go
  <2>4. Linking(revisions', "edge", job[c], Assets!FileOf(c), todo[c], i, deps[c])
    BY <1>1, <1>3, <2>2 DEF Linking
  <2>5. Started(revisions', written', "edge", job[c],
      Assets!FileOf(c), todo[c], target[c], i,
                deps[c], missed[c])
    BY <1>1, <1>3, <2>4 DEF Started
  <2> QED
    BY <1>1, <1>3, <1>4, <1>5, <2>2, <2>3, <2>5, Moves DEF Working, Assets!Calls
<1>7. CASE Assets!Go(c,
    "look") /\ todo' = [todo EXCEPT ![c] = <<"file">>] /\ UNCHANGED held
  <2>3. Moved(c, "look", job[c],
      Assets!FileOf(c), <<"file">>, target[c], held[c], deps[c], missed[c])
    BY <1>1, <1>7, SameAt DEF Moved, Assets!Go
  <2>4. Linking(revisions', "look", job[c],
      Assets!FileOf(c), <<"file">>, held[c], deps[c])
    BY <1>1, <1>3 DEF Linking
  <2>5. Started(revisions', written', "look", job[c],
      Assets!FileOf(c), <<"file">>, target[c],
                held[c], deps[c], missed[c])
    BY <1>1, <1>3, <2>4 DEF Started
  <2> QED
    BY <1>1, <1>3, <1>4, <1>5, <2>3, <2>5, Moves DEF Working, Assets!Calls
<1> QED
  BY <1>6, <1>7 DEF Assets!Find

(* An edge settles one dependency.                                         *)
LEMMA KeepsEdge == ASSUME AssetInv, NEW c \in Comfy, Assets!Edge(c) PROVE AssetInv'
<1>1. /\ doing[c] = "edge" /\ Assets!NextDep(c, deps[c] \ {Assets!First(c)})
      /\ revisions' = [revisions EXCEPT ![target[c]].edges = @ \cup {held[c]}]
      /\ UNCHANGED <<job, again, target, returned, todo, missed, held, written>>
  BY DEF Assets!Edge, Assets!Effect, Assets!jobVars
<1>2. owner[c] # "out" /\ deps[c] # {}
  BY <1>1, DependencyIs DEF Started, Linking
<1>3. /\ Frame(c) /\ Output(revisions', target[c], job[c], deps[c], missed[c])
      /\ revisions'[target[c]].edges = revisions[target[c]].edges \cup {held[c]}
      /\ held[c] \in Holding(revisions', Assets!FileOf(c))
  BY <1>1, <1>2, Joined
<1>4. Assets!FileOf(c) = job[c].workflow[Assets!First(c)].value
  BY DEF Assets!FileOf
<1>5. Output(revisions', target[c], job[c], deps[c] \ {Assets!First(c)}, missed[c])
  <2>1. ASSUME NEW k \in Assets!Dependencies(job[c].workflow) \ (deps[c] \ {Assets!First(c)})
        PROVE  \/ job[c].workflow[k].value \in missed[c]
               \/ revisions'[target[c]].edges \cap Holding(revisions', job[c].workflow[k].value) # {}
    <3>1. CASE k = Assets!First(c)
      BY <3>1, <1>3, <1>4
    <3>2. CASE k \notin deps[c]
      BY <3>2, <2>1, <1>3 DEF Output, Lineage
    <3> QED
      BY <2>1, <3>1, <3>2
  <2> QED
    BY <2>1, <1>3 DEF Output, Lineage
<1>6. todo' = [todo EXCEPT ![c] = todo[c]] /\ missed' = [missed EXCEPT ![c] = missed[c]]
  BY <1>1, SameAt
<1>7. todo[c] \in Seq(PathNames) /\ missed[c] \in SUBSET Assets!Files
  BY TypedOf
<1> QED
  BY <1>1, <1>3, <1>5, <1>6, <1>7, OnToNext

(* What is returned is complete.                                           *)
LEMMA KeepsFinish == ASSUME AssetInv, NEW c \in Comfy, Assets!Finish(c) PROVE AssetInv'
<1> DEFINE r == [job |-> job[c], rev |-> target[c], missed |-> missed[c]]
<1>1. /\ doing[c] = "finish" /\ Assets!Forget(c) /\ returned' = returned \cup {r}
      /\ UNCHANGED <<revisions, written>>
  BY DEF Assets!Finish, Assets!service
<1>2. Started(revisions, written, "finish", job[c], owner[c], todo[c], target[c], held[c],
              deps[c], missed[c])
  BY <1>1, DependencyIs
<1>3. /\ Output(revisions, target[c], job[c], {}, missed[c])
      /\ job[c] \in JobRec /\ job[c].save \in 1..written
  BY <1>2 DEF Started
<1>4. r.job = job[c] /\ r.rev = target[c] /\ r.missed = missed[c]
  OBVIOUS
<1> HIDE DEF r
<1>5. ReturnGood(revisions', written', r)
  BY <1>1, <1>3, <1>4 DEF ReturnGood
<1>6. \A x \in returned' :
         \/ x \in returned
         \/ ReturnGood(revisions', written', x) /\ x.job.save = job[c].save /\ doing[c] # "idle"
  BY <1>1, <1>4, <1>5
<1> QED
  BY <1>1, <1>6, FrameSame, Forgotten

(* Giving up, whatever became of the call.                                 *)
LEMMA KeepsGiveUp ==
    ASSUME AssetInv, NEW c \in Comfy, doing[c] \in Assets!Calls, Frame(c),
           Assets!GiveUp(c),
           owner[c] # "out" \/ doing[c] = "find" =>
              Output(revisions', target[c], job[c], deps[c], missed[c]),
           UNCHANGED <<returned, written>>
    PROVE  AssetInv'
<1>1. doing[c] # "idle"
  BY DEF Assets!Calls
<1>2. CASE owner[c] # "out" \/ doing[c] = "find"
  <2>1. /\ missed' = [missed EXCEPT ![c] = missed[c] \cup {Assets!FileOf(c)}]
        /\ Assets!NextDep(c, deps[c] \ {Assets!First(c)})
        /\ todo' = [todo EXCEPT ![c] = <<>>]
        /\ UNCHANGED <<job, again, target, held>>
    BY <1>2 DEF Assets!GiveUp
  <2>2. Output(revisions', target[c], job[c], deps[c], missed[c]) /\ deps[c] # {}
    BY <1>1, <1>2, DependencyIs DEF Started, Linking
  <2>3. Assets!FileOf(c) = job[c].workflow[Assets!First(c)].value
    BY DEF Assets!FileOf
  <2>4. Output(revisions', target[c], job[c], deps[c] \ {Assets!First(c)}, missed[c] \cup {Assets!FileOf(c)})
    <3>1. ASSUME NEW k \in Assets!Dependencies(job[c].workflow) \ (deps[c] \ {Assets!First(c)})
          PROVE  \/ job[c].workflow[k].value \in missed[c] \cup {Assets!FileOf(c)}
                 \/ revisions'[target[c]].edges \cap Holding(revisions', job[c].workflow[k].value) # {}
      <4>1. CASE k = Assets!First(c)
        BY <4>1, <2>3
      <4>2. CASE k \notin deps[c]
        BY <4>2, <3>1, <2>2 DEF Output, Lineage
      <4> QED
        BY <3>1, <4>1, <4>2
    <3> QED
      BY <3>1, <2>2 DEF Output, Lineage
  <2>5. /\ missed[c] \cup {Assets!FileOf(c)} \in SUBSET Assets!Files
        /\ <<>> \in Seq(PathNames)
    BY <1>1, <2>2, DependencyIs, TypedOf
  <2> QED
    BY <1>1, <2>1, <2>4, <2>5, OnToNext
<1>3. CASE ~(owner[c] # "out" \/ doing[c] = "find")
  BY <1>3, Forgotten DEF Assets!GiveUp
<1> QED
  BY <1>2, <1>3

(* Refused for good.                                                       *)
LEMMA KeepsRefused ==
    ASSUME AssetInv, NEW c \in Comfy, Assets!Refused(c)
    PROVE AssetInv'
<1>1. /\ doing[c] \in {"make", "artifact"} /\ Assets!GiveUp(c)
      /\ UNCHANGED <<revisions, returned, written>>
  BY DEF Assets!Refused, Assets!service
<1>2. Frame(c) /\ (owner[c] # "out" \/ doing[c] \in {"tag", "find", "finish"} =>
                      Output(revisions', target[c], job[c], deps[c], missed[c]))
  BY <1>1, Effects
<1> QED
  BY <1>1, <1>2, KeepsGiveUp DEF Assets!Calls

(* Done or not, the caller gives up.                                       *)
LEMMA KeepsCallFails ==
    ASSUME AssetInv, NEW c \in Comfy, Assets!CallFails(c)
    PROVE AssetInv'
<1>1. /\ doing[c] \in Assets!Calls /\ Assets!GiveUp(c) /\ UNCHANGED <<returned, written>>
      /\ \/ doing[c] \notin {"look", "find"} /\ Assets!Effect(c)
         \/ UNCHANGED revisions
  BY DEF Assets!CallFails
<1>2. Frame(c) /\ (owner[c] # "out" \/ doing[c] \in {"tag", "find", "finish"} =>
                      Output(revisions', target[c], job[c], deps[c], missed[c]))
  BY <1>1, Effects DEF Assets!Calls
<1> QED
  BY <1>1, <1>2, KeepsGiveUp

(* A process that stops forgets.                                           *)
LEMMA KeepsStop == ASSUME AssetInv, NEW c \in Comfy, Assets!Stop(c) PROVE AssetInv'
BY FrameSame, Forgotten DEF Assets!Stop, Assets!service

(* Publishing closes a revision, and changes nothing of it.                *)
LEMMA KeepsPublish ==
    ASSUME AssetInv, NEW i \in DOMAIN revisions, Assets!Publish(i) PROVE AssetInv'
<1>1. /\ revisions' = [revisions EXCEPT ![i] = [revisions[i] EXCEPT !.closed = TRUE]]
      /\ UNCHANGED <<doing, job, again, target, returned, owner, todo, deps, missed, held,
                     written>>
  BY DEF Assets!Publish, Assets!jobVars
<1>2. revisions \in Seq(RevRec) /\ written \in Nat
  BY DEF AssetInv, AssetTyped
<1> DEFINE x == [revisions[i] EXCEPT !.closed = TRUE]
<1>3. /\ x \in RevRec /\ x.owner = revisions[i].owner /\ x.save = revisions[i].save
      /\ x.about = revisions[i].about /\ x.arts = revisions[i].arts
      /\ x.edges = revisions[i].edges
  <2>1. revisions[i] \in RevRec
    BY <1>2
  <2> QED
    BY <2>1 DEF RevRec
<1>4. revisions' = [revisions EXCEPT ![i] = x]
  BY <1>1
<1> HIDE DEF x
<1>5. /\ revisions' \in Seq(RevRec) /\ DOMAIN revisions' = DOMAIN revisions
      /\ revisions'[i] = x
      /\ \A k \in DOMAIN revisions \ {i} : revisions'[k] = revisions[k]
  <2>1. revisions \in [1..Len(revisions) -> RevRec] /\ Len(revisions) \in Nat
        /\ DOMAIN revisions = 1..Len(revisions)
    BY <1>2
  <2>2. revisions' \in [1..Len(revisions) -> RevRec]
    BY <2>1, <1>3, <1>4
  <2> QED
    BY <2>1, <2>2, <1>4
<1>6. /\ Grown(revisions, revisions')
      /\ \A k \in DOMAIN revisions : Spared(revisions, revisions', k)
  BY <1>3, <1>5 DEF Grown, Spared
<1>7. ASSUME NEW k \in DOMAIN revisions' PROVE RevGood(revisions', k)
  <2>1. k \in DOMAIN revisions /\ RevGood(revisions, k)
    BY <1>5 DEF AssetInv
  <2>2. revisions[k].edges \subseteq DOMAIN revisions
    BY <2>1, EdgesLead
  <2>3. revisions'[k].arts = revisions[k].arts /\ revisions'[k].edges = revisions[k].edges
    BY <2>1, <1>6 DEF Spared
  <2> QED
    BY <2>1, <2>2, <2>3, <1>6, GoodKept
<1>8. ASSUME NEW d \in Comfy PROVE ProcOf(d)'
  <2>1. CASE doing[d] = "idle" /\ owner[d] = "out"
    BY <2>1, <1>1 DEF ProcOf, Working
  <2>2. CASE Started(revisions, written, doing[d], job[d], owner[d], todo[d], target[d],
                     held[d], deps[d], missed[d])
    <3>1. Started(revisions', written, doing[d], job[d], owner[d], todo[d], target[d],
                  held[d], deps[d], missed[d])
      BY <2>2, <1>2, <1>6, StartedKept DEF Of
    <3> QED
      BY <3>1, <1>1 DEF ProcOf, Working
  <2> QED
    BY <2>1, <2>2 DEF AssetInv, ProcOf, Working
<1>9. ASSUME NEW r \in returned' PROVE ReturnGood(revisions', written', r)
  <2>1. ReturnGood(revisions, written, r)
    BY <1>1 DEF AssetInv
  <2>2. Spared(revisions, revisions', r.rev)
    BY <2>1, <1>6 DEF ReturnGood, Output, Of
  <2>3. Output(revisions', r.rev, r.job, {}, r.missed)
    BY <2>1, <2>2, <1>6, OutputKept DEF ReturnGood
  <2> QED
    BY <2>1, <2>3, <1>1 DEF ReturnGood
<1>10. AssetTyped' /\ Apart'
  BY <1>1, <1>5 DEF AssetInv, AssetTyped, Apart
<1> QED
  BY <1>7, <1>8, <1>9, <1>10 DEF AssetInv

(* Every step.                                                             *)
LEMMA AssetMoves == AssetInv /\ [Assets!Next]_(Assets!comfyVars) => AssetInv'
<1> SUFFICES ASSUME AssetInv, [Assets!Next]_(Assets!comfyVars) PROVE AssetInv'
  OBVIOUS
<1>1. ASSUME NEW c \in Comfy,
    Assets!SaveImage(c) \/ Assets!SaveVideo(c) \/ Assets!Stop(c) PROVE AssetInv'
  BY <1>1, KeepsSave, KeepsStop DEF Assets!SaveImage, Assets!SaveVideo
<1>2. ASSUME NEW c \in Comfy, Assets!Calling(c) PROVE AssetInv'
  BY <1>2, KeepsLook, KeepsMake, KeepsCreateRevision, KeepsCreateArtifact, KeepsRetry,
     KeepsTag, KeepsFind, KeepsEdge, KeepsFinish, KeepsRefused, KeepsCallFails DEF Assets!Calling
<1>3. CASE UNCHANGED Assets!comfyVars
  <2>1. Apart'
    BY <1>3 DEF Assets!comfyVars, AssetInv, Apart
  <2>2. \A d \in Comfy : ProcOf(d)'
    BY <1>3 DEF Assets!comfyVars, AssetInv, ProcOf
  <2> QED
    BY <1>3, <2>1, <2>2 DEF Assets!comfyVars, AssetInv, AssetTyped
<1> QED
  BY <1>1, <1>2, <1>3, KeepsPublish DEF Assets!Next, Assets!RegisterImage,
     Assets!RegisterVideo, Assets!LinkVideo

----
(* The latest output is one.                                               *)
LEMMA LatestIs ==
    ASSUME AssetInv
    PROVE  IF Assets!Outputs = {} THEN Assets!Latest = 0 ELSE
        Assets!Latest \in Assets!Outputs
<1>1. DOMAIN revisions = 1..Len(revisions) /\ Len(revisions) \in Nat
  BY DEF AssetInv, AssetTyped
<1>2. Assets!Outputs \in SUBSET (1..Len(revisions))
  BY <1>1 DEF Assets!Outputs
<1>3. Assets!Outputs # {} => \E s \in Assets!Outputs : \A t \in Assets!Outputs : t <= s
  BY <1>1, <1>2, MaxExists
<1> QED
  BY <1>3 DEF Assets!Latest

(* What is shown of an output first is one of its files and no preview.    *)
LEMMA ForemostIs ==
    ASSUME AssetInv, NEW i \in Assets!Outputs
    PROVE  /\ 0 \notin DOMAIN revisions
           /\ \A p \in Assets!Foremost(i) :
                 p \in revisions[i].arts /\ p[1] = "out" /\ p[3] # "preview"
<1>1. i \in DOMAIN revisions /\ revisions[i].owner = "out" /\ RevGood(revisions, i)
  BY DEF Assets!Outputs, AssetInv
<1>2. 0 \notin DOMAIN revisions
  BY DEF AssetInv, AssetTyped
<1>3. ASSUME NEW p \in Assets!Foremost(i)
      PROVE  p \in revisions[i].arts /\ p[1] = "out" /\ p[3] # "preview"
  <2>1. /\ p \in revisions[i].arts
        /\ p[3] # "preview" \/ Assets!Cardinality(revisions[i].arts) = 1
    BY <1>1, <1>2 DEF Assets!Foremost
  <2>2. p[1] = "out" /\ (p[3] = "preview" => \E q \in revisions[i].arts : q[3] = "video")
    BY <1>1, <2>1 DEF RevGood
  <2>3. ASSUME p[3] = "preview", Assets!Cardinality(revisions[i].arts) = 1 PROVE FALSE
    <3>1. IsFiniteSet(revisions[i].arts)
      BY <1>1 DEF RevGood
    <3>2. Cardinality(revisions[i].arts) = 1
      BY <2>3 DEF Assets!Cardinality, Cardinality
    <3>3. PICK x : revisions[i].arts = {x}
      BY <3>1, <3>2, FS_Singleton
    <3> QED
      BY <2>1, <2>2, <2>3, <3>3
  <2> QED
    BY <2>1, <2>2, <2>3
<1> QED
  BY <1>2, <1>3

(* What the invariant is for.                                              *)
LEMMA AssetsFollow == AssetInv => Assets!AssetsAreTrue
<1> SUFFICES ASSUME AssetInv PROVE Assets!AssetsAreTrue
  OBVIOUS
<1>1. \A f : Assets!Holders(f) = Holding(revisions, f)
  BY DEF Assets!Holders, Holding
<1>2. \A r \in returned : ReturnGood(revisions, written, r)
  BY DEF AssetInv
<1>3. Assets!SavedIsWhole
  BY <1>2 DEF Assets!SavedIsWhole, ReturnGood, Output, Of, OutPaths
<1>4. Assets!LineageIsTrue
  <2>1. ASSUME NEW i \in DOMAIN revisions, NEW e \in revisions[i].edges
        PROVE  \E f \in Assets!Files : e \in Assets!Holders(f) /\ revisions[e].owner = f
    <3>1. RevGood(revisions, i)
      BY DEF AssetInv
    <3> QED
      BY <3>1, <1>1 DEF RevGood
  <2>2. ASSUME NEW r \in returned
        PROVE  /\ \A e \in revisions[r.rev].edges :
                      \E f \in Loaded(r.job) : e \in Assets!Holders(f)
               /\ \A f \in Loaded(r.job) \ r.missed :
                     revisions[r.rev].edges \cap Assets!Holders(f) # {}
    <3>1. Lineage(revisions, r.rev, r.job, {}, r.missed)
      BY <1>2 DEF ReturnGood, Output
    <3> QED
      BY <3>1, <1>1 DEF Lineage, Loaded
  <2> QED
    BY <2>1, <2>2 DEF Assets!LineageIsTrue, Loaded
<1>5. Assets!KrefLoadsItsSave
  <2>1. ASSUME NEW r \in returned, NEW name \in {"any", "preview"},
      NEW p \in Assets!LoadAsset(r.rev, name)
        PROVE  /\ p \in {Assets!OutputPath(r.job.save, r.job.names[k]) : k \in DOMAIN r.job.names}
               /\ name = "any" => p[3] # "preview"
    <3> DEFINE all == revisions[r.rev].arts
               first == Assets!OutputPath(r.job.save, r.job.names[1])
    <3>1. r.rev \in Assets!Outputs /\ all = OutPaths(r.job) /\ r.job.names \in NameLists
      BY <1>2 DEF ReturnGood, Output, Of, Assets!Outputs, JobRec
    <3>2. Assets!RevisionOf(r.rev) = r.rev /\ r.rev # 0
      BY <3>1, ForemostIs DEF Assets!RevisionOf, Assets!Outputs
    <3>3. first \in all /\ first[3] # "preview"
      BY <3>1, NamesAre DEF OutPaths, Assets!OutputPath
    <3>4. first \in Assets!Foremost(r.rev)
      BY <3>2, <3>3 DEF Assets!Foremost
    <3> HIDE DEF first
    <3>5. CASE name = "any"
      <4>1. Assets!LoadAsset(r.rev, name) = Assets!Foremost(r.rev)
        BY <3>2, <3>4, <3>5 DEF Assets!LoadAsset, Assets!ArtifactsOf
      <4> QED
        BY <4>1, <2>1, <3>1, ForemostIs DEF OutPaths
    <3>6. CASE name = "preview"
      <4>1. Assets!LoadAsset(r.rev, name) \subseteq all
        <5> DEFINE named == {q \in all : q[3] = name}
                   got == IF named = {} THEN all ELSE named
        <5>1. Assets!ArtifactsOf(Assets!RevisionOf(r.rev), name) = got
          BY <3>2, <3>6 DEF Assets!ArtifactsOf
        <5>2. got \subseteq all /\ got # {}
          BY <3>3
        <5> QED
          BY <5>1, <5>2 DEF Assets!LoadAsset
      <4> QED
        BY <4>1, <2>1, <3>1, <3>6 DEF OutPaths
    <3> QED
      BY <3>5, <3>6
  <2>2. ASSUME NEW p \in Assets!SearchItems PROVE p[1] = "out" /\ p[3] # "preview"
    <3>1. Assets!Outputs # {}
      BY <2>2, LatestIs DEF Assets!SearchItems, Assets!Foremost
    <3> QED
      BY <2>2, <3>1, LatestIs, ForemostIs DEF Assets!SearchItems
  <2> QED
    BY <2>1, <2>2 DEF Assets!KrefLoadsItsSave
<1> QED
  BY <1>3, <1>4, <1>5 DEF Assets!AssetsAreTrue

(***************************************************************************)
(* The trigger of n8n                                                      *)
(***************************************************************************)
(* The events that pass the filter, and those of them after one cursor and *)
(* up to another.                                                          *)
Passes == {e \in 1..Len(log) : Trigger!Verdict(log[e]) = "yes"}
Between(P, from, to) == {e \in P : from < e /\ e <= to}

(* What a sequence of numbers holds, and that it rises.                    *)
Rising(s) == \A i, j \in DOMAIN s : i < j => s[i] < s[j]
Values(s) == {s[i] : i \in DOMAIN s}

(* With n events published, cursors are among them.                        *)
Counted(n) ==
    /\ filter \in Patterns /\ configured \in {0, 1} /\ ever \subseteq 1..n
    /\ loop \in {"off", "connecting", "reading", "sleeping", "dead"}
    /\ configured \in 0..n /\ cursor \in 0..n /\ staticCursor \in 0..n
    /\ savedCursor \in 0..n /\ position \in 0..n /\ base \in 0..n /\ origin \in 0..n
    /\ breaks \in 0..MaxBreaks /\ starts \in 0..MaxStarts

(* Of P, what passes, this activation has emitted what is between its base *)
(* and its cursor, and while the stream is open, up to its position.       *)
Emitting(P) ==
    /\ Rising(emitted) /\ Values(emitted) \subseteq ever
    /\ cursor = 0 => emitted = <<>>
    /\ cursor # 0 => base <= cursor /\ Values(emitted) = Between(P, base, cursor)
    /\ loop = "reading" =>
          /\ base <= position /\ cursor <= position
          /\ Values(emitted) = Between(P, base, position)

(* The cursors that are kept, and the base of this activation, are not     *)
(* ahead of what was ever emitted.                                         *)
Kept(P) ==
    /\ Between(P, origin, staticCursor) \subseteq ever
    /\ Between(P, origin, savedCursor) \subseteq ever
    /\ Between(P, origin, base) \subseteq ever
    /\ cursor = 0 => staticCursor = 0
    /\ staticCursor = 0 => savedCursor = 0
    /\ starts = 0 => cursor = 0 /\ loop = "off"
    /\ configured # 0 /\ starts > 0 => origin = configured /\ cursor # 0

(* The invariant, for n events of which those in P pass.                   *)
Streaming(n, P) == Counted(n) /\ Emitting(P) /\ Kept(P)

(* The inductive invariant of the trigger.                                 *)
StreamInv ==
    /\ log \in Seq(Names) /\ emitted \in Seq(Nat)
    /\ Streaming(Len(log), Passes)

(* The bounds of the trigger are numbers.                                  *)
LEMMA TriggerBounds == {MaxEvents, MaxBreaks, MaxStarts} \subseteq Nat
BY EdgesAssumption DEF EdgesAssumption, Trigger!TriggerAssumption

(* A sequence with one more element.                                       *)
LEMMA Appended ==
    ASSUME NEW S, NEW s \in Seq(S), NEW e \in S
    PROVE  /\ Append(s, e) \in Seq(S) /\ Len(s) \in Nat /\ Len(Append(s, e)) = Len(s) + 1
           /\ DOMAIN s = 1..Len(s) /\ DOMAIN Append(s, e) = 1..(Len(s) + 1)
           /\ \A i \in 1..Len(s) : Append(s, e)[i] = s[i]
           /\ Append(s, e)[Len(s) + 1] = e
<1>1. /\ Append(s, e) \in Seq(S) /\ Len(Append(s, e)) = Len(s) + 1
      /\ \A i \in 1..Len(s) : Append(s, e)[i] = s[i]
      /\ Append(s, e)[Len(s) + 1] = e
  BY AppendProperties
<1>2. /\ Len(s) \in Nat /\ DOMAIN s = 1..Len(s)
      /\ DOMAIN Append(s, e) = 1..Len(Append(s, e))
  BY <1>1, LenProperties
<1> QED
  BY <1>1, <1>2

(* While nothing is published, the same events pass.                       *)
LEMMA PassesStay ==
    ASSUME filter' = filter, log' = log
    PROVE  Passes' = Passes
<1>1. \A w : Trigger!Verdict(w)' = Trigger!Verdict(w)
  BY DEF Trigger!Verdict
<1>2. \A e : e \in Passes' <=> e \in Passes
  <2> TAKE e
  <2>1. e \in 1..Len(log') <=> e \in 1..Len(log)
    BY Zenon
  <2>2. Trigger!Verdict(log[e])' = Trigger!Verdict(log[e])
    BY DEF Trigger!Verdict
  <2> QED
    BY <2>1, <2>2, Zenon DEF Passes
<1> QED
  BY <1>2, Zenon

(* What passes was published.                                              *)
LEMMA PassesAre ==
    ASSUME log \in Seq(Names)
    PROVE  Len(log) \in Nat /\ Passes \in SUBSET (1..Len(log))
BY LenProperties DEF Passes

(* What is published is after all that was there.                          *)
LEMMA PassesGrow ==
    ASSUME filter' = filter, log \in Seq(Names), NEW v \in Names, log' = Append(log, v)
    PROVE  /\ log' \in Seq(Names) /\ Len(log') = Len(log) + 1
           /\ Passes' \in SUBSET (1..Len(log) + 1)
           /\ \A e \in 1..Len(log) : e \in Passes' <=> e \in Passes
<1>1. /\ Append(log, v) \in Seq(Names) /\ Len(Append(log, v)) = Len(log) + 1
      /\ Len(log) \in Nat /\ \A e \in 1..Len(log) : Append(log, v)[e] = log[e]
  BY Appended
<1>2. log' \in Seq(Names)
  BY <1>1, Zenon
<1>3. Len(log') = Len(log) + 1 /\ \A e \in 1..Len(log) : log'[e] = log[e]
  BY <1>1, Zenon
<1>4. \A w : Trigger!Verdict(w)' = Trigger!Verdict(w)
  BY DEF Trigger!Verdict
<1>5. \A e \in 1..Len(log) : e \in 1..Len(log')
  BY <1>1, <1>3
<1>6. \A e \in 1..Len(log) : e \in Passes' <=> e \in Passes
  BY <1>3, <1>4, <1>5, Zenon DEF Passes
<1>7. Passes' \in SUBSET (1..Len(log) + 1)
  BY <1>3 DEF Passes
<1> QED
  BY <1>2, <1>3, <1>6, <1>7

(* What nothing has of these.                                              *)
LEMMA NothingIs ==
    /\ Values(<<>>) = {} /\ Rising(<<>>)
    /\ \A P \in SUBSET Nat : \A a, b \in Nat : b <= a => Between(P, a, b) = {}
<1>1. \A i : i \notin DOMAIN <<>>
  OBVIOUS
<1>2. Values(<<>>) = {} /\ Rising(<<>>)
  BY <1>1, Zenon DEF Values, Rising
<1>3. ASSUME NEW P \in SUBSET Nat, NEW a \in Nat, NEW b \in Nat, b <= a
      PROVE  Between(P, a, b) = {}
  <2>1. ASSUME NEW e \in P, a < e, e <= b PROVE FALSE
    <3>1. e \in Nat
      OBVIOUS
    <3> QED
      BY <1>3, <2>1, <3>1
  <2> QED
    BY <2>1 DEF Between
<1> QED
  BY <1>2, <1>3

(* Nothing was emitted yet.                                                *)
LEMMA StreamInit == Trigger!Init => StreamInv
<1> SUFFICES ASSUME Trigger!Init PROVE StreamInv
  OBVIOUS
<1>1. log \in Seq(Names) /\ configured \in 0..Len(log)
  <2>1. CASE configured = 0 /\ log = <<>>
    BY <2>1, EmptySeq, LenProperties
  <2>2. CASE configured = 1 /\ \E v \in Names : log = <<v>>
    <3>1. PICK v \in Names : log = <<v>>
      BY <2>2
    <3>2. log \in Seq(Names) /\ Len(log) = 1
      BY <3>1
    <3> QED
      BY <2>2, <3>2
  <2> QED
    BY <2>1, <2>2 DEF Trigger!Init
<1>2. PICK n \in Nat, P \in SUBSET Nat : n = Len(log) /\ P = Passes
  BY <1>1, PassesAre
<1>3. emitted \in Seq(Nat) /\ Values(emitted) = {} /\ Rising(emitted)
  BY NothingIs DEF Trigger!Init
<1>4. Counted(n)
  BY <1>1, <1>2, TriggerBounds DEF Trigger!Init, Counted
<1>5. Emitting(P) /\ Kept(P)
  BY <1>3, NothingIs DEF Trigger!Init, Emitting, Kept
<1> QED
  BY <1>1, <1>2, <1>3, <1>4, <1>5 DEF StreamInv, Streaming

(* An event is published.                                                  *)
LEMMA PublishKeeps ==
    ASSUME NEW n \in Nat, NEW P \in SUBSET (1..n), NEW Q \in SUBSET (1..n + 1),
           \A e \in 1..n : e \in Q <=> e \in P,
           Streaming(n, P),
           UNCHANGED <<filter, configured, loop, cursor, staticCursor, savedCursor, position,
                       base, origin, emitted, ever, breaks, starts>>
    PROVE  Streaming(n + 1, Q)'
<1>1. Counted(n + 1)'
  BY DEF Streaming, Counted
<1>2. ASSUME NEW a \in 0..n, NEW b \in 0..n PROVE Between(Q, a, b) = Between(P, a, b)
  <2>1. \A e \in P \cup Q : a < e /\ e <= b => e \in 1..n
    OBVIOUS
  <2> QED
    BY <2>1 DEF Between
<1>3. Emitting(Q)' /\ Kept(Q)'
  BY <1>2 DEF Streaming, Counted, Emitting, Kept
<1> QED
  BY <1>1, <1>3 DEF Streaming

(* The node is activated, at the cursor that is configured or was kept.    *)
LEMMA ActivateKeeps ==
    ASSUME NEW n \in Nat, NEW P \in SUBSET (1..n), Streaming(n, P), Trigger!Activate
    PROVE  Streaming(n, P)'
<1>1. /\ UNCHANGED <<filter, configured, log, staticCursor, savedCursor, position, ever,
                     breaks>>
      /\ starts < MaxStarts /\ starts' = starts + 1 /\ loop' = "connecting"
      /\ cursor' = IF configured # 0 THEN configured ELSE staticCursor
      /\ base' = cursor' /\ origin' = IF starts = 0 THEN cursor' ELSE origin
  BY DEF Trigger!Activate, Trigger!setting
<1>2. emitted' = <<>> /\ Values(emitted') = {} /\ Rising(emitted')
  BY NothingIs DEF Trigger!Activate
<1>3. Counted(n)'
  BY <1>1, TriggerBounds DEF Streaming, Counted
<1>4. cursor' \in Nat /\ Between(P, base', cursor') = {} /\ base' <= cursor'
  BY <1>1, NothingIs DEF Streaming, Counted
<1>5. Emitting(P)'
  BY <1>1, <1>2, <1>4 DEF Emitting
<1>6. Kept(P)'
  BY <1>1, NothingIs DEF Streaming, Counted, Kept
<1> QED
  BY <1>3, <1>5, <1>6 DEF Streaming

(* The stream opens, at the cursor or at the end.                          *)
LEMMA ConnectKeeps ==
    ASSUME NEW n \in Nat, NEW P \in SUBSET (1..n), Streaming(n, P), n = Len(log),
           Trigger!Connect
    PROVE  Streaming(n, P)'
<1>1. /\ UNCHANGED <<filter, configured, log, cursor, staticCursor, savedCursor, emitted,
                     ever, breaks, starts>>
      /\ loop = "connecting" /\ loop' = "reading"
      /\ cursor = 0 => /\ position' = n /\ base' = n
                       /\ origin' = IF staticCursor = 0 THEN n ELSE origin
      /\ cursor # 0 => position' = cursor /\ UNCHANGED <<base, origin>>
  BY DEF Trigger!Connect, Trigger!setting, Trigger!progress
<1>2. Counted(n)'
  <2>1. n \in 0..n /\ cursor \in 0..n
    BY DEF Streaming, Counted
  <2>2. position' \in 0..n /\ base' \in 0..n /\ origin' \in 0..n
    BY <1>1, <2>1 DEF Streaming, Counted
  <2> QED
    BY <1>1, <2>2 DEF Streaming, Counted
<1>3. Emitting(P)'
  <2>1. CASE cursor = 0
    <3>1. Values(emitted) = {} /\ Rising(emitted) /\ Between(P, n, n) = {} /\ n <= n
      BY <2>1, NothingIs DEF Streaming, Emitting
    <3> QED
      BY <1>1, <2>1, <3>1 DEF Streaming, Emitting
  <2>2. CASE cursor # 0
    BY <1>1, <2>2 DEF Streaming, Counted, Emitting
  <2> QED
    BY <2>1, <2>2
<1>4. Kept(P)'
  <2>1. CASE cursor = 0
    <3>1. staticCursor = 0 /\ savedCursor = 0 /\ starts # 0 /\ configured = 0
      BY <1>1, <2>1 DEF Streaming, Counted, Kept
    <3>2. Between(P, n, 0) = {} /\ Between(P, n, n) = {}
      BY NothingIs
    <3> QED
      BY <1>1, <2>1, <3>1, <3>2 DEF Kept
  <2>2. CASE cursor # 0
    BY <1>1, <2>2 DEF Streaming, Kept
  <2> QED
    BY <2>1, <2>2
<1> QED
  BY <1>2, <1>3, <1>4 DEF Streaming

(* What is appended is the last of what was emitted.                       *)
LEMMA EmittedGrows ==
    ASSUME NEW s \in Seq(Nat), NEW n \in Nat, Rising(s), \A e \in Values(s) : e < n
    PROVE  /\ Append(s, n) \in Seq(Nat) /\ Rising(Append(s, n))
           /\ Values(Append(s, n)) = Values(s) \cup {n}
<1> DEFINE t == Append(s, n)
<1>1. /\ t \in Seq(Nat) /\ Len(s) \in Nat /\ DOMAIN s = 1..Len(s)
      /\ DOMAIN t = 1..(Len(s) + 1) /\ t[Len(s) + 1] = n
      /\ \A i \in 1..Len(s) : t[i] = s[i]
  BY Appended
<1> HIDE DEF t
<1>2. PICK k \in Nat : k = Len(s)
  BY <1>1
<1>3. /\ DOMAIN s = 1..k /\ DOMAIN t = 1..(k + 1) /\ t[k + 1] = n
      /\ \A i \in 1..k : t[i] = s[i]
  BY <1>1, <1>2, Zenon
<1>4. \A i \in 1..k : s[i] \in Values(s)
  BY <1>3, Zenon DEF Values
<1>5. \A i \in 1..(k + 1) : i \in 1..k \/ i = k + 1
  BY <1>2
<1>6. Rising(t)
  <2> SUFFICES ASSUME NEW i \in 1..(k + 1), NEW j \in 1..(k + 1), i < j PROVE t[i] < t[j]
    BY <1>3, Zenon DEF Rising
  <2>1. i \in 1..k
    BY <1>2
  <2>2. CASE j = k + 1
    <3>1. s[i] < n
      BY <1>4, <2>1, Zenon
    <3> QED
      BY <1>3, <2>1, <2>2, <3>1, Zenon
  <2>3. CASE j \in 1..k
    <3>1. s[i] < s[j]
      BY <1>3, <2>1, <2>3, Zenon DEF Rising
    <3> QED
      BY <1>3, <2>1, <2>3, <3>1, Zenon
  <2> QED
    BY <1>5, <2>2, <2>3
<1>7. Values(t) = Values(s) \cup {n}
  <2>1. \A i \in 1..k : i \in 1..(k + 1)
    BY <1>2
  <2>2. k + 1 \in 1..(k + 1)
    BY <1>2
  <2>3. \A x : x \in Values(t) <=> x \in Values(s) \/ x = n
    BY <1>3, <1>5, <2>1, <2>2, Zenon DEF Values
  <2> QED
    BY <2>3
<1> QED
  BY <1>1, <1>6, <1>7 DEF t

(* An event arrives and is emitted, if it passes.                          *)
LEMMA ReceiveKeeps ==
    ASSUME NEW n \in Nat, NEW P \in SUBSET (1..n), Streaming(n, P), n = Len(log),
           emitted \in Seq(Nat), P = Passes, Trigger!Receive
    PROVE  emitted' \in Seq(Nat) /\ Streaming(n, P)'
<1>1. /\ UNCHANGED <<filter, configured, log, savedCursor, base, origin, breaks, starts>>
      /\ loop = "reading" /\ position < n /\ position' = position + 1
  BY DEF Trigger!Receive, Trigger!setting
<1>2. /\ position \in Nat /\ position + 1 \in 1..n
      /\ position + 1 \in P <=> Trigger!Verdict(log[position + 1]) = "yes"
  BY <1>1 DEF Streaming, Counted, Passes
<1>3. base <= position /\ cursor <= position /\ Values(emitted) = Between(P, base, position)
  BY <1>1 DEF Streaming, Emitting
<1>0. \A e \in P : e \in Int
  OBVIOUS
<1>4. CASE position + 1 \in P
  <2>1. /\ cursor' = position + 1 /\ staticCursor' = position + 1
        /\ emitted' = Append(emitted, position + 1) /\ ever' = ever \cup {position + 1}
        /\ loop' = loop
    BY <1>1, <1>2, <1>4 DEF Trigger!Receive
  <2>2. \A e \in Values(emitted) : e < position + 1
    <3> TAKE e \in Values(emitted)
    <3>1. e \in P /\ e <= position
      BY <1>3, Zenon DEF Between
    <3>2. e \in Int /\ position \in Int
      BY <1>0, <1>2, <3>1
    <3> HIDE <1>1, <1>2, <1>3, <1>4
    <3> QED
      BY <3>1, <3>2
  <2>3. /\ emitted' \in Seq(Nat) /\ Rising(emitted')
        /\ Values(emitted') = Values(emitted) \cup {position + 1}
    BY <1>2, <2>1, <2>2, EmittedGrows DEF Streaming, Emitting
  <2>4. Counted(n)'
    BY <1>1, <1>2, <2>1 DEF Streaming, Counted
  <2>5. Between(P, base, position + 1) = Between(P, base, position) \cup {position + 1}
    <3>1. \A e \in P : base < e /\ e <= position + 1
                             <=> (base < e /\ e <= position) \/ e = position + 1
      BY <1>0, <1>2, <1>3 DEF Streaming, Counted
    <3> QED
      BY <1>4, <3>1, Zenon DEF Between
  <2>6. Emitting(P)'
    <3>1. Values(emitted') = Between(P, base, position + 1)
      BY <1>3, <2>3, <2>5
    <3>2. Values(emitted') \subseteq ever'
      BY <2>1, <2>3 DEF Streaming, Emitting
    <3>3. base <= position + 1 /\ position + 1 # 0 /\ position + 1 <= position + 1
      BY <1>2, <1>3 DEF Streaming, Counted
    <3> QED
      BY <1>1, <2>1, <2>3, <3>1, <3>2, <3>3 DEF Emitting
  <2>7. Kept(P)'
    <3>1. ASSUME NEW e \in P, origin < e, e <= position + 1 PROVE e \in ever'
      <4>1. e <= base \/ (base < e /\ e <= position) \/ e = position + 1
        BY <1>0, <1>2, <3>1 DEF Streaming, Counted
      <4>2. CASE e <= base
        BY <2>1, <3>1, <4>2 DEF Streaming, Kept, Between
      <4>3. CASE base < e /\ e <= position
        BY <1>3, <2>1, <4>3 DEF Streaming, Emitting, Between
      <4> QED
        BY <2>1, <4>1, <4>2, <4>3
    <3>2. Between(P, origin, position + 1) \subseteq ever'
      BY <3>1 DEF Between
    <3>3. /\ Between(P, origin, savedCursor) \subseteq ever'
          /\ Between(P, origin, base) \subseteq ever'
      BY <2>1 DEF Streaming, Kept
    <3>4. position + 1 # 0 /\ starts # 0
          /\ (configured # 0 /\ starts > 0 => origin = configured)
      BY <1>1, <1>2 DEF Streaming, Kept
    <3> QED
      BY <1>1, <2>1, <3>2, <3>3, <3>4 DEF Kept
  <2> QED
    BY <2>3, <2>4, <2>6, <2>7 DEF Streaming
<1>5. CASE position + 1 \notin P
  <2>1. /\ UNCHANGED <<cursor, staticCursor, emitted, ever>>
        /\ loop' \in {"reading", "sleeping"}
    BY <1>1, <1>2, <1>5 DEF Trigger!Receive, Trigger!progress
  <2>2. Counted(n)'
    BY <1>1, <1>2, <2>1 DEF Streaming, Counted
  <2>3. Between(P, base, position + 1) = Between(P, base, position)
    <3>1. \A e \in P : e <= position + 1 <=> e <= position
      BY <1>0, <1>2, <1>5
    <3> QED
      BY <3>1, Zenon DEF Between
  <2>4. base <= position + 1 /\ cursor <= position + 1
    BY <1>2, <1>3 DEF Streaming, Counted
  <2>5. Emitting(P)'
    BY <1>1, <1>3, <2>1, <2>3, <2>4 DEF Streaming, Emitting
  <2>6. Kept(P)'
    BY <1>1, <2>1 DEF Streaming, Kept
  <2> QED
    BY <2>1, <2>2, <2>5, <2>6 DEF Streaming
<1> QED
  BY <1>4, <1>5

(* The stream ends, sleeps or dies, the node is closed, n8n saves what is  *)
(* to be kept, or is killed.                                               *)
LEMMA PauseKeeps ==
    ASSUME NEW n \in Nat, NEW P \in SUBSET (1..n), Streaming(n, P),
           \/ Trigger!Break \/ Trigger!Wake \/ Trigger!LoopThrows \/ Trigger!Close
           \/ Trigger!SaveStaticData \/ Trigger!Kill
    PROVE  emitted' = emitted /\ UNCHANGED <<filter, log>> /\ Streaming(n, P)'
<1>1. /\ UNCHANGED <<filter, configured, log, cursor, position, base, origin, emitted,
                     ever, starts>>
      /\ loop' \in {loop, "off", "connecting", "sleeping", "dead"}
      /\ loop = "off" => loop' = "off"
      /\ \/ UNCHANGED <<staticCursor, savedCursor>>
         \/ savedCursor' = staticCursor /\ staticCursor' = staticCursor
         \/ staticCursor' = savedCursor /\ savedCursor' = savedCursor
  BY DEF Trigger!Break, Trigger!Wake, Trigger!LoopThrows, Trigger!Close,
     Trigger!SaveStaticData, Trigger!Kill, Trigger!setting, Trigger!progress
<1>2. breaks' \in 0..MaxBreaks
  BY TriggerBounds DEF Trigger!Break, Trigger!Wake, Trigger!LoopThrows, Trigger!Close,
     Trigger!SaveStaticData, Trigger!Kill, Streaming, Counted
<1>3. Counted(n)'
  BY <1>1, <1>2 DEF Streaming, Counted
<1>4. Emitting(P)'
  BY <1>1 DEF Streaming, Emitting
<1>5. Kept(P)'
  BY <1>1 DEF Streaming, Kept
<1> QED
  BY <1>1, <1>3, <1>4, <1>5 DEF Streaming

(* A step of the trigger keeps the invariant.                              *)
LEMMA StreamKept == StreamInv /\ [Trigger!Next]_(Trigger!vars) => StreamInv'
<1> SUFFICES ASSUME StreamInv, [Trigger!Next]_(Trigger!vars) PROVE StreamInv'
  OBVIOUS
<1>1. log \in Seq(Names) /\ emitted \in Seq(Nat)
  BY DEF StreamInv
<1>2. PICK n \in Nat : n = Len(log)
  BY <1>1, PassesAre
<1>3. PICK P \in SUBSET (1..n) : P = Passes
  BY <1>1, <1>2, PassesAre
<1>4. Streaming(n, P)
  BY <1>2, <1>3, Zenon DEF StreamInv
<1>5. ASSUME emitted' \in Seq(Nat), UNCHANGED <<filter, log>>, Streaming(n, P)'
      PROVE  StreamInv'
  <2>1. Passes' = P
    BY <1>3, <1>5, PassesStay
  <2>2. log' = log
    BY <1>5
  <2> QED
    BY <1>1, <1>2, <1>5, <2>1, <2>2, Zenon DEF StreamInv
<1>6. ASSUME NEW v \in Names, Trigger!Publish(v) PROVE StreamInv'
  <2>1. /\ log' = Append(log, v)
        /\ UNCHANGED <<filter, configured, loop, cursor, staticCursor, savedCursor, position,
                       base, origin, emitted, ever, breaks, starts>>
    BY <1>6 DEF Trigger!Publish, Trigger!setting, Trigger!progress
  <2>2. filter' = filter /\ emitted' = emitted
    BY <2>1
  <2>3. PICK Q : Q = Passes'
    OBVIOUS
  <2>4. /\ log' \in Seq(Names) /\ Len(log') = n + 1 /\ Q \in SUBSET (1..n + 1)
        /\ \A e \in 1..n : e \in Q <=> e \in P
    BY <1>1, <1>2, <1>3, <2>1, <2>2, <2>3, PassesGrow, Zenon
  <2>5. Streaming(n + 1, Q)'
    BY <1>4, <2>1, <2>4, PublishKeeps
  <2> QED
    BY <1>1, <2>2, <2>3, <2>4, <2>5, Zenon DEF StreamInv
<1>7. CASE Trigger!Activate
  <2>1. emitted' = <<>> /\ UNCHANGED <<filter, log>>
    BY <1>7 DEF Trigger!Activate, Trigger!setting
  <2>2. emitted' \in Seq(Nat)
    BY <2>1
  <2> QED
    BY <1>4, <1>5, <1>7, <2>1, <2>2, ActivateKeeps
<1>8. CASE Trigger!Connect
  <2>1. emitted' = emitted /\ UNCHANGED <<filter, log>>
    BY <1>8 DEF Trigger!Connect, Trigger!setting, Trigger!progress
  <2> QED
    BY <1>1, <1>2, <1>4, <1>5, <1>8, <2>1, ConnectKeeps
<1>9. CASE Trigger!Receive
  <2>1. UNCHANGED <<filter, log>>
    BY <1>9 DEF Trigger!Receive, Trigger!setting
  <2> QED
    BY <1>1, <1>2, <1>3, <1>4, <1>5, <1>9, <2>1, ReceiveKeeps
<1>10. CASE \/ Trigger!Break \/ Trigger!Wake \/ Trigger!LoopThrows \/ Trigger!Close
            \/ Trigger!SaveStaticData \/ Trigger!Kill
  BY <1>1, <1>4, <1>5, <1>10, PauseKeeps
<1>11. CASE UNCHANGED Trigger!vars
  <2>1. Streaming(n, P)'
    BY <1>4, <1>11 DEF Trigger!vars, Trigger!setting, Trigger!progress, Streaming, Counted,
       Emitting, Kept
  <2>2. emitted' = emitted /\ UNCHANGED <<filter, log>>
    BY <1>11 DEF Trigger!vars, Trigger!setting, Trigger!progress
  <2> QED
    BY <1>1, <1>5, <2>1, <2>2
<1> QED
  BY <1>6, <1>7, <1>8, <1>9, <1>10, <1>11 DEF Trigger!Next

(* What the invariant says of the stream.                                  *)
LEMMA StreamIsGood == StreamInv => Trigger!StreamIsExact /\ Trigger!TypeOK
<1> SUFFICES ASSUME StreamInv PROVE Trigger!StreamIsExact /\ Trigger!TypeOK
  OBVIOUS
<1>1. log \in Seq(Names) /\ emitted \in Seq(Nat)
  BY DEF StreamInv
<1>2. PICK n \in Nat : n = Len(log)
  BY <1>1, PassesAre
<1>3. PICK P \in SUBSET (1..n) : P = Passes
  BY <1>1, <1>2, PassesAre
<1>4. Streaming(n, P)
  BY <1>2, <1>3, Zenon DEF StreamInv
<1>5. ASSUME NEW a \in 0..n, NEW b \in 0..n
      PROVE  Trigger!Passing(a, b) = Between(P, a, b)
  <2>1. \A e : e \in a + 1..b <=> e \in 1..n /\ a < e /\ e <= b
    OBVIOUS
  <2>2. \A e : e \in P <=> e \in 1..n /\ Trigger!Verdict(log[e]) = "yes"
    BY <1>2, <1>3 DEF Passes
  <2> QED
    BY <2>1, <2>2, Zenon DEF Trigger!Passing, Between
<1>6. Trigger!ToSet(emitted) = Values(emitted)
  BY DEF Trigger!ToSet, Values
<1>7. Trigger!StreamIsExact
  BY <1>4, <1>5, <1>6 DEF Streaming, Counted, Emitting, Kept, Rising, Trigger!StreamIsExact
<1>8. Trigger!TypeOK
  <2>1. \A i \in DOMAIN log : log[i] \in Names
    BY <1>1, ElementOfSeq, LenProperties
  <2> QED
    BY <1>2, <1>4, <1>6, <2>1 DEF Streaming, Counted, Emitting, Trigger!TypeOK
<1> QED
  BY <1>7, <1>8

(***************************************************************************)
(* The transcript                                                          *)
(***************************************************************************)

(* A reply answers a prompt before it, the last one unless there are       *)
(* branches.                                                               *)
Answers(i) ==
    records[i].to # 0 =>
        /\ records[i].kind = "reply" /\ records[i].to \in 1..(i - 1)
        /\ records[records[i].to].kind \in Packets!Prompts
        /\ ~Branching =>
               \A j \in (records[i].to + 1)..i : records[j].kind \notin Packets!Prompts
TranscriptInv == Packets!TypeOK /\ \A i \in DOMAIN records : Answers(i)

(* The bounds of the transcript are numbers.                               *)
LEMMA RecordBounds ==
    MaxRecords \in Nat /\ MaxEnds \in Nat /\ Branching \in BOOLEAN /\ Unlocked \notin Nat
BY EdgesAssumption DEF EdgesAssumption, Packets!TranscriptBounds, Ends!EndBounds

(* The latest of a set of positions is in the set.                         *)
LEMMA LatestIn ==
    ASSUME NEW n \in Nat, NEW I \in SUBSET (1..n), I # {}
    PROVE  /\ Packets!Latest(I) \in I /\ \A j \in I : j <= Packets!Latest(I)
           /\ Ends!Latest(I) = Packets!Latest(I)
<1>1. \E i \in I : \A j \in I : j <= i
  BY MaxExists
<1> QED
  BY <1>1 DEF Packets!Latest, Ends!Latest

(* A record is added: a reply to a prompt that was asked, or another.      *)
Grows(r) ==
    /\ records' = Append(records, r) /\ r \in Packets!Record /\ Len(records) < MaxRecords
    /\ r.to # 0 => /\ r.kind = "reply" /\ r.to \in Packets!Asked
                   /\ ~Branching => \A j \in Packets!Asked : j <= r.to

(* The positions of the prompts.                                           *)
LEMMA AskedAre ==
    ASSUME TranscriptInv
    PROVE  /\ Packets!Asked \in SUBSET (1..Len(records)) /\ Len(records) \in Nat
           /\ Ends!Asked = Packets!Asked /\ Ends!Answered = Packets!Answered
<1>1. DOMAIN records = 1..Len(records) /\ Len(records) \in Nat
  BY DEF TranscriptInv, Packets!TypeOK
<1>2. Ends!Asked = Packets!Asked
  BY DEF Ends!Asked, Packets!Asked, Ends!Prompts, Packets!Prompts
<1> QED
  BY <1>1, <1>2 DEF Packets!Asked, Ends!Answered, Packets!Answered, Ends!Latest, Packets!Latest

(* What may be answered was asked.                                         *)
LEMMA AnsweredAre ==
    ASSUME TranscriptInv, NEW to \in Packets!Answered
    PROVE  /\ to \in 0..MaxRecords
           /\ to # 0 => /\ to \in Packets!Asked
                        /\ ~Branching => \A j \in Packets!Asked : j <= to
<1>1. /\ Packets!Asked \in SUBSET (1..Len(records)) /\ Len(records) \in Nat
      /\ Len(records) <= MaxRecords
  BY AskedAre DEF TranscriptInv, Packets!TypeOK
<1>2. CASE Packets!Asked = {}
  BY <1>2, RecordBounds DEF Packets!Answered
<1>3. CASE Packets!Asked # {}
  <2>1. /\ Packets!Latest(Packets!Asked) \in Packets!Asked
        /\ \A j \in Packets!Asked : j <= Packets!Latest(Packets!Asked)
    BY <1>1, <1>3, LatestIn
  <2>2. to \in Packets!Asked /\ (~Branching => to = Packets!Latest(Packets!Asked))
    BY <1>3, <2>1 DEF Packets!Answered
  <2>3. to \in 1..Len(records) /\ to \in 0..MaxRecords
    BY <2>2, <1>1, RecordBounds
  <2> QED
    BY <2>1, <2>2, <2>3
<1> QED
  BY <1>2, <1>3

(* A conversation goes on in the same way for a backfill and for a session.*)
LEMMA WriteAdds ==
    ASSUME TranscriptInv, NEW kd \in Packets!Kinds, NEW sg \in BOOLEAN,
           Packets!Write(kd, sg) \/ Ends!Write(kd, sg)
    PROVE  UNCHANGED source /\ \E r : Grows(r)
<1>1. /\ Len(records) < MaxRecords /\ UNCHANGED source
      /\ \E to \in IF kd = "reply" THEN Packets!Answered ELSE {0} :
            records' = Append(records, [kind |-> kd, signal |-> sg, to |-> to])
  BY AskedAre DEF Packets!Write, Ends!Write
<1>2. PICK to \in IF kd = "reply" THEN Packets!Answered ELSE {0} :
          records' = Append(records, [kind |-> kd, signal |-> sg, to |-> to])
  BY <1>1
<1>3. /\ to \in 0..MaxRecords
      /\ to # 0 => /\ kd = "reply" /\ to \in Packets!Asked
                   /\ ~Branching => \A j \in Packets!Asked : j <= to
  BY <1>2, AnsweredAre, RecordBounds
<1>4. PICK r : r = [kind |-> kd, signal |-> sg, to |-> to]
  OBVIOUS
<1>5. r \in Packets!Record /\ r.kind = kd /\ r.to = to
  BY <1>3, <1>4 DEF Packets!Record
<1> QED
  BY <1>1, <1>2, <1>3, <1>4, <1>5 DEF Grows

(* Every record keeps what it answers.                                     *)
LEMMA AddedKeeps ==
    ASSUME TranscriptInv, NEW r, Grows(r), UNCHANGED source
    PROVE  /\ TranscriptInv' /\ Len(records') = Len(records) + 1
           /\ \A i \in 1..Len(records) : records'[i] = records[i]
<1>1. /\ records' \in Seq(Packets!Record) /\ Len(records) \in Nat
      /\ Len(records') = Len(records) + 1
      /\ DOMAIN records = 1..Len(records) /\ DOMAIN records' = 1..(Len(records) + 1)
      /\ \A i \in 1..Len(records) : records'[i] = records[i]
      /\ records'[Len(records) + 1] = r
  BY Appended DEF Grows, TranscriptInv, Packets!TypeOK
<1>2. Packets!TypeOK'
  <2>1. Len(records') <= MaxRecords
    BY <1>1, RecordBounds DEF Grows
  <2> QED
    BY <1>1, <2>1 DEF TranscriptInv, Packets!TypeOK
<1>t. \A i \in 1..Len(records) : Answers(i) /\ records[i] \in Packets!Record
  BY <1>1 DEF TranscriptInv, Packets!TypeOK
<1>3. ASSUME NEW i \in 1..Len(records) PROVE Answers(i)'
  <2>1. Answers(i) /\ records[i].to \in Int
    BY <1>t, <1>3, RecordBounds DEF Packets!Record
  <2>2. records'[i] = records[i] /\ \A j \in 1..i : records'[j] = records[j]
    BY <1>1, <1>3
  <2>3. CASE records[i].to = 0
    BY <2>2, <2>3 DEF Answers
  <2>4. CASE records[i].to # 0
    <3>1. records[i].to \in 1..(i - 1) /\ records'[records[i].to] = records[records[i].to]
      BY <2>1, <2>2, <2>4, <1>3, <1>1 DEF Answers
    <3>2. \A j \in (records[i].to + 1)..i : records'[j] = records[j]
      BY <2>2, <3>1
    <3> QED
      BY <2>1, <2>2, <2>4, <3>1, <3>2 DEF Answers
  <2> QED
    BY <2>3, <2>4
<1>4. ASSUME NEW n, n = Len(records) + 1 PROVE Answers(n)'
  <2>1. CASE r.to = 0
    BY <1>1, <1>4, <2>1 DEF Answers
  <2>2. CASE r.to # 0
    <3>1. /\ r.kind = "reply" /\ r.to \in Packets!Asked
          /\ ~Branching => \A j \in Packets!Asked : j <= r.to
      BY <2>2 DEF Grows
    <3>2. r.to \in 1..Len(records) /\ records[r.to].kind \in Packets!Prompts
      BY <3>1, <1>1 DEF Packets!Asked
    <3>3. ASSUME ~Branching, NEW j \in (r.to + 1)..n
          PROVE  records'[j].kind \notin Packets!Prompts
      <4>0. \A k \in Packets!Asked : k <= r.to
        BY <3>1, <3>3
      <4>1. CASE j = n
        BY <4>1, <3>1, <1>4, <1>1 DEF Packets!Prompts
      <4>2. CASE j # n
        <5>1. j \in 1..Len(records) /\ ~(j <= r.to) /\ records'[j] = records[j]
          BY <4>2, <3>2, <3>3, <1>4, <1>1
        <5>2. j \notin Packets!Asked
          BY <4>0, <5>1
        <5> QED
          BY <5>1, <5>2, <1>1 DEF Packets!Asked
      <4> QED
        BY <4>1, <4>2
    <3>4. records'[r.to] = records[r.to]
      BY <1>1, <3>2
    <3>5. n - 1 = Len(records) /\ records'[n] = r
      BY <1>1, <1>4
    <3> QED
      BY <1>1, <3>1, <3>2, <3>3, <3>4, <3>5 DEF Answers
  <2> QED
    BY <2>1, <2>2
<1> QED
  BY <1>1, <1>2, <1>3, <1>4 DEF TranscriptInv

(* No excerpt of a packet leaks what was off the record: from a private    *)
(* prompt to the next one nothing is kept.                                 *)
LEMMA PacketsAreClean == ASSUME TranscriptInv, ~Branching PROVE Packets!PacketIsClean
<1> SUFFICES ASSUME NEW m \in Packets!Packet
             PROVE  /\ records[m].kind # "private"
                    /\ records[m].to # 0 => records[records[m].to].kind # "private"
  BY DEF Packets!PacketIsClean
<1> DEFINE users == {i \in 1..m : records[i].kind \in Packets!Prompts}
<1>1. m \in DOMAIN records /\ ~Packets!Hidden(m)
  BY DEF Packets!Packet, Packets!Kept, Packets!Messages
<1>2. m \in Nat /\ m \in 1..Len(records) /\ Answers(m)
  BY <1>1 DEF TranscriptInv, Packets!TypeOK
<1>3. users = {} \/ records[Packets!Latest(users)].kind # "private"
  BY <1>1 DEF Packets!Hidden
<1>4. ASSUME NEW p \in users, \A j \in users : j <= p PROVE records[p].kind # "private"
  <2>1. users \in SUBSET (1..m) /\ users # {}
    BY <1>4
  <2>2. Packets!Latest(users) \in users /\ p <= Packets!Latest(users)
    BY <2>1, <1>2, LatestIn
  <2>3. Packets!Latest(users) = p
    BY <2>1, <2>2, <1>2, <1>4
  <2> QED
    BY <1>3, <1>4, <2>3
<1>5. records[m].kind # "private"
  <2> SUFFICES ASSUME records[m].kind = "private" PROVE FALSE
    OBVIOUS
  <2>1. m \in users /\ \A j \in users : j <= m
    BY <1>2 DEF Packets!Prompts
  <2> QED
    BY <1>4, <2>1
<1>6. ASSUME records[m].to # 0 PROVE records[records[m].to].kind # "private"
  <2>1. records[m].to \in users
    BY <1>2, <1>6 DEF Answers
  <2>2. \A j \in users : j <= records[m].to
    BY <1>2, <1>6 DEF Answers
  <2> QED
    BY <1>4, <2>1, <2>2
<1> QED
  BY <1>5, <1>6

(***************************************************************************)
(* The end of a session                                                    *)
(***************************************************************************)

(* Where a worker has sent nothing yet.                                    *)
Early == {"none", "started", "looked", "locked"}

(* A worker that is cleared, or was, has seen no private prompt.           *)
MinerInv(w) ==
    /\ w > ends => miner[w] = "none"
    /\ miner[w] \in Early => mined[w] = 0
    /\ miner[w] = "cleared" \/ mined[w] # 0 =>
           automine /\ \A i \in 1..read[w] : records[i].kind # "private"
EndInv ==
    /\ TranscriptInv /\ Ends!EndTypeOK /\ Ends!ArtifactHides
    /\ {read, mined} \subseteq [Ends!Miners -> Nat] /\ \A w \in Ends!Miners : MinerInv(w)

(* The transcript of both modules is one.                                  *)
LEMMA SameTranscript ==
    /\ Ends!Kinds = Packets!Kinds /\ Ends!Record = Packets!Record
    /\ Ends!TypeOK = Packets!TypeOK
BY DEF Ends!Kinds, Packets!Kinds, Ends!Prompts, Packets!Prompts, Ends!Record, Packets!Record,
       Ends!TypeOK, Packets!TypeOK

(* At first nothing is said.                                               *)
LEMMA EndStarts == Packets!Init /\ Ends!EndStart => EndInv
<1> SUFFICES ASSUME Packets!Init, Ends!EndStart PROVE EndInv
  OBVIOUS
<1>1. /\ records = <<>> /\ DOMAIN records = {} /\ Len(records) = 0
      /\ records \in Seq(Packets!Record)
  BY DEF Packets!Init
<1>2. TranscriptInv
  BY <1>1, RecordBounds DEF TranscriptInv, Packets!TypeOK, Packets!Init
<1>3. \A w \in Ends!Miners : miner[w] = "none" /\ read[w] = 0 /\ mined[w] = 0
  BY DEF Ends!EndStart
<1>4. Ends!EndTypeOK
  <2>1. miner \in [Ends!Miners -> {"none", "started", "looked", "locked", "cleared",
                                   "leaving", "done"}]
    BY DEF Ends!EndStart
  <2>2. Ends!TypeOK
    BY <1>2, SameTranscript DEF TranscriptInv
  <2>3. {open, automine, saved, old} \subseteq BOOLEAN /\ artifact = {}
        /\ mineLock = Unlocked /\ ends = 0
    BY DEF Ends!EndStart
  <2> QED
    BY <1>1, <1>3, <2>1, <2>2, <2>3, RecordBounds DEF Ends!EndTypeOK
<1>5. Ends!ArtifactHides
  BY DEF Ends!EndStart, Ends!ArtifactHides
<1>6. {read, mined} \subseteq [Ends!Miners -> Nat]
  BY DEF Ends!EndStart
<1> QED
  BY <1>2, <1>3, <1>4, <1>5, <1>6 DEF EndInv, MinerInv, Early

(* What a reply answers is as it was, whatever is said after the reply.    *)
LEMMA CopyStays ==
    ASSUME EndInv, UNCHANGED artifact, TranscriptInv',
           Len(records') >= Len(records),
           \A i \in 1..Len(records) : records'[i] = records[i]
    PROVE  Ends!ArtifactHides' /\ artifact' \subseteq DOMAIN records'
<1>1. /\ DOMAIN records = 1..Len(records) /\ DOMAIN records' = 1..Len(records')
      /\ Len(records) \in Nat /\ Len(records') \in Nat /\ artifact \subseteq 1..Len(records)
  BY DEF EndInv, TranscriptInv, Packets!TypeOK, Ends!EndTypeOK
<1>2. artifact' \subseteq DOMAIN records'
  BY <1>1
<1>3. ASSUME NEW i \in artifact
      PROVE  /\ records'[i].kind # "private"
             /\ Ends!ToPrivate(i)' =>
                    \E j \in (records'[i].to + 1)..(i - 1) : Ends!IsUser(j)'
  <2>1. i \in 1..Len(records) /\ Answers(i) /\ records'[i] = records[i]
    BY <1>1, <1>3 DEF EndInv, TranscriptInv
  <2>2. records[i].kind # "private"
    BY <1>3 DEF EndInv, Ends!ArtifactHides
  <2>3. ASSUME Ends!ToPrivate(i)'
        PROVE  \E j \in (records'[i].to + 1)..(i - 1) : Ends!IsUser(j)'
    <3>1. records[i].to # 0 /\ records[i].to \in 1..(i - 1)
      BY <2>1, <2>3 DEF Ends!ToPrivate, Answers
    <3>2. Ends!ToPrivate(i)
      BY <2>1, <2>3, <3>1 DEF Ends!ToPrivate
    <3>3. PICK j \in (records[i].to + 1)..(i - 1) : Ends!IsUser(j)
      BY <1>3, <3>2 DEF EndInv, Ends!ArtifactHides
    <3>4. records'[j] = records[j]
      BY <2>1, <3>1, <3>3
    <3> QED
      BY <2>1, <3>3, <3>4 DEF Ends!IsUser
  <2> QED
    BY <2>1, <2>2, <2>3
<1> QED
  BY <1>2, <1>3 DEF Ends!ArtifactHides

(* The copy shows a reply to a private prompt only behind an entry that    *)
(* counts as the user's.                                                   *)
LEMMA DocumentHides ==
    ASSUME EndInv, NEW i \in Ends!Document
    PROVE  /\ i \in DOMAIN records /\ records[i].kind # "private"
           /\ Ends!ToPrivate(i) => \E j \in (records[i].to + 1)..(i - 1) : Ends!IsUser(j)
<1>1. i \in DOMAIN records /\ records[i].kind # "private"
      /\ (Ends!IsUser(i) \/ ~Ends!Redacted(i))
  BY DEF Ends!Document, Ends!Exchanges
<1>2. i \in 1..Len(records) /\ i \in Nat /\ Answers(i)
  BY <1>1 DEF EndInv, TranscriptInv, Packets!TypeOK
<1>3. ASSUME Ends!ToPrivate(i), ~\E j \in (records[i].to + 1)..(i - 1) : Ends!IsUser(j)
      PROVE  FALSE
  <2> DEFINE users == {j \in 1..i : Ends!IsUser(j)}
  <2>1. /\ records[i].to \in 1..(i - 1) /\ records[i].kind = "reply"
        /\ records[records[i].to].kind = "private"
    BY <1>2, <1>3 DEF Ends!ToPrivate, Answers
  <2>2. ~Ends!IsUser(i) /\ records[i].to \in users
    BY <2>1, <1>2 DEF Ends!IsUser
  <2>3. \A j \in users : j <= records[i].to
    BY <1>2, <1>3, <2>1, <2>2
  <2>4. Ends!Latest(users) \in users /\ records[i].to <= Ends!Latest(users)
    BY <1>2, <2>2, LatestIn
  <2>5. Ends!Latest(users) = records[i].to
    BY <1>2, <2>1, <2>3, <2>4
  <2>6. Ends!Redacted(i)
    BY <2>1, <2>2, <2>5 DEF Ends!Redacted
  <2> QED
    BY <1>1, <2>2, <2>6
<1> QED
  BY <1>1, <1>3

(* A transcript that grows.                                                *)
LEMMA GrowthKeeps ==
    ASSUME EndInv, NEW r, Grows(r), UNCHANGED source,
           UNCHANGED <<open, ends, artifact, saved, automine, mineLock, old, miner, read,
                       mined>>
    PROVE  EndInv'
<1>1. /\ TranscriptInv' /\ Len(records') = Len(records) + 1 /\ Len(records) \in Nat
      /\ \A i \in 1..Len(records) : records'[i] = records[i]
  BY AddedKeeps DEF EndInv, TranscriptInv, Packets!TypeOK
<1>2. Ends!ArtifactHides' /\ artifact' \subseteq DOMAIN records'
  BY <1>1, CopyStays
<1>3. Ends!TypeOK'
  BY <1>1 DEF TranscriptInv, Ends!TypeOK, Packets!TypeOK, Ends!Record, Packets!Record,
              Ends!Kinds, Packets!Kinds, Ends!Prompts, Packets!Prompts
<1>4. \A w \in Ends!Miners : {read'[w], mined'[w]} \subseteq 0..Len(records')
  BY <1>1 DEF EndInv, Ends!EndTypeOK
<1>5. Ends!EndTypeOK'
  BY <1>2, <1>3, <1>4 DEF EndInv, Ends!EndTypeOK
<1>6. ASSUME NEW w \in Ends!Miners PROVE MinerInv(w)'
  <2>1. MinerInv(w) /\ read[w] \in 0..Len(records)
    BY DEF EndInv, Ends!EndTypeOK
  <2>2. \A i \in 1..read[w] : records'[i] = records[i]
    BY <1>1, <2>1
  <2> QED
    BY <2>1, <2>2 DEF MinerInv
<1> QED
  BY <1>1, <1>2, <1>5, <1>6 DEF EndInv

(* A session that goes on.                                                 *)
LEMMA ContinueKeeps == ASSUME EndInv, Ends!Continue PROVE EndInv'
<1>1. UNCHANGED <<open, ends, artifact, saved, automine, mineLock, old, miner, read, mined>>
  BY DEF Ends!Continue, Ends!endVars
<1>2. PICK kd \in Ends!Kinds \ {"beside"} : Ends!Write(kd, FALSE)
  BY DEF Ends!Continue
<1>3. PICK r : Grows(r) /\ UNCHANGED source
  BY <1>2, WriteAdds, SameTranscript DEF EndInv
<1> QED
  BY <1>1, <1>3, GrowthKeeps

(* A session that ends: a copy is saved, and a worker of its own starts.   *)
LEMMA EndKeeps == ASSUME EndInv, Ends!End PROVE EndInv'
<1>1. /\ UNCHANGED <<source, records, automine, mineLock, old, read, mined>>
      /\ open' = FALSE /\ ends < MaxEnds /\ ends' = ends + 1
      /\ miner' = [miner EXCEPT ![ends'] = "started"]
  BY DEF Ends!End, Ends!vars
<1>2. ends \in 0..MaxEnds /\ ends' \in Ends!Miners /\ TranscriptInv'
  BY <1>1, RecordBounds
     DEF EndInv, Ends!EndTypeOK, Ends!Miners, TranscriptInv, Packets!TypeOK, Answers
<1>3. Ends!ArtifactHides' /\ artifact' \subseteq DOMAIN records' /\ saved' \in BOOLEAN
  <2>1. CASE UNCHANGED <<artifact, saved>>
    <3>1. Ends!ArtifactHides' /\ artifact' \subseteq DOMAIN records'
      BY <1>1, <1>2, <2>1, CopyStays DEF EndInv, TranscriptInv, Packets!TypeOK
    <3> QED
      BY <2>1, <3>1 DEF EndInv, Ends!EndTypeOK
  <2>2. CASE artifact' = Ends!Document /\ saved' = TRUE
    <3>1. artifact' \subseteq DOMAIN records'
      BY <1>1, <2>2, DocumentHides
    <3>2. \A i \in artifact' :
              /\ records'[i].kind # "private"
              /\ Ends!ToPrivate(i)' =>
                     \E j \in (records'[i].to + 1)..(i - 1) : Ends!IsUser(j)'
      BY <1>1, <2>2, DocumentHides DEF Ends!ToPrivate, Ends!IsUser
    <3> QED
      BY <2>2, <3>1, <3>2 DEF Ends!ArtifactHides
  <2> QED
    BY <2>1, <2>2 DEF Ends!End, Ends!SaveArtifact
<1>4. Ends!EndTypeOK'
  <2>1. miner' \in [Ends!Miners -> {"none", "started", "looked", "locked", "cleared",
                                    "leaving", "done"}]
    BY <1>1, <1>2 DEF EndInv, Ends!EndTypeOK
  <2>2. ends' \in 0..MaxEnds
    BY <1>2, RecordBounds DEF Ends!Miners
  <2>3. Ends!TypeOK' /\ \A w \in Ends!Miners : {read'[w], mined'[w]} \subseteq 0..Len(records')
    BY <1>1 DEF EndInv, Ends!EndTypeOK, Ends!TypeOK, Ends!Record
  <2> QED
    BY <1>1, <1>3, <2>1, <2>2, <2>3 DEF EndInv, Ends!EndTypeOK
<1>5. ASSUME NEW w \in Ends!Miners PROVE MinerInv(w)'
  <2>1. MinerInv(w) /\ w \in Nat
    BY RecordBounds DEF EndInv, Ends!Miners
  <2>2. CASE w = ends'
    <3>1. miner[w] = "none" /\ miner'[w] = "started"
      BY <1>1, <1>2, <2>1, <2>2 DEF MinerInv, EndInv, Ends!EndTypeOK
    <3> QED
      BY <1>1, <1>2, <2>1, <2>2, <3>1 DEF MinerInv, Early
  <2>3. CASE w # ends'
    <3>1. miner'[w] = miner[w]
      BY <1>1, <2>3
    <3> QED
      BY <1>1, <1>2, <2>1, <2>3, <3>1 DEF MinerInv
  <2> QED
    BY <2>2, <2>3
<1> QED
  BY <1>1, <1>2, <1>3, <1>4, <1>5 DEF EndInv

(* What leaves the transcript, the copy and the workers as they are.       *)
LEMMA RestKeeps == ASSUME EndInv, Ends!Resume \/ Ends!Age PROVE EndInv'
<1>1. /\ UNCHANGED <<source, records, ends, artifact, saved, automine, mineLock, miner,
                     read, mined>>
      /\ open' \in BOOLEAN /\ old' \in BOOLEAN
  BY DEF Ends!Resume, Ends!Age, Ends!vars, EndInv, Ends!EndTypeOK
<1>2. TranscriptInv' /\ Ends!ArtifactHides'
  BY <1>1 DEF EndInv, TranscriptInv, Packets!TypeOK, Answers, Ends!ArtifactHides,
              Ends!ToPrivate, Ends!IsUser
<1>3. Ends!EndTypeOK' /\ \A w \in Ends!Miners : MinerInv(w)'
  BY <1>1 DEF EndInv, Ends!EndTypeOK, Ends!TypeOK, Ends!Record, MinerInv
<1> QED
  BY <1>1, <1>2, <1>3 DEF EndInv

(* What a worker does next.                                                *)
Works(w) ==
    \/ Ends!LookAtLock(w) \/ Ends!WriteLock(w) \/ Ends!Classify(w)
    \/ Ends!Mine(w) \/ Ends!Leave(w)

(* A worker sends only what it was cleared for.                            *)
LEMMA MinerKeeps == ASSUME EndInv, NEW w \in Ends!Miners, Works(w) PROVE EndInv'
<1>1. /\ UNCHANGED <<source, records, open, ends, artifact, saved, automine>>
      /\ mineLock' \in Ends!Miners \cup {Unlocked} /\ old' \in BOOLEAN
  BY DEF Works, Ends!LookAtLock, Ends!WriteLock, Ends!Classify, Ends!Mine, Ends!Leave,
         Ends!vars, EndInv, Ends!EndTypeOK
<1>2. TranscriptInv' /\ Ends!ArtifactHides'
  BY <1>1 DEF EndInv, TranscriptInv, Packets!TypeOK, Answers, Ends!ArtifactHides,
              Ends!ToPrivate, Ends!IsUser
<1>3. PICK goal \in {"looked", "locked", "cleared", "leaving", "done"} :
          Ends!MinerAt(w, miner[w], goal)
  BY DEF Works, Ends!LookAtLock, Ends!WriteLock, Ends!Classify, Ends!Mine, Ends!Leave,
         Ends!MinerAt
<1>4. miner' = [miner EXCEPT ![w] = goal] /\ Len(records) \in Nat
  BY <1>3 DEF Ends!MinerAt, EndInv, TranscriptInv, Packets!TypeOK
<1>5. /\ read' = read \/ read' = [read EXCEPT ![w] = Len(records)]
      /\ mined' = mined \/ mined' = [mined EXCEPT ![w] = Len(records)]
  BY Zenon DEF Works, Ends!LookAtLock, Ends!WriteLock, Ends!Classify, Ends!Mine, Ends!Leave
<1>6. /\ \A v \in Ends!Miners : {read'[v], mined'[v]} \subseteq 0..Len(records)
      /\ {read', mined'} \subseteq [Ends!Miners -> Nat]
  <2> DEFINE Places == [Ends!Miners -> 0..Len(records)]
  <2>1. read \in [Ends!Miners -> Nat] /\ mined \in [Ends!Miners -> Nat]
    BY Zenon DEF EndInv
  <2>2. \A v \in Ends!Miners : read[v] \in 0..Len(records) /\ mined[v] \in 0..Len(records)
    BY DEF EndInv, Ends!EndTypeOK
  <2>3. read \in Places /\ mined \in Places
    BY <2>1, <2>2
  <2>4. Len(records) \in 0..Len(records)
    BY <1>4
  <2>5. read' \in Places
    BY <1>5, <2>3, <2>4
  <2>6. mined' \in Places
    BY <1>5, <2>3, <2>4
  <2>7. Places \subseteq [Ends!Miners -> Nat]
    BY <1>4
  <2> HIDE DEF Places
  <2>8. {read', mined'} \subseteq [Ends!Miners -> Nat]
    BY <2>5, <2>6, <2>7
  <2> QED
    BY <2>5, <2>6, <2>8 DEF Places
<1>7. Ends!EndTypeOK'
  BY <1>1, <1>4, <1>6 DEF EndInv, Ends!EndTypeOK, Ends!TypeOK, Ends!Record
<1>8. ASSUME NEW v \in Ends!Miners, v # w PROVE MinerInv(v)'
  <2>1. MinerInv(v) /\ miner'[v] = miner[v] /\ read'[v] = read[v] /\ mined'[v] = mined[v]
    BY <1>4, <1>5, <1>8 DEF EndInv, Ends!EndTypeOK
  <2> QED
    BY <1>1, <2>1 DEF MinerInv
<1>9. MinerInv(w)'
  <2>t. MinerInv(w) /\ miner'[w] = goal
    BY <1>4 DEF EndInv, Ends!EndTypeOK
  <2>1. CASE Ends!LookAtLock(w) \/ Ends!WriteLock(w)
    <3>1. UNCHANGED <<read, mined>> /\ miner[w] \in {"started", "looked"}
      BY <2>1 DEF Ends!LookAtLock, Ends!WriteLock, Ends!MinerAt
    <3>2. goal # "cleared"
      BY <2>1, <2>t, <1>4
         DEF Ends!LookAtLock, Ends!WriteLock, Ends!MinerAt, EndInv, Ends!EndTypeOK
    <3> QED
      BY <1>1, <2>t, <3>1, <3>2 DEF MinerInv, Early
  <2>2. CASE Ends!Classify(w)
    <3>1. /\ miner[w] = "locked" /\ UNCHANGED mined
          /\ miner'[w] = "cleared" => automine /\ ~Ends!HasPrivate
          /\ read'[w] = Len(records)
      BY <2>2, <1>4 DEF Ends!Classify, Ends!MinerAt, EndInv, Ends!EndTypeOK
    <3>2. mined[w] = 0 /\ miner[w] # "none"
      BY <2>t, <3>1 DEF MinerInv, Early
    <3>3. miner'[w] = "cleared" => \A i \in 1..Len(records) : records[i].kind # "private"
      BY <3>1 DEF Ends!HasPrivate, EndInv, TranscriptInv, Packets!TypeOK
    <3> QED
      BY <1>1, <2>t, <3>1, <3>2, <3>3 DEF MinerInv
  <2>3. CASE Ends!Mine(w) \/ Ends!Leave(w)
    <3>1. /\ UNCHANGED read /\ miner[w] \in {"cleared", "leaving"}
          /\ goal \in {"leaving", "done"} /\ (miner[w] # "cleared" => UNCHANGED mined)
      BY <2>3, <2>t, <1>4 DEF Ends!Mine, Ends!Leave, Ends!MinerAt, EndInv, Ends!EndTypeOK
    <3> QED
      BY <1>1, <2>t, <3>1 DEF MinerInv, Early
  <2> QED
    BY <2>1, <2>2, <2>3 DEF Works
<1> QED
  BY <1>2, <1>6, <1>7, <1>8, <1>9 DEF EndInv

(* The packets, the copy and what the workers send are as they should be.  *)
LEMMA EndIsGood == EndInv /\ ~Branching => OffRecordStaysOut
<1> SUFFICES ASSUME EndInv, ~Branching PROVE OffRecordStaysOut
  OBVIOUS
<1>1. Packets!PacketIsClean
  BY PacketsAreClean DEF EndInv
<1>2. ASSUME NEW w \in Ends!Miners
      PROVE  /\ mined[w] # 0 => automine
             /\ \A i \in 1..mined[w] : records[i].kind = "private" => i > read[w]
  <2>1. /\ mined[w] # 0 => automine /\ \A i \in 1..read[w] : records[i].kind # "private"
        /\ read[w] \in Nat /\ mined[w] \in Nat
    BY DEF EndInv, MinerInv, Ends!EndTypeOK, TranscriptInv, Packets!TypeOK
  <2> QED
    BY <2>1
<1> QED
  BY <1>1, <1>2 DEF OffRecordStaysOut, Ends!OffRecordStaysOut, Ends!MiningIsConsented, EndInv

(***************************************************************************)
(* The run                                                                 *)
(***************************************************************************)
(* A step of the run is a step of each component, or leaves it as it was.   *)
LEMMA EachMoves ==
    ASSUME [EdgeNext]_edgeVars
    PROVE  /\ [Ledger!Next]_(Ledger!vars) /\ [Gateway!Next]_(Gateway!vars)
           /\ [Writes!Next]_(Writes!vars) /\ [Assets!Next]_(Assets!comfyVars)
<1> USE DEF ledgerVars, gatewayVars, writeVars, assetVars, edgeVars, Assets!comfyVars,
            Ledger!vars, Ledger!server, Ledger!ghosts,
            Gateway!vars, Gateway!files, Gateway!memory, Gateway!ghosts, Writes!vars
<1>1. CASE LedgerStep(Ledger!Next)
  BY <1>1 DEF LedgerStep
<1>2. CASE GatewayStep(Gateway!Next)
  BY <1>2 DEF GatewayStep
<1>3. CASE WriteStep(Writes!Next)
  BY <1>3 DEF WriteStep
<1>4. CASE \/ QueueStep(Next) \/ PacketStep(Packets!Next) \/ SessionStep(Ends!EndNext)
           \/ TriggerStep(Trigger!Next) \/ UNCHANGED edgeVars
  BY <1>4 DEF QueueStep, PacketStep, SessionStep, TriggerStep
<1>5. CASE AssetStep(Assets!Next)
  BY <1>5 DEF AssetStep
<1> QED
  BY <1>1, <1>2, <1>3, <1>4, <1>5 DEF EdgeNext

(* A step of the run is a step of the trigger, or leaves it as it was.     *)
LEMMA TriggerMoves ==
    ASSUME [EdgeNext]_edgeVars
    PROVE  [Trigger!Next]_(Trigger!vars)
<1> USE DEF triggerVars, edgeVars, Trigger!vars, Trigger!setting, Trigger!progress
<1>1. CASE TriggerStep(Trigger!Next)
  BY <1>1 DEF TriggerStep
<1>2. CASE \/ QueueStep(Next) \/ PacketStep(Packets!Next) \/ SessionStep(Ends!EndNext)
           \/ LedgerStep(Ledger!Next) \/ GatewayStep(Gateway!Next)
           \/ WriteStep(Writes!Next) \/ AssetStep(Assets!Next) \/ UNCHANGED edgeVars
  BY <1>2 DEF QueueStep, PacketStep, SessionStep, LedgerStep, GatewayStep, WriteStep, AssetStep
<1> QED
  BY <1>1, <1>2 DEF EdgeNext

(* A step of the run is a record of a backfill's transcript, a step of a   *)
(* session and its hooks, or leaves both as they were.                     *)
LEMMA TranscriptMoves ==
    ASSUME [EdgeNext]_edgeVars
    PROVE  \/ Packets!Next /\ UNCHANGED endVars
           \/ Ends!EndNext
           \/ UNCHANGED <<packetVars, endVars>>
<1>1. CASE PacketStep(Packets!Next) \/ SessionStep(Ends!EndNext)
  BY <1>1 DEF PacketStep, SessionStep
<1>2. CASE \/ QueueStep(Next) \/ LedgerStep(Ledger!Next) \/ GatewayStep(Gateway!Next)
           \/ TriggerStep(Trigger!Next) \/ WriteStep(Writes!Next) \/ AssetStep(Assets!Next)
           \/ UNCHANGED edgeVars
  BY <1>2 DEF QueueStep, LedgerStep, GatewayStep, TriggerStep, WriteStep, AssetStep, edgeVars
<1> QED
  BY <1>1, <1>2 DEF EdgeNext

(* Whatever moves, the transcript and the end of the session keep their    *)
(* invariant.                                                              *)
LEMMA EndKept == ASSUME EndInv, [EdgeNext]_edgeVars PROVE EndInv'
<1>1. CASE Ends!EndNext
  BY <1>1, ContinueKeeps, EndKeeps, RestKeeps, MinerKeeps DEF Ends!EndNext, Works
<1>2. CASE Packets!Next /\ UNCHANGED endVars
  <2>1. PICK r : Grows(r) /\ UNCHANGED source
    BY <1>2, WriteAdds DEF Packets!Next, EndInv
  <2> QED
    BY <1>2, <2>1, GrowthKeeps DEF endVars
<1>3. CASE UNCHANGED <<packetVars, endVars>>
  BY <1>3 DEF packetVars, endVars, EndInv, TranscriptInv, Packets!TypeOK, Answers,
              Ends!EndTypeOK, Ends!TypeOK, Ends!Record, Ends!ArtifactHides, Ends!ToPrivate,
              Ends!IsUser, MinerInv
<1> QED
  BY <1>1, <1>2, <1>3, TranscriptMoves

(* Over any number of runs of the ingest runner, wherever they are stopped, *)
(* the staging file and the server agree: what is marked is stored, it is   *)
(* stored once, or once more for each stop where calls carry no prefix, no  *)
(* credential is sent, the oldest session ends on top, and a Codex file     *)
(* keeps one scope (ingest_runner.py; backfill_inventory.py;                *)
(* backfill_codex.py).                                                      *)
THEOREM LedgerAlwaysTrue == EdgeSpec => []LedgerIsTrue
<1>1. EdgeInit => LedgerInv
  BY LedgerStarts DEF EdgeInit
<1>2. LedgerInv /\ [EdgeNext]_edgeVars => LedgerInv'
  BY EachMoves, LedgerKept
<1>3. LedgerInv => LedgerIsTrue
  BY LedgerIsGood DEF LedgerIsTrue
<1> QED
  BY <1>1, <1>2, <1>3, PTL DEF EdgeSpec

(* With any number of clients, PINs and crashes, a client is approved if    *)
(* and only if a PIN was spent on it, and a PIN approves one client, except *)
(* where a crash cut the approval short or tore the file                    *)
(* (kumiho_gpt_gateway.py, oauth.py).                                       *)
THEOREM ConsentAlwaysExact == EdgeSpec => []ConsentIsExact
<1>1. EdgeInit => ConsentInv
  BY ConsentInit DEF EdgeInit
<1>2. ConsentInv /\ [EdgeNext]_edgeVars => ConsentInv'
  BY EachMoves, ConsentKept
<1>3. ConsentInv => ConsentIsExact
  BY ConsentIsGood DEF ConsentIsExact
<1> QED
  BY <1>1, <1>2, <1>3, PTL DEF EdgeSpec

(* No code and no refresh token is honoured again once it was redeemed,     *)
(* whatever was pruned, dropped or lost in between (oauth.py).              *)
THEOREM GrantsAreUsedOnce == EdgeSpec => []GrantUsedOnce
<1>1. EdgeInit => GrantInv
  BY GrantInit DEF EdgeInit
<1>2. GrantInv /\ [EdgeNext]_edgeVars => GrantInv'
  BY EachMoves, GrantKept
<1>3. GrantInv => GrantUsedOnce
  BY DEF GrantInv, GrantUsedOnce, Gateway!GrantUsedOnce
<1> QED
  BY <1>1, <1>2, <1>3, PTL DEF EdgeSpec

(* However often a write of the n8n nodes is sent, and whatever becomes of  *)
(* the answers, it is done at most once, and the node reports success only  *)
(* for what is there (KumihoApi.ts and the operations of the node).         *)
THEOREM WritesAreOnce == EdgeSpec => []WriteIsOnce
<1>1. EdgeInit => WriteInv
  BY WriteInit DEF EdgeInit
<1>2. WriteInv /\ [EdgeNext]_edgeVars => WriteInv'
  BY EachMoves, WriteKept
<1>3. WriteInv => WriteIsOnce
  BY WriteIsGood DEF WriteIsOnce
<1> QED
  BY <1>1, <1>2, <1>3, PTL DEF EdgeSpec

(* Whatever fails, stops or is published while several ComfyUI processes    *)
(* save, a registration that reports success has all its files and the      *)
(* workflow's metadata, its edges lead to what the workflow loads, and its  *)
(* kref loads a file of its own (nodes.py).                                 *)
THEOREM AssetsAlwaysTrue == EdgeSpec => []AssetsAreTrue
<1>1. EdgeInit => AssetInv
  BY AssetInit DEF EdgeInit
<1>2. AssetInv /\ [EdgeNext]_edgeVars => AssetInv'
  BY EachMoves, AssetMoves
<1>3. AssetInv => AssetsAreTrue
  BY AssetsFollow DEF AssetsAreTrue
<1> QED
  BY <1>1, <1>2, <1>3, PTL DEF EdgeSpec

(* Whatever is published, however often the stream breaks, the node is      *)
(* closed or n8n is killed, an activation emits what passes the filter      *)
(* after the cursor it began with, in order and without a gap, and the      *)
(* cursor that is kept is not ahead of what was ever emitted                *)
(* (KumihoEventStreamTrigger.node.ts).                                      *)
THEOREM StreamAlwaysExact == EdgeSpec => []StreamIsExact
<1>1. EdgeInit => StreamInv
  BY StreamInit DEF EdgeInit
<1>2. StreamInv /\ [EdgeNext]_edgeVars => StreamInv'
  BY TriggerMoves, StreamKept
<1>3. StreamInv => StreamIsExact
  BY StreamIsGood DEF StreamIsExact
<1> QED
  BY <1>1, <1>2, <1>3, PTL DEF EdgeSpec

(* Of a transcript without branches, nothing that the user kept off the    *)
(* record is in a packet of a backfill, in the saved copy of a session     *)
(* (but for the reply behind an entry of the harness) or in what a worker  *)
(* mines of what it had classified, however often the session ends, is     *)
(* resumed and its workers overlap (backfill_inventory.py,                 *)
(* save-session-artifact.py, session_mine_worker.py).                      *)
THEOREM OffRecordAlwaysStaysOut == ASSUME ~Branching PROVE EdgeSpec => []OffRecordStaysOut
<1>1. EdgeInit => EndInv
  BY EndStarts DEF EdgeInit
<1>2. EndInv /\ [EdgeNext]_edgeVars => EndInv'
  BY EndKept
<1>3. EndInv => OffRecordStaysOut
  BY EndIsGood
<1> QED
  BY <1>1, <1>2, <1>3, PTL DEF EdgeSpec
=============================================================================
