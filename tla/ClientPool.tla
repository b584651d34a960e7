----------------------------- MODULE ClientPool -----------------------------
(***************************************************************************)
(* The pooled, leased gRPC clients of the hosted MCP server (ClientPool in *)
(* cloud-mcp/kumiho_cloud_mcp/clients.py, KeyedGate in singleflight.py).   *)
(*                                                                         *)
(* Requests are tasks of one asyncio loop: what stands between two awaits  *)
(* is one step.  A deadline may cancel a request at any await that is not  *)
(* shielded.  The pool's own lock is never held across an await, so it is  *)
(* only one more place to yield; the gate of a key is held while a client  *)
(* is looked up, built and inserted.                                       *)
(*                                                                         *)
(* Clients are numbered in the order they are built, which stands for the  *)
(* unbounded supply of new ones.                                           *)
(***************************************************************************)
EXTENDS Naturals, Sequences, FiniteSets

CONSTANTS
    Request,     \* request tasks, each slot reused when its request ended
    Lifespan,    \* the task that runs the server's shutdown
    Principal,   \* authenticated callers, one for each credential
    TokenId,     \* the token id of each, which an issuer may repeat or omit
    Token,       \* the credential of each, of which the pool keeps a hash
    MaxClient,   \* bound: how many clients are built
    Cap,         \* client_cache_max
    None         \* no client, no principal

Client == 1..MaxClient
Task == Request \cup {Lifespan}

ASSUME TasksOK == IsFiniteSet(Request) /\ Lifespan \notin Request
ASSUME SizesOK == MaxClient \in Nat /\ Cap \in Nat
ASSUME NoneIsNone == None \notin Client /\ None \notin Principal

VARIABLES
    pc,        \* where each task is
    who,       \* the principal of each request
    mine,      \* the client each request has leased or is about to pool
    due,       \* the clients each task has yet to close
    pool,      \* the entries of the map
    pos,       \* their order: a greater position was used more recently
    expired,   \* the entries whose time has come
    owner,     \* the principal each client was built for
    leases,    \* the lease count of each client
    retired,   \* the clients taken out of the map
    life,      \* "none", "open" or "closed"
    gates,     \* for each key the queue of its lock, holder first, and the
               \* number of requests that refer to the gate
    down       \* has the shutdown begun

tvars == <<pc, who, mine, due>>
cvars == <<owner, leases, retired, life>>
vars == <<tvars, pool, pos, expired, cvars, gates, down>>

(* mutant: rotated credentials with one token id share a key                *)
KeyByTokenId(p) == <<TokenId[p]>>

(* _key.  The hash of the credential stands for it; tenant and user come     *)
(* with the credential.                                                     *)
Key(p) == <<TokenId[p], Token[p]>>
Keys == {Key(p) : p \in Principal}

NoGate == [queue |-> <<>>, count |-> 0]

PC == {"idle", "gate", "retire", "build", "insert", "evict", "leave", "serve", "close"}

Users(c) == {r \in Request : mine[r] = c}

TypeOK ==
    /\ pc \in [Task -> PC]
    /\ who \in [Request -> Principal \cup {None}]
    /\ mine \in [Request -> Client \cup {None}]
    /\ due \in [Task -> SUBSET Client]
    /\ pool \subseteq Client
    /\ pos \in [Client -> Client]
    /\ expired \subseteq Client
    /\ owner \in [Client -> Principal \cup {None}]
    /\ leases \in [Client -> Nat]
    /\ retired \subseteq Client
    /\ life \in [Client -> {"none", "open", "closed"}]
    /\ down \in BOOLEAN

Init ==
    /\ pc = [t \in Task |-> "idle"]
    /\ who = [r \in Request |-> None]
    /\ mine = [r \in Request |-> None]
    /\ due = [t \in Task |-> {}]
    /\ pool = {}
    /\ pos = [c \in Client |-> c]
    /\ expired = {}
    /\ owner = [c \in Client |-> None]
    /\ leases = [c \in Client |-> 0]
    /\ retired = {}
    /\ life = [c \in Client |-> "none"]
    /\ gates = [k \in Keys |-> NoGate]
    /\ down = FALSE

Become(t, s) == pc' = [pc EXCEPT ![t] = s]

----------------------------------------------------------------------------
(* KeyedGate.hold                                                           *)

Gate(r) == gates[Key(who[r])]
Holds(r) == Gate(r).queue # <<>> /\ Head(Gate(r).queue) = r
AtGate(r) == pc[r] \in {"gate", "retire", "build", "insert", "evict", "leave"}

(* A request has been authenticated and asks for a client.                  *)
EnterGate(r, p) ==
    /\ pc[r] = "idle"
    /\ ~down
    /\ who' = [who EXCEPT ![r] = p]
    /\ gates' = [gates EXCEPT ![Key(p)] =
                    [queue |-> Append(@.queue, r), count |-> @.count + 1]]
    /\ Become(r, "gate")
    /\ UNCHANGED <<mine, due, pool, pos, expired, cvars, down>>

(* The lock goes to the next in its queue.                                  *)
Unlock(r) ==
    gates' = [gates EXCEPT ![Key(who[r])].queue = SelectSeq(@, LAMBDA q : q # r)]

(* With a lease the request is served, without one it has ended.            *)
GoOn(r) ==
    /\ Become(r, IF mine[r] = None THEN "idle" ELSE "serve")
    /\ who' = [who EXCEPT ![r] = IF mine[r] = None THEN None ELSE @]

(* The reference is given up, shielded from the deadline; the last one      *)
(* drops the gate.                                                          *)
LeaveGate(r) ==
    /\ pc[r] = "leave"
    /\ gates' = [gates EXCEPT ![Key(who[r])] =
                    IF @.count = 1 THEN NoGate ELSE [@ EXCEPT !.count = @ - 1]]
    /\ GoOn(r)
    /\ UNCHANGED <<mine, due, pool, pos, expired, cvars, down>>

----------------------------------------------------------------------------
(* ClientPool._acquire                                                      *)

(* OrderedDict.move_to_end, as positions.                                   *)
MoveToEnd(c) ==
    pos' = [d \in Client |-> IF d = c THEN MaxClient
                             ELSE IF pos[d] > pos[c] THEN pos[d] - 1 ELSE pos[d]]

(* _retire_locked: what stays of the entries s in the order `at`.           *)
Kept(s, at) ==
    LET fresh == s \ expired
    IN  {c \in fresh : Cardinality({d \in fresh : at[d] > at[c]}) < Cap}

Pooled(k) == {c \in pool : Key(owner[c]) = k}

(* Out of the map; those without a lease are the caller's to close.         *)
Retire(t, gone) ==
    /\ retired' = retired \cup gone
    /\ due' = [due EXCEPT ![t] = {c \in gone : leases[c] = 0}]

Hit(r) ==
    /\ pc[r] = "gate"
    /\ Holds(r)
    /\ \E c \in Pooled(Key(who[r])) \ expired :
          /\ leases' = [leases EXCEPT ![c] = @ + 1]
          /\ mine' = [mine EXCEPT ![r] = c]
          /\ MoveToEnd(c)
    /\ Unlock(r)
    /\ Become(r, "leave")
    /\ UNCHANGED <<who, due, pool, expired, owner, retired, life, down>>

(* mutant: what is retired is closed, leased or not                         *)
MissClosesLeased(r) ==
    LET gone == pool \ Kept(pool, pos) IN
    /\ pc[r] = "gate"
    /\ Holds(r)
    /\ Pooled(Key(who[r])) \subseteq expired
    /\ pool' = pool \ gone
    /\ retired' = retired \cup gone
    /\ due' = [due EXCEPT ![r] = gone]
    /\ Become(r, IF gone = {} THEN "build" ELSE "retire")
    /\ UNCHANGED <<who, mine, pos, expired, owner, leases, life, gates, down>>

Miss(r) ==
    LET gone == pool \ Kept(pool, pos) IN
    /\ pc[r] = "gate"
    /\ Holds(r)
    /\ Pooled(Key(who[r])) \subseteq expired
    /\ pool' = pool \ gone
    /\ Retire(r, gone)
    /\ Become(r, IF due'[r] = {} THEN "build" ELSE "retire")
    /\ UNCHANGED <<who, mine, pos, expired, owner, leases, life, gates, down>>

(* _build: a new client in its thread, from where it reaches the request    *)
(* even when the deadline passes meanwhile.                                 *)
Construct(r, c) ==
    /\ pc[r] = "build"
    /\ life[c] = "none"
    /\ \A d \in Client : d < c => life[d] # "none"
    /\ life' = [life EXCEPT ![c] = "open"]
    /\ owner' = [owner EXCEPT ![c] = who[r]]
    /\ leases' = [leases EXCEPT ![c] = 1]
    /\ mine' = [mine EXCEPT ![r] = c]
    /\ Become(r, "insert")
    /\ UNCHANGED <<who, due, pool, pos, expired, retired, gates, down>>

(* Into the map, in the place of an entry with its key if there is one.     *)
Insert(r) ==
    LET c == mine[r]
        old == Pooled(Key(who[r]))
        all == (pool \ old) \cup {c}
    IN
    /\ pc[r] = "insert"
    /\ MoveToEnd(c)
    /\ pool' = Kept(all, pos')
    /\ Retire(r, (all \ pool') \cup old)
    /\ IF due'[r] = {}
       THEN Become(r, "leave") /\ Unlock(r)
       ELSE Become(r, "evict") /\ UNCHANGED gates
    /\ UNCHANGED <<who, mine, expired, owner, leases, life, down>>

(* mutant: the insertion is not shielded from the deadline                  *)
GiveUpUnshielded(r) ==
    /\ pc[r] \in {"gate", "build", "insert"}
    /\ mine' = [mine EXCEPT ![r] = None]
    /\ Unlock(r)
    /\ Become(r, "leave")
    /\ UNCHANGED <<who, due, pool, pos, expired, cvars, down>>

(* The deadline, or a routing or contract error of _build.                  *)
GiveUp(r) ==
    /\ pc[r] \in {"gate", "build"}
    /\ Unlock(r)
    /\ Become(r, "leave")
    /\ UNCHANGED <<who, mine, due, pool, pos, expired, cvars, down>>

(* _close_all, one channel after the other, shielded.  What else a closed   *)
(* client carried is of no more interest.                                   *)
Close(t, c) ==
    /\ c \in due[t]
    /\ life' = [life EXCEPT ![c] = "closed"]
    /\ due' = [due EXCEPT ![t] = @ \ {c}]
    /\ IF due[t] # {c}
       THEN UNCHANGED <<pc, gates>>
       ELSE CASE pc[t] = "retire" -> Become(t, "build") /\ UNCHANGED gates
              [] pc[t] = "evict" -> Become(t, "leave") /\ Unlock(t)
              [] OTHER -> Become(t, "idle") /\ UNCHANGED gates
    /\ owner' = [owner EXCEPT ![c] = None]
    /\ retired' = retired \ {c}
    /\ UNCHANGED <<who, mine, pool, pos, expired, leases, down>>

----------------------------------------------------------------------------
(* The end of a request, of an entry's time, and of the server              *)

(* mutant: only the pool closes, never the last borrower                    *)
ReleaseWithoutClose(r) ==
    /\ pc[r] = "serve"
    /\ leases' = [leases EXCEPT ![mine[r]] = @ - 1]
    /\ mine' = [mine EXCEPT ![r] = None]
    /\ who' = [who EXCEPT ![r] = None]
    /\ Become(r, "idle")
    /\ UNCHANGED <<due, pool, pos, expired, owner, retired, life, gates, down>>

(* mutant: a second release of one lease counts again                       *)
ReleaseTwice(r) ==
    /\ pc[r] = "serve"
    /\ leases' = [leases EXCEPT ![mine[r]] = @ - 2]
    /\ mine' = [mine EXCEPT ![r] = None]
    /\ who' = [who EXCEPT ![r] = None]
    /\ Become(r, "idle")
    /\ UNCHANGED <<due, pool, pos, expired, owner, retired, life, gates, down>>

(* ClientLease.release, whether the request was answered or cancelled.      *)
Release(r) ==
    LET c == mine[r] IN
    /\ pc[r] = "serve"
    /\ leases' = [leases EXCEPT ![c] = @ - 1]
    /\ mine' = [mine EXCEPT ![r] = None]
    /\ who' = [who EXCEPT ![r] = None]
    /\ IF c \in retired /\ leases[c] = 1
       THEN due' = [due EXCEPT ![r] = {c}] /\ Become(r, "close")
       ELSE due' = due /\ Become(r, "idle")
    /\ UNCHANGED <<pool, pos, expired, owner, retired, life, gates, down>>

Expire(c) ==
    /\ c \in pool \ expired
    /\ expired' = expired \cup {c}
    /\ UNCHANGED <<tvars, pool, pos, cvars, gates, down>>

(* The server shuts down when its requests are done (uvicorn drains them).  *)
Aclose ==
    /\ ~down
    /\ \A r \in Request : pc[r] = "idle"
    /\ down' = TRUE
    /\ pool' = {}
    /\ retired' = retired \cup pool
    /\ due' = [due EXCEPT ![Lifespan] = pool]
    /\ Become(Lifespan, IF due'[Lifespan] = {} THEN "idle" ELSE "close")
    /\ UNCHANGED <<who, mine, pos, expired, owner, leases, life, gates>>

(* The steps of a request that wait for nothing but their turn.             *)
Progress(r) ==
    \/ Hit(r) \/ Miss(r) \/ Insert(r) \/ LeaveGate(r)
    \/ \E c \in Client : Construct(r, c)
    \/ pc[r] = "build" /\ GiveUp(r)
    \/ \E c \in Client : Close(r, c)

Next ==
    \/ \E r \in Request :
          \/ \E p \in Principal : EnterGate(r, p)
          \/ Progress(r)
          \/ GiveUp(r)
          \/ Release(r)
    \/ \E c \in Client : Close(Lifespan, c) \/ Expire(c)
    \/ Aclose

Spec == Init /\ [][Next]_vars

(* The loop runs every ready task; discovery and the SDK's constructor end  *)
(* (http_timeout_seconds), and so does closing a channel.                   *)
Fairness == \A r \in Request : WF_vars(Progress(r))

FairSpec == Spec /\ Fairness

----------------------------------------------------------------------------
(* Properties                                                               *)

(* "Eviction never closes a channel somebody is still using", nor twice: a   *)
(* channel is opened once, shared while it is open, and closed once nobody  *)
(* uses it (ClientPool, _PooledClient.retired).                             *)
Lease == INSTANCE ChannelLease WITH user <- mine

LeasesAreKept == Lease!Spec

(* "every client leaves it through _close": an open client is in the map,   *)
(* in use, or in the hands of a task about to close it.                     *)
NothingLeaks ==
    \A c \in Client :
        life[c] = "open" =>
            c \in pool \/ Users(c) # {} \/ \E t \in Task : c \in due[t]

(* The count that decides when a retired channel is closed is the number of *)
(* its borrowers (_PooledClient.leases).                                    *)
LeasesAreCounted == \A c \in Client : leases[c] = Cardinality(Users(c))

(* "Rotated credentials never reuse the channel built for the previous      *)
(* token, even when the issuer omits or repeats a token id."                *)
OwnCredential ==
    \A r \in Request : mine[r] # None => Token[owner[mine[r]]] = Token[who[r]]

(* "idle gates retain no credentials" (KeyedGate): a gate is known as long   *)
(* as a request refers to it, and all of those refer to the same one.       *)
GatesAreForgotten ==
    \A k \in Keys :
        gates[k].count = Cardinality({r \in Request : AtGate(r) /\ Key(who[r]) = k})

(* A request at a gate gets past it, whatever became of those before it     *)
(* ("Cancellation-safe per-key gates").                                     *)
GatesOpen ==
    \A r \in Request : pc[r] = "gate" ~> pc[r] # "gate"

=============================================================================
