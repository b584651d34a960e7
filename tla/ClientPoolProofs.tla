-------------------------- MODULE ClientPoolProofs --------------------------
(***************************************************************************)
(* What the client pool guarantees for any number of requests, callers and *)
(* clients and for every size of the LRU: no channel is closed under a     *)
(* borrower or twice, none is forgotten while it is open, and none serves  *)
(* another credential than the one it was built for.  And what the way of  *)
(* a request to the pool guarantees for any number of requests and any     *)
(* times: what has ceased to hold is not trusted for longer than promised. *)
(***************************************************************************)
EXTENDS MCCloud, FiniteSetTheorems, TLAPS

(* Where a request has a client, and where it has none.                     *)
RequestOK ==
    \A r \in Request :
        /\ pc[r] \in {"idle", "gate", "retire", "build", "close"} => mine[r] = None
        /\ pc[r] \in {"insert", "serve"} => mine[r] \in Client

(* Clients wait to be closed only where they are closed next.               *)
DueStages ==
    \A t \in Task : due[t] # {} => pc[t] \in {"retire", "evict", "close"}

(* What a task is about to close is open, used by nobody, out of the map,   *)
(* and closed by that task alone.                                           *)
DueOK ==
    \A t \in Task : \A c \in due[t] :
        /\ life[c] = "open"
        /\ leases[c] = 0
        /\ c \notin pool
        /\ \A u \in Task : c \in due[u] => u = t

(* The map leads to open clients that nobody has retired.                   *)
PoolOpen == \A c \in pool : life[c] = "open" /\ c \notin retired

(* What has been retired is yet to be closed.                               *)
RetiredOpen == \A c \in retired : life[c] = "open"

(* The shutdown has nothing to close before it begins.                      *)
LifespanOK == ~down => pc[Lifespan] = "idle"

(* Who has a client has an open one, built for the key of that request.     *)
MineOpen ==
    \A r \in Request :
        mine[r] # None =>
            /\ life[mine[r]] = "open"
            /\ Key(owner[mine[r]]) = Key(who[r])

(* A client on its way into the map is the builder's alone.                 *)
InsertOK ==
    \A r \in Request :
        pc[r] = "insert" =>
            /\ mine[r] \notin pool \cup retired
            /\ \A q \in Request : mine[q] = mine[r] => q = r

(* An open client is in the map, on its way there, or retired, and then in   *)
(* use or about to be closed.                                               *)
Accounted ==
    \A c \in Client :
        life[c] = "open" =>
            \/ c \in pool
            \/ \E r \in Request : pc[r] = "insert" /\ mine[r] = c
            \/ /\ c \in retired
               /\ Users(c) # {} \/ \E t \in Task : c \in due[t]

IInv ==
    /\ TypeOK /\ RequestOK /\ DueStages /\ DueOK /\ PoolOpen /\ RetiredOpen
    /\ LifespanOK /\ MineOpen /\ InsertOK /\ Accounted /\ LeasesAreCounted

----------------------------------------------------------------------------
(* Nobody uses a client exactly when its lease count is zero.               *)
LEMMA UsersCounted ==
    ASSUME TypeOK, LeasesAreCounted, NEW c \in Client
    PROVE  /\ IsFiniteSet(Users(c))
           /\ leases[c] = Cardinality(Users(c))
           /\ leases[c] = 0 <=> \A r \in Request : mine[r] # c
<1>1. IsFiniteSet(Users(c))
  BY TasksOK, FS_Subset DEF Users
<1>2. leases[c] = Cardinality(Users(c))
  BY DEF LeasesAreCounted
<1>3. Cardinality(Users(c)) = 0 <=> Users(c) = {}
  BY <1>1, FS_EmptySet
<1> QED
  BY <1>1, <1>2, <1>3 DEF Users

(* A request that takes a client is one more user of it.                    *)
LEMMA Taken ==
    ASSUME TypeOK, NEW r \in Request, mine[r] = None, NEW c \in Client,
           mine' = [mine EXCEPT ![r] = c], LeasesAreCounted
    PROVE  /\ Cardinality(Users(c)') = leases[c] + 1
           /\ \A d \in Client \ {c} : Users(d)' = Users(d)
<1>1. Users(c)' = Users(c) \cup {r} /\ r \notin Users(c)
  BY NoneIsNone DEF Users, TypeOK
<1>2. \A d \in Client \ {c} : Users(d)' = Users(d)
  BY NoneIsNone DEF Users, TypeOK
<1>3. Cardinality(Users(c) \cup {r}) = Cardinality(Users(c)) + 1
  BY <1>1, UsersCounted, FS_AddElement
<1> QED
  BY <1>1, <1>2, <1>3, UsersCounted

(* A request that lets go of a client is one user less of it.               *)
LEMMA LetGo ==
    ASSUME TypeOK, NEW r \in Request, NEW c \in Client, r \in Users(c),
           mine' = [mine EXCEPT ![r] = None], LeasesAreCounted
    PROVE  /\ Cardinality(Users(c)') = leases[c] - 1
           /\ leases[c] \in Nat \ {0}
           /\ leases[c] # 1 => \E q \in Request \ {r} : mine[q] = c
           /\ \A d \in Client \ {c} : Users(d)' = Users(d)
<1>1. Users(c)' = Users(c) \ {r} /\ r \in Users(c)
  BY NoneIsNone DEF Users, TypeOK
<1>2. \A d \in Client \ {c} : Users(d)' = Users(d)
  BY NoneIsNone DEF Users, TypeOK
<1>3. /\ IsFiniteSet(Users(c) \ {r})
      /\ Cardinality(Users(c) \ {r}) = Cardinality(Users(c)) - 1
  BY <1>1, UsersCounted, FS_RemoveElement
<1>4. leases[c] \in Nat \ {0}
  BY <1>1, UsersCounted DEF TypeOK, Users
<1>5. Cardinality(Users(c) \ {r}) = 0 <=> Users(c) \ {r} = {}
  BY <1>3, FS_EmptySet
<1>6. Cardinality(Users(c) \ {r}) = leases[c] - 1
  BY <1>3, UsersCounted
<1>7. leases[c] # 1 => Users(c) \ {r} # {}
  BY <1>4, <1>5, <1>6
<1>8. leases[c] # 1 => \E q \in Request \ {r} : mine[q] = c
  BY <1>7 DEF Users
<1> QED
  BY <1>1, <1>2, <1>4, <1>6, <1>8

(* The initial states satisfy the invariant.                                *)
LEMMA InitIInv ==
    ASSUME Init
    PROVE  IInv
<1>1. \A c \in Client : Users(c) = {}
  BY NoneIsNone DEF Init, Users
<1>2. LeasesAreCounted
  BY <1>1, FS_EmptySet DEF Init, LeasesAreCounted
<1>3. TypeOK
  BY NoneIsNone, SizesOK DEF Init, TypeOK, PC, Client
<1> QED
  BY <1>2, <1>3, TasksOK
  DEF Init, IInv, RequestOK, DueStages, DueOK, PoolOpen, RetiredOpen,
      LifespanOK, MineOpen, InsertOK, Accounted, Task
----------------------------------------------------------------------------
(* Positions stay positions.                                                *)
LEMMA MoveToEndType ==
    ASSUME TypeOK, NEW c \in Client, MoveToEnd(c)
    PROVE  pos' \in [Client -> Client]
<1>. pos \in [Client -> Client]
  BY DEF TypeOK
<1>1. ASSUME NEW m \in Client, NEW n \in Client, m > n PROVE m - 1 \in Client
  BY <1>1, SizesOK DEF Client
<1>2. MaxClient \in Client
  BY SizesOK DEF Client
<1> QED
  BY <1>1, <1>2 DEF MoveToEnd

(* Each step of a request, of a client's time and of the shutdown keeps the  *)
(* invariant.                                                               *)
LEMMA EnterGateKeeps ==
    ASSUME IInv, NEW r \in Request, NEW p \in Principal, EnterGate(r, p)
    PROVE  IInv'
<1>. USE TasksOK, NoneIsNone DEF IInv, EnterGate, Become, cvars
<1>1. TypeOK' /\ RequestOK' /\ DueStages' /\ LifespanOK'
  BY DEF TypeOK, RequestOK, DueStages, LifespanOK, Task, PC
<1>2. DueOK' /\ PoolOpen' /\ RetiredOpen'
  BY DEF DueOK, PoolOpen, RetiredOpen, TypeOK
<1>3. InsertOK' /\ Accounted'
  <2>1. /\ \A q \in Request : pc'[q] = "insert" <=> pc[q] = "insert"
        /\ UNCHANGED <<mine, due, pool, retired, life>>
    BY DEF TypeOK, Task
  <2> HIDE DEF IInv, EnterGate, Become
  <2>2. InsertOK'
    BY <2>1 DEF IInv, InsertOK
  <2>3. \A c \in Client : Users(c)' = Users(c)
    BY <2>1 DEF Users
  <2>4. Accounted'
    BY <2>1, <2>3 DEF IInv, Accounted
  <2> QED
    BY <2>2, <2>4
<1>4. MineOpen'
  BY DEF MineOpen, TypeOK, RequestOK, Key
<1>5. LeasesAreCounted'
  BY DEF LeasesAreCounted, Users
<1> QED
  BY <1>1, <1>2, <1>3, <1>4, <1>5

LEMMA HitKeeps ==
    ASSUME IInv, NEW r \in Request, Hit(r)
    PROVE  IInv'
<1>. USE TasksOK, NoneIsNone DEF IInv, Become, Task
<1>1. PICK c \in Pooled(Key(who[r])) \ expired :
          /\ leases' = [leases EXCEPT ![c] = @ + 1]
          /\ mine' = [mine EXCEPT ![r] = c]
          /\ MoveToEnd(c)
  BY DEF Hit
<1>2. /\ c \in pool /\ c \in Client /\ Key(owner[c]) = Key(who[r])
      /\ pc[r] = "gate" /\ mine[r] = None
      /\ pc' = [pc EXCEPT ![r] = "leave"]
      /\ UNCHANGED <<who, due, pool, expired, owner, retired, life, down>>
  BY <1>1 DEF Hit, Pooled, TypeOK, RequestOK
<1>3. TypeOK'
  BY <1>1, <1>2, MoveToEndType DEF TypeOK, PC
<1>4. RequestOK' /\ DueStages' /\ LifespanOK' /\ PoolOpen' /\ RetiredOpen'
  BY <1>1, <1>2 DEF TypeOK, RequestOK, DueStages, LifespanOK, PoolOpen, RetiredOpen
<1>5. DueOK'
  BY <1>1, <1>2 DEF DueOK, TypeOK
<1>6. MineOpen' /\ InsertOK'
  BY <1>1, <1>2 DEF MineOpen, InsertOK, TypeOK, PoolOpen, Key
<1>7. Accounted'
  BY <1>1, <1>2 DEF Accounted, TypeOK, Users
<1>8. LeasesAreCounted'
  BY <1>1, <1>2, Taken, ZenonT(60) DEF LeasesAreCounted, TypeOK
<1> QED
  BY <1>3, <1>4, <1>5, <1>6, <1>7, <1>8

(* What leaves the map goes to the task that took it out, unless it is in    *)
(* use: then its last borrower closes it.                                   *)
LEMMA MissKeeps ==
    ASSUME IInv, NEW r \in Request, Miss(r)
    PROVE  IInv'
<1>. USE TasksOK, NoneIsNone DEF IInv, Task
<1>. DEFINE taken == pool \ Kept(pool, pos)
<1>1. /\ taken \subseteq pool
      /\ taken \subseteq Client
      /\ pool' = pool \ taken
      /\ retired' = retired \cup taken
      /\ due' = [due EXCEPT ![r] = {c \in taken : leases[c] = 0}]
      /\ pc[r] = "gate" /\ due[r] = {} /\ mine[r] = None
  BY DEF Miss, Retire, TypeOK, RequestOK, DueStages
<1>2. /\ UNCHANGED <<who, mine, pos, expired, owner, leases, life, gates, down>>
      /\ \/ due'[r] = {} /\ pc' = [pc EXCEPT ![r] = "build"]
         \/ due'[r] # {} /\ pc' = [pc EXCEPT ![r] = "retire"]
  BY DEF Miss, Become
<1>. HIDE DEF taken
<1>3. TypeOK'
  BY <1>1, <1>2 DEF TypeOK, PC
<1>4. RequestOK' /\ DueStages' /\ LifespanOK'
  BY <1>1, <1>2 DEF TypeOK, RequestOK, DueStages, LifespanOK
<1>5. DueOK'
  BY <1>1, <1>2 DEF TypeOK, DueOK, PoolOpen
<1>6. PoolOpen' /\ RetiredOpen'
  BY <1>1, <1>2 DEF PoolOpen, RetiredOpen
<1>7. MineOpen' /\ InsertOK'
  BY <1>1, <1>2 DEF MineOpen, InsertOK, TypeOK, Key
<1>8. \A c \in taken : leases[c] # 0 => Users(c) # {}
  BY <1>1, UsersCounted DEF Users
<1>9. Accounted'
  BY <1>1, <1>2, <1>8 DEF Accounted, TypeOK, Users
<1>10. LeasesAreCounted'
  BY <1>2 DEF LeasesAreCounted, Users
<1> QED
  BY <1>3, <1>4, <1>5, <1>6, <1>7, <1>9, <1>10

LEMMA ConstructKeeps ==
    ASSUME IInv, NEW r \in Request, NEW c \in Client, Construct(r, c)
    PROVE  IInv'
<1>. USE TasksOK, NoneIsNone DEF IInv, Task
<1>1. /\ pc[r] = "build" /\ life[c] = "none" /\ mine[r] = None
      /\ c \notin pool \cup retired
      /\ \A t \in Task : c \notin due[t]
      /\ \A q \in Request : mine[q] # c
  BY DEF Construct, RequestOK, PoolOpen, RetiredOpen, DueOK, MineOpen
<1>2. /\ life' = [life EXCEPT ![c] = "open"]
      /\ owner' = [owner EXCEPT ![c] = who[r]]
      /\ leases' = [leases EXCEPT ![c] = 1]
      /\ mine' = [mine EXCEPT ![r] = c]
      /\ pc' = [pc EXCEPT ![r] = "insert"]
      /\ UNCHANGED <<who, due, pool, pos, expired, retired, gates, down>>
  BY DEF Construct, Become
<1>3. TypeOK'
  BY <1>1, <1>2 DEF TypeOK, PC
<1>4. RequestOK' /\ DueStages' /\ LifespanOK'
  BY <1>1, <1>2 DEF TypeOK, RequestOK, DueStages, LifespanOK
<1>5. DueOK' /\ PoolOpen' /\ RetiredOpen'
  BY <1>1, <1>2 DEF TypeOK, DueOK, PoolOpen, RetiredOpen
<1>6. MineOpen'
  BY <1>1, <1>2 DEF MineOpen, TypeOK, Key
<1>7. InsertOK'
  BY <1>1, <1>2 DEF InsertOK, TypeOK, RequestOK
<1>8. Accounted'
  BY <1>1, <1>2 DEF Accounted, TypeOK, Users
<1>9. leases[c] = 0
  BY <1>1, UsersCounted
<1>10. /\ Cardinality(Users(c)') = leases[c] + 1
       /\ \A d \in Client \ {c} : Users(d)' = Users(d)
  BY <1>1, <1>2, Taken
<1>11. LeasesAreCounted'
  BY <1>2, <1>9, <1>10 DEF LeasesAreCounted, TypeOK
<1> QED
  BY <1>3, <1>4, <1>5, <1>6, <1>7, <1>8, <1>11

LEMMA InsertKeeps ==
    ASSUME IInv, NEW r \in Request, Insert(r)
    PROVE  IInv'
<1>. USE TasksOK, NoneIsNone DEF IInv, Task
<1>. DEFINE c == mine[r]
            old == Pooled(Key(who[r]))
            all == (pool \ old) \cup {c}
            taken == (all \ pool') \cup old
<1>1. /\ pc[r] = "insert" /\ due[r] = {} /\ c \in Client /\ life[c] = "open"
      /\ c \notin pool \cup retired
      /\ \A q \in Request : mine[q] = c => q = r
  BY DEF Insert, RequestOK, DueStages, MineOpen, InsertOK
<1>2. leases[c] # 0
  BY <1>1, UsersCounted
<1>3. old \subseteq pool
  BY DEF Pooled
<1>4. /\ MoveToEnd(c)
      /\ pool' \subseteq all
      /\ retired' = retired \cup taken
      /\ due' = [due EXCEPT ![r] = {d \in taken : leases[d] = 0}]
      /\ UNCHANGED <<who, mine, expired, owner, leases, life, down>>
      /\ \/ due'[r] = {} /\ pc' = [pc EXCEPT ![r] = "leave"]
         \/ due'[r] # {} /\ pc' = [pc EXCEPT ![r] = "evict"]
  BY DEF Insert, Kept, Retire, Become
<1>5. /\ pool' \subseteq pool \cup {c}
      /\ taken \subseteq pool \cup {c}
      /\ pool' \cap taken = {}
      /\ pool \subseteq pool' \cup taken
      /\ c \in pool' \cup taken
  BY <1>1, <1>3, <1>4
<1>6. pool \cup {c} \subseteq Client
  BY <1>1 DEF TypeOK
<1>. HIDE DEF c, old, all, taken
<1>7. c = mine[r]
  BY DEF c
<1>8. TypeOK'
  BY <1>1, <1>4, <1>5, <1>6, MoveToEndType DEF TypeOK, PC
<1>9. RequestOK' /\ DueStages' /\ LifespanOK'
  BY <1>1, <1>4, <1>7 DEF TypeOK, RequestOK, DueStages, LifespanOK
<1>10. \A d \in taken : leases[d] = 0 => d \in pool
  BY <1>2, <1>5
<1>11. DueOK'
  BY <1>1, <1>2, <1>4, <1>5, <1>10 DEF TypeOK, DueOK, PoolOpen
<1>12. PoolOpen' /\ RetiredOpen'
  BY <1>1, <1>4, <1>5 DEF PoolOpen, RetiredOpen
<1>13. MineOpen'
  BY <1>4 DEF MineOpen, Key
<1>14. InsertOK'
  BY <1>1, <1>4, <1>5, <1>7 DEF InsertOK, TypeOK
<1>15. \A d \in taken : leases[d] # 0 => Users(d) # {}
  BY <1>5, <1>6, UsersCounted DEF Users
<1>16. Accounted'
  BY <1>1, <1>4, <1>5, <1>7, <1>15 DEF Accounted, TypeOK, Users
<1>17. LeasesAreCounted'
  BY <1>4 DEF LeasesAreCounted, Users
<1> QED
  BY <1>8, <1>9, <1>11, <1>12, <1>13, <1>14, <1>16, <1>17

LEMMA PassingKeeps ==
    ASSUME IInv, NEW r \in Request, GiveUp(r) \/ LeaveGate(r)
    PROVE  IInv'
<1>. USE TasksOK, NoneIsNone DEF IInv, Task
<1>1. /\ UNCHANGED <<mine, due, pool, pos, expired, owner, leases, retired, life, down>>
      /\ \E s \in {"leave", "serve", "idle"} :
            /\ pc' = [pc EXCEPT ![r] = s]
            /\ s = "idle" => mine[r] = None
            /\ s = "serve" => mine[r] # None
      /\ \/ who' = who
         \/ mine[r] = None /\ who' = [who EXCEPT ![r] = None]
      /\ pc[r] \notin {"insert", "retire", "evict", "close"}
  BY DEF GiveUp, LeaveGate, GoOn, Become, cvars, TypeOK
<1>2. TypeOK' /\ RequestOK' /\ DueStages' /\ LifespanOK'
  BY <1>1 DEF TypeOK, RequestOK, DueStages, LifespanOK, PC
<1>3. DueOK' /\ PoolOpen' /\ RetiredOpen'
  BY <1>1 DEF DueOK, PoolOpen, RetiredOpen
<1>4. MineOpen'
  BY <1>1 DEF MineOpen, TypeOK, Key
<1>5. InsertOK' /\ Accounted' /\ LeasesAreCounted'
  BY <1>1 DEF InsertOK, Accounted, LeasesAreCounted, TypeOK, Users
<1> QED
  BY <1>2, <1>3, <1>4, <1>5

(* What is closed has left the map and has no borrower.                     *)
LEMMA CloseKeeps ==
    ASSUME IInv, NEW t \in Task, NEW c \in Client, Close(t, c)
    PROVE  IInv'
<1>. USE TasksOK, NoneIsNone DEF IInv, Task
<1>1. /\ c \in due[t] /\ c \notin pool /\ life[c] = "open"
      /\ \A u \in Task : c \in due[u] => u = t
      /\ pc[t] \in {"retire", "evict", "close"}
      /\ \A r \in Request : mine[r] # c
  BY UsersCounted DEF Close, DueOK, DueStages
<1>2. /\ life' = [life EXCEPT ![c] = "closed"]
      /\ due' = [due EXCEPT ![t] = @ \ {c}]
      /\ owner' = [owner EXCEPT ![c] = None]
      /\ retired' = retired \ {c}
      /\ UNCHANGED <<who, mine, pool, pos, expired, leases, down>>
      /\ \/ due'[t] # {} /\ pc' = pc
         \/ due'[t] = {} /\ pc[t] = "retire" /\ pc' = [pc EXCEPT ![t] = "build"]
         \/ due'[t] = {} /\ pc[t] = "evict" /\ pc' = [pc EXCEPT ![t] = "leave"]
         \/ due'[t] = {} /\ pc[t] = "close" /\ pc' = [pc EXCEPT ![t] = "idle"]
  BY <1>1 DEF Close, Become, TypeOK
<1>3. TypeOK'
  BY <1>2 DEF TypeOK, PC
<1>4. RequestOK' /\ DueStages' /\ LifespanOK'
  BY <1>1, <1>2 DEF TypeOK, RequestOK, DueStages, LifespanOK
<1>5. DueOK'
  BY <1>1, <1>2 DEF TypeOK, DueOK
<1>6. PoolOpen' /\ RetiredOpen'
  BY <1>1, <1>2 DEF TypeOK, PoolOpen, RetiredOpen
<1>7. MineOpen'
  BY <1>1, <1>2 DEF TypeOK, MineOpen, Key
<1>8. InsertOK'
  BY <1>1, <1>2 DEF TypeOK, InsertOK
<1>9. Accounted'
  BY <1>1, <1>2 DEF TypeOK, Accounted, Users
<1>10. LeasesAreCounted'
  BY <1>2 DEF LeasesAreCounted, Users
<1> QED
  BY <1>3, <1>4, <1>5, <1>6, <1>7, <1>8, <1>9, <1>10

LEMMA ReleaseKeeps ==
    ASSUME IInv, NEW r \in Request, Release(r)
    PROVE  IInv'
<1>. USE TasksOK, NoneIsNone DEF IInv, Task
<1>1. PICK c \in Client :
          c = mine[r] /\ life[c] = "open" /\ pc[r] = "serve" /\ due[r] = {}
  BY DEF Release, RequestOK, DueStages, MineOpen
<1>2. /\ leases' = [leases EXCEPT ![c] = @ - 1]
      /\ mine' = [mine EXCEPT ![r] = None]
      /\ who' = [who EXCEPT ![r] = None]
      /\ UNCHANGED <<pool, pos, expired, owner, retired, life, gates, down>>
      /\ \/ /\ c \in retired /\ leases[c] = 1
            /\ due' = [due EXCEPT ![r] = {c}]
            /\ pc' = [pc EXCEPT ![r] = "close"]
         \/ /\ c \notin retired \/ leases[c] # 1
            /\ due' = due
            /\ pc' = [pc EXCEPT ![r] = "idle"]
  BY <1>1 DEF Release, Become
<1>3. /\ Cardinality(Users(c)') = leases[c] - 1
      /\ leases[c] \in Nat \ {0}
      /\ leases[c] # 1 => \E q \in Request \ {r} : mine[q] = c
      /\ \A d \in Client \ {c} : Users(d)' = Users(d)
<2>1. r \in Users(c)
  BY <1>1 DEF Users
<2> QED
  BY <1>2, <2>1, LetGo
<1>4. TypeOK'
  BY <1>1, <1>2, <1>3 DEF TypeOK, PC
<1>5. RequestOK' /\ DueStages' /\ LifespanOK'
  BY <1>1, <1>2 DEF TypeOK, RequestOK, DueStages, LifespanOK
<1>6. \A t \in Task : c \notin due[t]
  BY <1>3 DEF DueOK
<1>7. c \in retired => c \notin pool
  BY DEF PoolOpen
<1>8. \A d \in Client : d # c => leases'[d] = leases[d]
  BY <1>2 DEF TypeOK
<1>9. leases[c] = 1 => leases'[c] = 0
  BY <1>1, <1>2 DEF TypeOK
<1>10. DueOK'
  BY <1>1, <1>2, <1>6, <1>7, <1>8, <1>9, SMTT(30) DEF TypeOK, DueOK
<1>11. PoolOpen' /\ RetiredOpen'
  BY <1>2 DEF PoolOpen, RetiredOpen
<1>12. MineOpen'
  BY <1>1, <1>2 DEF TypeOK, MineOpen, Key
<1>13. InsertOK'
  BY <1>1, <1>2 DEF TypeOK, InsertOK, RequestOK
<1>14. Accounted'
  BY <1>1, <1>2, <1>3, <1>6 DEF TypeOK, Accounted, Users
<1>15. LeasesAreCounted'
  BY <1>1, <1>2, <1>3, <1>8 DEF TypeOK, LeasesAreCounted
<1> QED
  BY <1>4, <1>5, <1>10, <1>11, <1>12, <1>13, <1>14, <1>15

LEMMA ExpireKeeps ==
    ASSUME IInv, NEW c \in Client, Expire(c)
    PROVE  IInv'
  BY DEF Expire, IInv, TypeOK, RequestOK, DueStages, DueOK, PoolOpen, RetiredOpen,
         LifespanOK, MineOpen, InsertOK, Accounted, LeasesAreCounted, Users, Key,
         tvars, cvars

LEMMA AcloseKeeps ==
    ASSUME IInv, Aclose
    PROVE  IInv'
<1>. USE TasksOK, NoneIsNone DEF IInv, Task
<1>1. /\ ~down /\ pc[Lifespan] = "idle" /\ due[Lifespan] = {}
      /\ \A r \in Request : pc[r] = "idle" /\ mine[r] = None
  BY DEF Aclose, LifespanOK, DueStages, RequestOK
<1>2. \A c \in pool : leases[c] = 0
  BY <1>1, UsersCounted DEF TypeOK
<1>3. /\ down' = TRUE
      /\ pool' = {}
      /\ retired' = retired \cup pool
      /\ due' = [due EXCEPT ![Lifespan] = pool]
      /\ UNCHANGED <<who, mine, pos, expired, owner, leases, life, gates>>
      /\ \/ due'[Lifespan] = {} /\ pc' = [pc EXCEPT ![Lifespan] = "idle"]
         \/ due'[Lifespan] # {} /\ pc' = [pc EXCEPT ![Lifespan] = "close"]
  BY DEF Aclose, Become
<1>4. TypeOK' /\ RequestOK' /\ DueStages' /\ LifespanOK'
  BY <1>1, <1>3 DEF TypeOK, RequestOK, DueStages, LifespanOK, PC
<1>5. DueOK' /\ PoolOpen' /\ RetiredOpen'
  BY <1>1, <1>2, <1>3 DEF TypeOK, DueOK, PoolOpen, RetiredOpen
<1>6. MineOpen' /\ InsertOK' /\ Accounted' /\ LeasesAreCounted'
  BY <1>1, <1>3 DEF TypeOK, MineOpen, InsertOK, Accounted, LeasesAreCounted, Users, Key
<1> QED
  BY <1>4, <1>5, <1>6

----------------------------------------------------------------------------
LEMMA NextKeeps ==
    ASSUME IInv, [Next]_vars
    PROVE  IInv'
<1>1. ASSUME NEW r \in Request, NEW p \in Principal, EnterGate(r, p) PROVE IInv'
  BY <1>1, EnterGateKeeps
<1>2. ASSUME NEW r \in Request, Progress(r) PROVE IInv'
  BY <1>2, HitKeeps, MissKeeps, InsertKeeps, PassingKeeps, ConstructKeeps, CloseKeeps
  DEF Progress, Task
<1>3. ASSUME NEW r \in Request, GiveUp(r) \/ Release(r) PROVE IInv'
  BY <1>3, PassingKeeps, ReleaseKeeps
<1>4. ASSUME NEW c \in Client, Close(Lifespan, c) \/ Expire(c) PROVE IInv'
  BY <1>4, CloseKeeps, ExpireKeeps DEF Task
<1>5. ASSUME Aclose PROVE IInv'
  BY <1>5, AcloseKeeps
<1>6. ASSUME UNCHANGED vars PROVE IInv'
  BY <1>6
  DEF vars, tvars, cvars, IInv, TypeOK, RequestOK, DueStages, DueOK, PoolOpen,
      RetiredOpen, LifespanOK, MineOpen, InsertOK, Accounted, LeasesAreCounted,
      Users, Key
<1> QED
  BY <1>1, <1>2, <1>3, <1>4, <1>5, <1>6 DEF Next

(* The strengthening, in every behaviour of the pool.                       *)
THEOREM PoolInvariance == Spec => []IInv
<1>1. Init => IInv
  BY InitIInv
<1>2. IInv /\ [Next]_vars => IInv'
  BY NextKeeps
<1> QED
  BY <1>1, <1>2, PTL DEF Spec

(* The variables of the pool keep their types (ClientPool._acquire).        *)
THEOREM PoolTypeCorrect == Spec => []TypeOK
<1>1. IInv => TypeOK
  BY DEF IInv
<1> QED
  BY <1>1, PoolInvariance, PTL

(* The lease count of _PooledClient is the number of its borrowers.         *)
THEOREM LeaseCount == Spec => []LeasesAreCounted
<1>1. IInv => LeasesAreCounted
  BY DEF IInv
<1> QED
  BY <1>1, PoolInvariance, PTL

(* Every open client is in the map, in use or about to be closed            *)
(* (_acquire, _release and aclose lose none).                               *)
THEOREM NoChannelLeaks == Spec => []NothingLeaks
<1>1. IInv => NothingLeaks
  BY NoneIsNone DEF IInv, Accounted, NothingLeaks, Users
<1> QED
  BY <1>1, PoolInvariance, PTL

(* A request is served by a client built for its own credential (_key).     *)
THEOREM NoForeignCredential == Spec => []OwnCredential
<1>1. IInv => OwnCredential
  BY DEF IInv, MineOpen, OwnCredential, Key
<1> QED
  BY <1>1, PoolInvariance, PTL

(* Each step of the pool is a step of the abstract lease or none: opened by *)
(* its builder, borrowed while open, closed once and without a borrower.     *)
LEMMA StepRefines ==
    ASSUME IInv, [Next]_vars
    PROVE  [Lease!Next]_(Lease!vars)
<1>. USE NoneIsNone DEF IInv, Lease!vars
<1>1. ASSUME NEW r \in Request, Hit(r) PROVE Lease!Next
<2>1. PICK c \in Pooled(Key(who[r])) : mine' = [mine EXCEPT ![r] = c]
  BY <1>1 DEF Hit
<2>2. c \in Client /\ life[c] = "open" /\ mine[r] = None /\ life' = life
  BY <1>1, <2>1 DEF Hit, Pooled, PoolOpen, TypeOK, RequestOK
<2> QED
  BY <2>1, <2>2 DEF Lease!Next, Lease!Borrow
<1>2. ASSUME NEW r \in Request, NEW c \in Client, Construct(r, c) PROVE Lease!Next
<2>1. mine[r] = None
  BY <1>2 DEF Construct, RequestOK
<2> QED
  BY <1>2, <2>1 DEF Construct, Lease!Next, Lease!Open
<1>3. ASSUME NEW t \in Task, NEW c \in Client, Close(t, c) PROVE Lease!Next
<2>1. life[c] = "open" /\ \A r \in Request : mine[r] # c
  BY <1>3, UsersCounted DEF Close, DueOK
<2> QED
  BY <1>3, <2>1 DEF Close, Lease!Next, Lease!Close, Lease!Unused
<1>4. ASSUME NEW r \in Request, Release(r) PROVE Lease!Next
<2>1. mine[r] # None
  BY <1>4 DEF Release, RequestOK
<2> QED
  BY <1>4, <2>1 DEF Release, Lease!Next, Lease!Return
<1>5. ASSUME NEW r \in Request,
             \/ \E p \in Principal : EnterGate(r, p)
             \/ Miss(r) \/ Insert(r) \/ LeaveGate(r) \/ GiveUp(r)
      PROVE  UNCHANGED <<life, mine>>
  BY <1>5 DEF EnterGate, Miss, Insert, LeaveGate, GiveUp, cvars
<1>6. ASSUME \/ Aclose \/ UNCHANGED vars \/ \E c \in Client : Expire(c)
      PROVE  UNCHANGED <<life, mine>>
  BY <1>6 DEF Aclose, Expire, vars, tvars, cvars
<1> QED
  BY <1>1, <1>2, <1>3, <1>4, <1>5, <1>6 DEF Next, Progress, Task

(* The pool implements the abstract lease: "Eviction never closes a channel *)
(* somebody is still using", nor does anything else, shutdown included.     *)
THEOREM PoolImplementsLease == Spec => LeasesAreKept
<1>1. Init => Lease!Init
  BY DEF Init, Lease!Init
<1>2. IInv /\ [Next]_vars => [Lease!Next]_(Lease!vars)
  BY StepRefines
<1> QED
  BY <1>1, <1>2, PoolInvariance, PTL DEF Spec, LeasesAreKept, Lease!Spec

(***************************************************************************)
(* The way of a request                                                    *)
(***************************************************************************)

(* Where a request is, and where it has just been answered.                *)
Phases == {"off", "key", "gate", "route", "leased", "fetched", "introspected",
           "discovered"} \cup Way!Calls
Came == {"fetched", "introspected", "discovered"}

(* A request.                                                              *)
ReqRec == [pc : Phases, kid : Way!Kids, since : Nat, answer : SUBSET Way!Facts]

(* An answer of the control plane.                                         *)
Entry == [until : Int, answer : SUBSET Way!Facts]

(* The fact held at that time.                                             *)
AsOf(g, f, t) == g[f] = Never \/ g[f] >= t

(* What holds in the control plane has not ceased to.                      *)
WorldOK ==
    /\ now \in Nat
    /\ gone \in [Way!Facts -> Nat \cup {Never}]
    /\ expires \in Nat \cup {Never}
    /\ published \subseteq Way!Kids /\ region \in Way!Regions /\ revoked \in BOOLEAN
    /\ published # {"k2"} => gone["k1"] = Never
    /\ gone["k2"] = Never /\ gone["r2"] = Never
    /\ ~revoked => gone["api key"] = Never
    /\ region = "r1" => gone["r1"] = Never

(* A request has not waited longer than it may, and what it was told held  *)
(* when it had begun.                                                      *)
Told(e, t, g, x) ==
    /\ e.pc # "off" => e.since <= t /\ t <= e.since + RequestTimeout
    /\ e.pc \in Came => \A f \in e.answer : AsOf(g, f, e.since)
    /\ e.pc = "fetched" => e.answer \subseteq Way!Kids
    /\ e.pc = "introspected" /\ e.answer # {}
           => "api key" \in e.answer /\ (x = Never \/ e.since < x)

RequestsOK(q, t, g, x) ==
    /\ q \in [Requests -> ReqRec]
    /\ \A r \in Requests : Told(q[r], t, g, x)

(* What a cache keeps held a request's time before it was stored.          *)
KeysOK(k, at, t, g) ==
    /\ k \subseteq Way!Kids /\ at \in Nat /\ at <= t
    /\ \A f \in k : AsOf(g, f, at - RequestTimeout)

EntryOK(e, ttl, t, g) ==
    /\ e \in Entry /\ e.until <= t + ttl
    /\ \A f \in e.answer : AsOf(g, f, e.until - ttl - RequestTimeout)

VoucherOK(e, t, g, x) ==
    /\ EntryOK(e, VoucherTtl, t, g)
    /\ e.answer # {} => "api key" \in e.answer /\ (x = Never \/ e.until <= x)

WayInv ==
    /\ WorldOK
    /\ RequestsOK(req, now, gone, expires)
    /\ KeysOK(keys, fetchedAt, now, gone)
    /\ VoucherOK(voucher, now, gone, expires)
    /\ EntryOK(route, RouteTtl, now, gone)

(* The constants of the model.                                             *)
LEMMA Spans ==
    ASSUME Way!RequestAssumption
    PROVE  /\ Never \notin Int /\ KeyTtl \in Nat /\ VoucherTtl \in Nat /\ RouteTtl \in Nat
           /\ RequestTimeout \in Nat
           /\ KeyTtl > 0 /\ VoucherTtl > 0 /\ RouteTtl > 0 /\ RequestTimeout > 0
BY DEF Way!RequestAssumption

(* A fact that ceases to hold now did hold before.                         *)
LEMMA StillAsOf ==
    ASSUME NEW g, NEW h, NEW f, NEW t \in Int, NEW n \in Int, t <= n,
           h[f] = g[f] \/ h[f] = n, AsOf(g, f, t)
    PROVE  AsOf(h, f, t)
BY DEF AsOf

(* A fact ceases to hold: nobody was told a lie.                           *)
LEMMA WorldTurns ==
    ASSUME Way!RequestAssumption, WayInv, NEW h,
           \A f \in Way!Facts : h[f] = gone[f] \/ h[f] = now
    PROVE  /\ RequestsOK(req, now, h, expires)
           /\ KeysOK(keys, fetchedAt, now, h)
           /\ VoucherOK(voucher, now, h, expires)
           /\ EntryOK(route, RouteTtl, now, h)
<1>1. /\ now \in Nat /\ RequestTimeout \in Nat /\ VoucherTtl \in Nat /\ RouteTtl \in Nat
  BY Spans DEF WayInv, WorldOK
<1>2. RequestsOK(req, now, h, expires)
  <2> SUFFICES ASSUME NEW r \in Requests PROVE Told(req[r], now, h, expires)
    BY DEF WayInv, RequestsOK
  <2>1. req[r] \in ReqRec /\ Told(req[r], now, gone, expires)
    BY DEF WayInv, RequestsOK
  <2>2. ASSUME req[r].pc \in Came, NEW f \in req[r].answer PROVE AsOf(h, f, req[r].since)
    <3>1. req[r].since \in Nat /\ req[r].since <= now /\ f \in Way!Facts
      BY <2>1, <2>2 DEF Told, ReqRec, Came
    <3>2. AsOf(gone, f, req[r].since)
      BY <2>1, <2>2 DEF Told
    <3> QED
      BY <1>1, <3>1, <3>2, StillAsOf
  <2> QED
    BY <2>1, <2>2 DEF Told
<1>3. KeysOK(keys, fetchedAt, now, h)
  <2> SUFFICES ASSUME NEW f \in keys PROVE AsOf(h, f, fetchedAt - RequestTimeout)
    BY DEF WayInv, KeysOK
  <2>1. /\ fetchedAt \in Nat /\ fetchedAt <= now
        /\ AsOf(gone, f, fetchedAt - RequestTimeout)
        /\ f \in Way!Facts
    BY DEF WayInv, KeysOK, Way!Facts
  <2>2. fetchedAt - RequestTimeout \in Int /\ fetchedAt - RequestTimeout <= now
    BY <1>1, <2>1
  <2> QED
    BY <1>1, <2>1, <2>2, StillAsOf
<1>4. ASSUME NEW e, NEW ttl \in Nat, EntryOK(e, ttl, now, gone)
    PROVE EntryOK(e, ttl, now, h)
  <2> SUFFICES ASSUME NEW f \in e.answer PROVE AsOf(h, f, e.until - ttl - RequestTimeout)
    BY <1>4 DEF EntryOK
  <2>1. /\ e.until \in Int /\ e.until <= now + ttl
        /\ AsOf(gone, f, e.until - ttl - RequestTimeout) /\ f \in Way!Facts
    BY <1>4 DEF EntryOK, Entry
  <2>2. e.until - ttl - RequestTimeout \in Int /\ e.until - ttl - RequestTimeout <= now
    BY <1>1, <2>1
  <2> QED
    BY <1>1, <2>1, <2>2, StillAsOf
<1> QED
  BY <1>1, <1>2, <1>3, <1>4 DEF WayInv, VoucherOK

(* Time passes: nobody waits beyond the timeout.                           *)
LEMMA TimePasses ==
    ASSUME Way!RequestAssumption, WayInv, Way!Tick
    PROVE  WayInv'
<1>1. /\ now \in Nat /\ RequestTimeout \in Nat /\ VoucherTtl \in Nat /\ RouteTtl \in Nat
  BY Spans DEF WayInv, WorldOK
<1>2. now' = now + 1 /\ UNCHANGED <<Way!world, req, Way!keyCache, voucher, route>>
  BY DEF Way!Tick
<1>3. /\ UNCHANGED <<published, revoked, expires, region, gone, req, keys, fetchedAt>>
      /\ UNCHANGED <<voucher, route>>
  BY <1>2 DEF Way!world, Way!keyCache
<1>4. WorldOK'
  <2>1. now' \in Nat
    BY <1>1, <1>2
  <2> QED
    BY <2>1, <1>3, Zenon DEF WayInv, WorldOK
<1>5. RequestsOK(req, now + 1, gone, expires)
  <2> SUFFICES ASSUME NEW r \in Requests PROVE Told(req[r], now + 1, gone, expires)
    BY DEF WayInv, RequestsOK
  <2>1. req[r] \in ReqRec /\ Told(req[r], now, gone, expires)
    BY DEF WayInv, RequestsOK
  <2>2. req[r].since \in Nat
    BY <2>1 DEF ReqRec
  <2>3. req[r].pc # "off" => now - req[r].since < RequestTimeout
    BY DEF Way!Tick
  <2>4. ASSUME req[r].pc # "off"
        PROVE  req[r].since <= now + 1 /\ now + 1 <= req[r].since + RequestTimeout
    <3>1. req[r].since <= now /\ now - req[r].since < RequestTimeout
      BY <2>1, <2>3, <2>4 DEF Told
    <3> QED
      BY <1>1, <2>2, <3>1
  <2> QED
    BY <2>1, <2>4 DEF Told
<1>6. KeysOK(keys, fetchedAt, now + 1, gone)
  BY <1>1 DEF WayInv, KeysOK
<1>7. ASSUME NEW e, NEW ttl \in Nat, EntryOK(e, ttl, now, gone)
      PROVE  EntryOK(e, ttl, now + 1, gone)
  <2>1. e.until \in Int
    BY <1>7 DEF EntryOK, Entry
  <2> QED
    BY <1>1, <1>7, <2>1 DEF EntryOK
<1> QED
  BY <1>1, <1>2, <1>3, <1>4, <1>5, <1>6, <1>7 DEF WayInv, VoucherOK

(* A fact of the control plane ceases to hold, or a key is published.      *)
LEMMA WorldMoves ==
    ASSUME Way!RequestAssumption, WayInv, Way!WorldChanges
    PROVE  WayInv'
<1>1. UNCHANGED <<now, expires, req, keys, fetchedAt, voucher, route>>
  BY DEF Way!WorldChanges, Way!keyCache
<1>2. now \in Nat /\ gone \in [Way!Facts -> Nat \cup {Never}]
  BY DEF WayInv, WorldOK
<1>3. WorldOK' /\ (gone' = gone \/ \E f \in Way!Facts : gone' = [gone EXCEPT ![f] = now])
  <2>1. CASE published' = Way!Kids /\ gone' = gone /\ published # {"k2"}
             /\ UNCHANGED <<revoked, region>>
    BY <1>1, <2>1 DEF WayInv, WorldOK
  <2>2. CASE published' = {"k2"} /\ gone' = [gone EXCEPT !["k1"] = now]
             /\ UNCHANGED <<revoked, region>>
    BY <1>1, <1>2, <2>2 DEF WayInv, WorldOK, Way!Facts, Way!Kids, Way!Regions
  <2>3. CASE revoked' = TRUE /\ gone' = [gone EXCEPT !["api key"] = now]
             /\ UNCHANGED <<published, region>>
    BY <1>1, <1>2, <2>3 DEF WayInv, WorldOK, Way!Facts, Way!Kids, Way!Regions
  <2>4. CASE region' = "r2" /\ gone' = [gone EXCEPT !["r1"] = now]
             /\ UNCHANGED <<published, revoked>>
    BY <1>1, <1>2, <2>4 DEF WayInv, WorldOK, Way!Facts, Way!Kids, Way!Regions
  <2> QED
    BY <2>1, <2>2, <2>3, <2>4 DEF Way!WorldChanges
<1>4. \A f \in Way!Facts : gone'[f] = gone[f] \/ gone'[f] = now
  BY <1>2, <1>3
<1>5. /\ RequestsOK(req, now, gone', expires)
      /\ KeysOK(keys, fetchedAt, now, gone')
      /\ VoucherOK(voucher, now, gone', expires)
      /\ EntryOK(route, RouteTtl, now, gone')
  BY <1>4, WorldTurns
<1> QED
  BY <1>1, <1>3, <1>5 DEF WayInv

(* Where a request goes next.                                              *)
LEMMA NextPhase ==
    /\ Way!AfterGate \in {"route", "leased"}
    /\ Way!AfterKey \in {"gate", "route", "leased"}
    /\ Way!First \in {"key", "gate", "route", "leased"}
BY DEF Way!AfterGate, Way!AfterKey, Way!First

(* A request that waits knows nothing.                                     *)
LEMMA OnItsWay ==
    ASSUME WayInv, NEW r \in Requests, req[r].pc # "off", NEW p \in Phases \ Came,
           Way!Goes(r, p)
    PROVE  /\ RequestsOK(req', now, gone, expires) /\ req'[r].pc = p
           /\ req'[r].kid = req[r].kid /\ \A q \in Requests \ {r} : req'[q] = req[q]
<1>1. req \in [Requests -> ReqRec] /\ req[r] \in ReqRec
  BY DEF WayInv, RequestsOK
<1>2. PICK e \in ReqRec : e = req[r]
  BY <1>1
<1> DEFINE d == [e EXCEPT !.pc = p, !.answer = {}]
<1>3. d \in ReqRec /\ d.pc = p /\ d.kid = e.kid /\ d.since = e.since /\ d.answer = {}
  BY DEF ReqRec
<1>4. req' = [req EXCEPT ![r] = d]
  BY <1>1, <1>2 DEF Way!Goes
<1> HIDE DEF d
<1>5. Told(d, now, gone, expires)
  BY <1>2, <1>3 DEF WayInv, RequestsOK, Told, Came
<1>6. req' \in [Requests -> ReqRec]
  BY <1>1, <1>3, <1>4
<1>7. req'[r] = d /\ \A q \in Requests \ {r} : req'[q] = req[q]
  BY <1>1, <1>4
<1> QED
  BY <1>2, <1>3, <1>5, <1>6, <1>7 DEF WayInv, RequestsOK

(* A request that ends.                                                    *)
LEMMA AtItsEnd ==
    ASSUME WayInv, NEW r \in Requests, Way!Ends(r)
    PROVE  /\ RequestsOK(req', now, gone, expires) /\ req'[r].pc = "off"
           /\ \A q \in Requests \ {r} : req'[q] = req[q]
<1>1. req \in [Requests -> ReqRec]
  BY DEF WayInv, RequestsOK
<1>2. Way!Idle \in ReqRec /\ Way!Idle.pc = "off"
  BY DEF Way!Idle, ReqRec, Phases, Way!Kids
<1>3. req' = [req EXCEPT ![r] = Way!Idle]
  BY DEF Way!Ends
<1>4. Told(Way!Idle, now, gone, expires)
  BY <1>2 DEF Told, Came
<1>5. req' \in [Requests -> ReqRec] /\ req'[r] = Way!Idle
      /\ \A q \in Requests \ {r} : req'[q] = req[q]
  BY <1>1, <1>2, <1>3
<1> HIDE DEF Way!Idle
<1> QED
  BY <1>2, <1>4, <1>5 DEF WayInv, RequestsOK

(* Those steps of a request that leave the caches alone.                   *)
LEMMA CachesRest ==
    ASSUME WayInv, RequestsOK(req', now, gone, expires),
           UNCHANGED <<now, Way!world, keys, fetchedAt, voucher, route>>
    PROVE  WayInv'
BY DEF WayInv, WorldOK, Way!world

(* What the property asks of one request.                                  *)
Trusts(r) ==
    /\ "key" \in cold /\ Way!Passes(r, {"off", "key", "fetched"}, {Way!AfterKey})
           => Way!Recent(req'[r].kid, KeyTtl)
    /\ Way!Passes(r, {"gate", "introspected"}, {Way!AfterGate})
           => /\ Way!Recent("api key", VoucherTtl)
              /\ expires = Never \/ now < expires + RequestTimeout
    /\ Way!Passes(r, {"route", "discovered"}, {"leased"})
           => \A place \in route'.answer : Way!Recent(place, RouteTtl)

(* A request that stays where it is trusts nothing anew, and one that ends *)
(* or waits trusts nothing.                                                *)
LEMMA StaysTrusts ==
    ASSUME NEW r, \/ req'[r].pc = req[r].pc
                  \/ req'[r].pc \in {"off", "fetch", "introspect", "discover"} \cup Came
    PROVE  Trusts(r)
BY NextPhase DEF Trusts, Way!Passes, Came

(* A step of request r is as the property wants when r is.                 *)
LEMMA OthersTrust ==
    ASSUME NEW r \in Requests, Trusts(r), \A q \in Requests \ {r} : req'[q] = req[q]
    PROVE  Way!TrustsRecently
<1>1. ASSUME NEW q \in Requests PROVE Trusts(q)
  <2>1. CASE q = r
    BY <2>1
  <2>2. CASE q # r
    BY <2>2, StaysTrusts
  <2> QED
    BY <2>1, <2>2
<1> QED
  BY <1>1 DEF Way!TrustsRecently, Trusts

(* The first phase of a request with that signing key.                     *)
Entering(kid) ==
    IF Way!First = "key" /\ Way!Fresh /\ kid \in keys THEN Way!AfterKey ELSE Way!First

(* A request arrives.                                                      *)
LEMMA ArriveTrusts ==
    ASSUME Way!RequestAssumption, WayInv, NEW r \in Requests, Way!Arrive(r)
    PROVE  WayInv' /\ Way!TrustsRecently
<1>1. /\ now \in Nat /\ req \in [Requests -> ReqRec] /\ KeyTtl \in Nat
      /\ RequestTimeout \in Nat
  BY Spans DEF WayInv, WorldOK, RequestsOK
<1>2. PICK kid \in Way!Kids :
        req' = [req EXCEPT ![r] =
            [Way!Idle EXCEPT !.kid = kid, !.since = now,
                !.pc =
                    Entering(kid)]]
  BY DEF Way!Arrive, Way!Kids, Entering
<1> DEFINE p == Entering(kid)
           e == [Way!Idle EXCEPT !.kid = kid, !.since = now, !.pc = p]
<1>3. p \in Phases \ Came /\ p # "off"
  BY NextPhase DEF Phases, Came, Way!Calls, Entering
<1> HIDE DEF p
<1>4. e \in ReqRec /\ e.pc = p /\ e.kid = kid /\ e.since = now /\ e.answer = {}
  BY <1>1, <1>3 DEF ReqRec, Way!Idle, Way!Facts
<1>5. req' = [req EXCEPT ![r] = e]
  BY <1>2 DEF p
<1> HIDE DEF e
<1>6. Told(e, now, gone, expires)
  BY <1>1, <1>3, <1>4 DEF Told
<1>7. req' \in [Requests -> ReqRec] /\ req'[r] = e
      /\ \A q \in Requests \ {r} : req'[q] = req[q]
  BY <1>1, <1>4, <1>5
<1>8. UNCHANGED <<now, Way!world, keys, fetchedAt, voucher, route>> /\ req[r].pc = "off"
  BY DEF Way!Arrive, Way!keyCache
<1>9. WayInv'
  BY <1>6, <1>7, <1>8, CachesRest DEF WayInv, RequestsOK
<1>10. ASSUME "key" \in cold, p = Way!AfterKey PROVE Way!Recent(kid, KeyTtl)
  <2>1. Way!Fresh /\ kid \in keys
    BY <1>10, NextPhase DEF p, Way!First, Entering
  <2>2. /\ fetchedAt \in Nat /\ now - fetchedAt < KeyTtl
        /\ AsOf(gone, kid, fetchedAt - RequestTimeout)
        /\ gone[kid] \in Nat \cup {Never}
    BY <2>1 DEF Way!Fresh, WayInv, KeysOK, WorldOK, Way!Facts
  <2> QED
    BY <1>1, <2>2 DEF Way!Recent, AsOf
<1> QED
  <2>1. Trusts(r)
    BY <1>4, <1>7, <1>8, <1>10, NextPhase DEF Trusts, Way!Passes, p, Entering
  <2> QED
    BY <1>7, <1>9, <2>1, OthersTrust

(* A request that gives up, or fails, or is cancelled, or served.          *)
LEMMA LeaveTrusts ==
    ASSUME WayInv, NEW r \in Requests, Way!Ends(r),
           UNCHANGED <<now, Way!world, keys, fetchedAt, voucher, route>>
    PROVE  WayInv' /\ Way!TrustsRecently
BY AtItsEnd, CachesRest, StaysTrusts, OthersTrust

(* A request that asks the control plane.                                  *)
LEMMA AskTrusts ==
    ASSUME WayInv, NEW r \in Requests, req[r].pc # "off",
           NEW p \in Way!Calls, Way!Goes(r, p),
           UNCHANGED <<now, Way!world, keys, fetchedAt, voucher>>,
           route' = route \/ route' = Way!NoEntry, Way!RequestAssumption
    PROVE  WayInv' /\ Way!TrustsRecently
<1>1. p \in Phases \ Came
  BY DEF Phases, Way!Calls, Came
<1>2. /\ RequestsOK(req', now, gone, expires) /\ req'[r].pc = p
      /\ \A q \in Requests \ {r} : req'[q] = req[q]
  BY <1>1, OnItsWay
<1>3. EntryOK(Way!NoEntry, RouteTtl, now, gone)
  <2>1. Way!NoEntry \in Entry /\ Way!NoEntry.until = 0 /\ Way!NoEntry.answer = {}
    BY DEF Way!NoEntry, Entry
  <2>2. 0 <= now + RouteTtl
    <3>1. now \in Nat
      BY DEF WayInv, WorldOK
    <3> QED
      BY <3>1, Spans
  <2> QED
    BY <2>1, <2>2 DEF EntryOK
<1>4. WayInv'
  BY <1>2, <1>3, Zenon DEF WayInv, WorldOK, Way!world
<1> QED
  BY <1>2, <1>4, StaysTrusts, OthersTrust DEF Way!Calls

(* The keys: cached, or fetched.                                           *)
LEMMA GetKeyTrusts ==
    ASSUME Way!RequestAssumption, WayInv, NEW r \in Requests, Way!GetKey(r)
    PROVE  WayInv' /\ Way!TrustsRecently
<1>1. req[r].pc = "key" /\ UNCHANGED <<now, Way!world, keys, fetchedAt, voucher, route>>
  BY DEF Way!GetKey
<1>2. CASE Way!Fresh /\ req[r].kid \in keys /\ Way!Goes(r, Way!AfterKey)
  <2>1. Way!AfterKey \in Phases \ Came
    BY NextPhase DEF Phases, Came
  <2>2. /\ RequestsOK(req', now, gone, expires) /\ req'[r].kid = req[r].kid
        /\ \A q \in Requests \ {r} : req'[q] = req[q]
    BY <1>1, <1>2, <2>1, OnItsWay
  <2>3. /\ fetchedAt \in Nat /\ now - fetchedAt < KeyTtl
        /\ AsOf(gone, req[r].kid, fetchedAt - RequestTimeout)
        /\ gone[req[r].kid] \in Nat \cup {Never}
    BY <1>2 DEF Way!Fresh, WayInv, KeysOK, WorldOK, Way!Facts
  <2>4. now \in Nat /\ KeyTtl \in Nat /\ RequestTimeout \in Nat
    BY Spans DEF WayInv, WorldOK
  <2>5. Way!Recent(req[r].kid, KeyTtl)
    BY <2>3, <2>4 DEF Way!Recent, AsOf
  <2>6. Trusts(r)
    BY <1>1, <2>2, <2>5 DEF Trusts, Way!Passes
  <2> QED
    BY <1>1, <2>2, <2>6, CachesRest, OthersTrust
<1>3. CASE Way!Goes(r, "fetch")
  BY <1>1, <1>3, AskTrusts DEF Way!Calls
<1>4. CASE Way!Ends(r)
  BY <1>1, <1>4, LeaveTrusts
<1> QED
  BY <1>2, <1>3, <1>4 DEF Way!GetKey

(* The control plane answers as things are.                                *)
LEMMA AnswerTrusts ==
    ASSUME Way!RequestAssumption, WayInv, NEW r \in Requests, Way!Answer(r)
    PROVE  WayInv' /\ Way!TrustsRecently
<1>1. PICK p \in Came, a \in SUBSET Way!Facts :
         /\ req' = [req EXCEPT ![r].pc = p, ![r].answer = a]
         /\ \/ p = "fetched" /\ a = published
            \/ p = "introspected" /\ a = IF Way!Active THEN {"api key"} ELSE {}
            \/ p = "discovered" /\ a = {region}
  BY DEF Way!Answer, Came, WayInv, WorldOK, Way!Facts
<1>2. /\ req[r].pc \in Way!Calls
      /\ UNCHANGED <<now, Way!world, keys, fetchedAt, voucher, route>>
  BY DEF Way!Answer, Way!Calls, Way!keyCache
<1>3. req \in [Requests -> ReqRec] /\ now \in Nat
  BY DEF WayInv, RequestsOK, WorldOK
<1>4. PICK e \in ReqRec : e = req[r]
  BY <1>3
<1> DEFINE d == [e EXCEPT !.pc = p, !.answer = a]
<1>5. d \in ReqRec /\ d.pc = p /\ d.since = e.since /\ d.answer = a
  BY <1>1 DEF ReqRec, Came, Phases
<1>6. req' = [req EXCEPT ![r] = d]
  BY <1>1, <1>3, <1>4
<1> HIDE DEF d
<1>7. e.since \in Nat /\ e.since <= now /\ now <= e.since + RequestTimeout
  BY <1>2, <1>4 DEF WayInv, RequestsOK, Told, Way!Calls, ReqRec
<1>8. \A f \in a : gone[f] = Never
  BY <1>1 DEF WayInv, WorldOK, Way!Active, Way!Kids, Way!Regions
<1>9. p = "introspected" /\ a # {}
         => "api key" \in a /\ (expires = Never \/ e.since < expires)
  <2> SUFFICES ASSUME p = "introspected", a # {}
               PROVE  "api key" \in a /\ (expires = Never \/ e.since < expires)
    OBVIOUS
  <2>1. "api key" \in a /\ (expires = Never \/ now < expires)
    BY <1>1 DEF Way!Active
  <2>2. CASE expires \in Nat /\ now < expires
    <3>1. e.since < expires
      BY <1>3, <1>7, <2>2
    <3> QED
      BY <2>1, <3>1
  <2>3. expires \in Nat \cup {Never}
    BY DEF WayInv, WorldOK
  <2> QED
    BY <2>1, <2>2, <2>3
<1>t. p = "fetched" => a \subseteq Way!Kids
  BY <1>1 DEF WayInv, WorldOK
<1>10. Told(d, now, gone, expires)
  BY <1>5, <1>7, <1>8, <1>9, <1>t DEF Told, AsOf
<1>11. req' \in [Requests -> ReqRec] /\ req'[r] = d
       /\ \A q \in Requests \ {r} : req'[q] = req[q]
  BY <1>3, <1>5, <1>6
<1>12. RequestsOK(req', now, gone, expires)
  BY <1>10, <1>11 DEF WayInv, RequestsOK
<1>13. Trusts(r)
  BY <1>5, <1>11, StaysTrusts
<1> QED
  BY <1>2, <1>11, <1>12, <1>13, CachesRest, OthersTrust

(* The fetched keys are trusted from now on.                               *)
LEMMA RefreshTrusts ==
    ASSUME Way!RequestAssumption, WayInv, NEW r \in Requests, Way!RefreshKeys(r)
    PROVE  WayInv' /\ Way!TrustsRecently
<1> DEFINE a == req[r].answer
           kid == req[r].kid
<1>1. /\ req[r].pc = "fetched" /\ UNCHANGED <<now, Way!world, voucher, route>>
      /\ keys' = a /\ fetchedAt' = now
  BY DEF Way!RefreshKeys
<1>2. now \in Nat /\ RequestTimeout \in Nat /\ KeyTtl \in Nat /\ KeyTtl > 0
  BY Spans DEF WayInv, WorldOK
<1>3. /\ a \subseteq Way!Kids /\ a \subseteq Way!Facts /\ kid \in Way!Kids
      /\ req[r].since \in Nat
      /\ now <= req[r].since + RequestTimeout
      /\ \A f \in a : AsOf(gone, f, req[r].since)
  BY <1>1 DEF WayInv, RequestsOK, ReqRec, Told, Came
<1>4. \A f \in a : gone[f] \in Nat \cup {Never}
  BY <1>3 DEF WayInv, WorldOK
<1> HIDE DEF a, kid
<1>5. \A f \in a : AsOf(gone, f, now - RequestTimeout) /\ Way!Recent(f, KeyTtl)
  BY <1>2, <1>3, <1>4 DEF AsOf, Way!Recent
<1>6. KeysOK(keys', fetchedAt', now, gone)
  BY <1>1, <1>2, <1>3, <1>5 DEF KeysOK
<1>7. CASE kid \in a /\ Way!Goes(r, Way!AfterKey)
  <2>1. Way!AfterKey \in Phases \ Came
    BY NextPhase DEF Phases, Came
  <2>2. /\ RequestsOK(req', now, gone, expires) /\ req'[r].kid = kid
        /\ \A q \in Requests \ {r} : req'[q] = req[q]
    BY <1>1, <1>7, <2>1, OnItsWay DEF kid
  <2>3. Way!Recent(kid, KeyTtl)
    BY <1>5, <1>7
  <2>4. Trusts(r)
    BY <1>1, <2>2, <2>3 DEF Trusts, Way!Passes
  <2>5. WayInv'
    BY <1>1, <1>6, <2>2, Zenon DEF WayInv, WorldOK, Way!world
  <2> QED
    BY <2>2, <2>4, <2>5, OthersTrust
<1>8. CASE Way!Ends(r)
  <2>1. /\ RequestsOK(req', now, gone, expires) /\ req'[r].pc = "off"
        /\ \A q \in Requests \ {r} : req'[q] = req[q]
    BY <1>8, AtItsEnd
  <2>2. WayInv'
    BY <1>1, <1>6, <2>1, Zenon DEF WayInv, WorldOK, Way!world
  <2> QED
    BY <2>1, <2>2, StaysTrusts, OthersTrust
<1> QED
  BY <1>7, <1>8 DEF Way!RefreshKeys, a, kid

(* The state of an API key that is cached.                                 *)
LEMMA IntrospectTrusts ==
    ASSUME Way!RequestAssumption, WayInv, NEW r \in Requests, Way!Introspect(r)
    PROVE  WayInv' /\ Way!TrustsRecently
<1>1. req[r].pc = "gate" /\ UNCHANGED <<now, Way!world, keys, fetchedAt, voucher, route>>
  BY DEF Way!Introspect, Way!keyCache
<1>2. CASE voucher.until > now /\ voucher.answer # {} /\ Way!Goes(r, Way!AfterGate)
  <2>1. Way!AfterGate \in Phases \ Came
    BY NextPhase DEF Phases, Came
  <2>2. /\ RequestsOK(req', now, gone, expires) /\ req'[r].pc = Way!AfterGate
        /\ \A q \in Requests \ {r} : req'[q] = req[q]
    BY <1>1, <1>2, <2>1, OnItsWay
  <2>3. /\ voucher.until \in Int /\ "api key" \in voucher.answer
        /\ expires = Never \/ voucher.until <= expires
        /\ AsOf(gone, "api key", voucher.until - VoucherTtl - RequestTimeout)
    BY <1>2 DEF WayInv, VoucherOK, EntryOK, Entry
  <2>4. now \in Nat /\ VoucherTtl \in Nat /\ RequestTimeout \in Nat /\ RequestTimeout > 0
    BY Spans DEF WayInv, WorldOK
  <2>t. expires \in Nat \cup {Never} /\ gone["api key"] \in Nat \cup {Never}
    BY DEF WayInv, WorldOK, Way!Facts
  <2>n. voucher.until \in Int /\ voucher.until > now
    BY <1>2, <2>3
  <2>5. Way!Recent("api key", VoucherTtl)
    <3>1. CASE gone["api key"] = Never
      BY <3>1 DEF Way!Recent
    <3>2. CASE gone["api key"] # Never
      <4> DEFINE x == gone["api key"]
      <4>1. x >= voucher.until - VoucherTtl - RequestTimeout
        BY <2>3, <3>2, Zenon DEF AsOf
      <4>2. x \in Nat
        BY <2>t, <3>2
      <4> HIDE DEF x
      <4>3. now - x < VoucherTtl + RequestTimeout
        BY <2>n, <2>4, <4>1, <4>2
      <4> QED
        BY <4>3 DEF Way!Recent, x
    <3> QED
      BY <2>t, <3>1, <3>2
  <2>6. expires = Never \/ now < expires + RequestTimeout
    <3>1. CASE expires \in Nat /\ voucher.until <= expires
      BY <2>n, <2>4, <3>1
    <3> QED
      BY <2>3, <2>t, <3>1
  <2>7. Trusts(r)
    BY <1>1, <2>2, <2>5, <2>6 DEF Trusts, Way!Passes
  <2> QED
    BY <1>1, <2>2, <2>7, CachesRest, OthersTrust
<1>3. CASE Way!Goes(r, "introspect")
  BY <1>1, <1>3, AskTrusts DEF Way!Calls
<1>4. CASE Way!Ends(r)
  BY <1>1, <1>4, LeaveTrusts
<1> QED
  BY <1>2, <1>3, <1>4 DEF Way!Introspect

(* The state of an API key that was asked for.                             *)
LEMMA VouchTrusts ==
    ASSUME Way!RequestAssumption, WayInv, NEW r \in Requests, Way!Vouch(r)
    PROVE  WayInv' /\ Way!TrustsRecently
<1> DEFINE a == req[r].answer
           until == IF expires = Never \/ expires > now + VoucherTtl
                    THEN now + VoucherTtl ELSE expires
<1>1. /\ req[r].pc = "introspected"
      /\ UNCHANGED <<now, Way!world, keys, fetchedAt, route>>
      /\ voucher' = IF until > now THEN [until |-> until, answer |-> a] ELSE voucher
  BY DEF Way!Vouch, Way!keyCache
<1>2. /\ now \in Nat /\ RequestTimeout \in Nat /\ VoucherTtl \in Nat /\ VoucherTtl > 0
      /\ RequestTimeout > 0
  BY Spans DEF WayInv, WorldOK
<1>t. expires \in Nat \cup {Never} /\ gone["api key"] \in Nat \cup {Never}
  BY DEF WayInv, WorldOK, Way!Facts
<1>s. req[r].since \in Nat /\ now <= req[r].since + RequestTimeout
  BY <1>1 DEF WayInv, RequestsOK, ReqRec, Told
<1>3. /\ a \subseteq Way!Facts
      /\ \A f \in a : AsOf(gone, f, req[r].since)
      /\ a # {} => "api key" \in a /\ (expires = Never \/ req[r].since < expires)
  BY <1>1 DEF WayInv, RequestsOK, ReqRec, Told, Came
<1>4. \A f \in a : gone[f] \in Nat \cup {Never}
  BY <1>3 DEF WayInv, WorldOK
<1>5. /\ until \in Int /\ until <= now + VoucherTtl
      /\ expires = Never \/ until <= expires
  <2>1. CASE expires = Never
    <3>1. until = now + VoucherTtl
      BY <2>1
    <3> HIDE DEF until
    <3> QED
      BY <1>2, <2>1, <3>1
  <2>2. CASE expires # Never /\ expires \in Nat
    <3>1. until = IF expires > now + VoucherTtl THEN now + VoucherTtl ELSE expires
      BY <2>2
    <3> HIDE DEF until
    <3> QED
      BY <1>2, <2>2, <3>1
  <2> QED
    BY <1>t, <2>1, <2>2
<1> HIDE DEF a, until
<1>6. ASSUME NEW f \in a PROVE AsOf(gone, f, until - VoucherTtl - RequestTimeout)
  <2>1. CASE gone[f] = Never
    BY <2>1 DEF AsOf
  <2>2. CASE gone[f] # Never
    <3>1. gone[f] \in Nat /\ gone[f] >= req[r].since
      BY <1>3, <1>4, <2>2 DEF AsOf
    <3>2. until \in Int /\ until <= now + VoucherTtl
      BY <1>5
    <3>3. gone[f] >= until - VoucherTtl - RequestTimeout
      BY <1>2, <1>s, <3>1, <3>2
    <3> QED
      BY <3>3 DEF AsOf
  <2> QED
    BY <2>1, <2>2
<1>7. VoucherOK(voucher', now, gone, expires)
  <2>1. CASE voucher' = [until |-> until, answer |-> a]
    BY <2>1, <1>3, <1>5, <1>6 DEF VoucherOK, EntryOK, Entry
  <2>2. CASE voucher' = voucher
    BY <2>2 DEF WayInv
  <2> QED
    BY <1>1, <2>1, <2>2
<1>8. CASE a # {} /\ Way!Goes(r, Way!AfterGate)
  <2>1. Way!AfterGate \in Phases \ Came
    BY NextPhase DEF Phases, Came
  <2>2. /\ RequestsOK(req', now, gone, expires)
        /\ \A q \in Requests \ {r} : req'[q] = req[q]
    BY <1>1, <1>8, <2>1, OnItsWay
  <2>3. Way!Recent("api key", VoucherTtl)
    <3>1. CASE gone["api key"] = Never
      BY <3>1 DEF Way!Recent
    <3>2. CASE gone["api key"] # Never
      <4> DEFINE x == gone["api key"]
      <4>1. x \in Nat /\ x >= req[r].since
        BY <1>t, <1>3, <1>8, <3>2 DEF AsOf
      <4> HIDE DEF x
      <4>2. now - x < VoucherTtl + RequestTimeout
        BY <1>2, <1>s, <4>1
      <4> QED
        BY <4>2 DEF Way!Recent, x
    <3> QED
      BY <3>1, <3>2
  <2>4. expires = Never \/ now < expires + RequestTimeout
    <3>1. CASE expires \in Nat /\ req[r].since < expires
      BY <1>2, <1>s, <3>1
    <3> QED
      BY <1>t, <1>3, <1>8, <3>1
  <2>5. Trusts(r)
    BY <1>1, <2>3, <2>4 DEF Trusts, Way!Passes
  <2>6. WayInv'
    BY <1>1, <1>7, <2>2, Zenon DEF WayInv, WorldOK, Way!world
  <2> QED
    BY <2>2, <2>5, <2>6, OthersTrust
<1>9. CASE Way!Ends(r)
  <2>1. /\ RequestsOK(req', now, gone, expires) /\ req'[r].pc = "off"
        /\ \A q \in Requests \ {r} : req'[q] = req[q]
    BY <1>9, AtItsEnd
  <2>2. WayInv'
    BY <1>1, <1>7, <2>1, Zenon DEF WayInv, WorldOK, Way!world
  <2> QED
    BY <2>1, <2>2, StaysTrusts, OthersTrust
<1> QED
  BY <1>8, <1>9 DEF Way!Vouch, a

(* The region that is cached.                                              *)
LEMMA ResolveTrusts ==
    ASSUME Way!RequestAssumption, WayInv, NEW r \in Requests, Way!Resolve(r)
    PROVE  WayInv' /\ Way!TrustsRecently
<1>1. req[r].pc = "route" /\ UNCHANGED <<now, Way!world, keys, fetchedAt, voucher>>
  BY DEF Way!Resolve, Way!keyCache
<1>2. CASE route.until > now /\ Way!Goes(r, "leased") /\ UNCHANGED route
  <2>1. "leased" \in Phases \ Came
    BY DEF Phases, Came
  <2>2. /\ RequestsOK(req', now, gone, expires) /\ req'[r].pc = "leased"
        /\ \A q \in Requests \ {r} : req'[q] = req[q]
    BY <1>1, <1>2, <2>1, OnItsWay
  <2>3. ASSUME NEW place \in route.answer PROVE Way!Recent(place, RouteTtl)
    <3>1. /\ route.until \in Int /\ place \in Way!Facts
          /\ AsOf(gone, place, route.until - RouteTtl - RequestTimeout)
      BY DEF WayInv, EntryOK, Entry
    <3>2. /\ now \in Nat /\ RouteTtl \in Nat /\ RequestTimeout \in Nat
          /\ gone[place] \in Nat \cup {Never}
      BY <3>1, Spans DEF WayInv, WorldOK
    <3> QED
      BY <1>2, <3>1, <3>2 DEF Way!Recent, AsOf
  <2>4. Trusts(r)
    BY <1>1, <1>2, <2>2, <2>3 DEF Trusts, Way!Passes
  <2> QED
    BY <1>1, <1>2, <2>2, <2>4, CachesRest, OthersTrust
<1>3. CASE Way!Goes(r, "discover") /\ route' = Way!NoEntry
  BY <1>1, <1>3, AskTrusts DEF Way!Calls
<1> QED
  BY <1>2, <1>3 DEF Way!Resolve

(* The region that was asked for.                                          *)
LEMMA StoreRouteTrusts ==
    ASSUME Way!RequestAssumption, WayInv, NEW r \in Requests, Way!StoreRoute(r)
    PROVE  WayInv' /\ Way!TrustsRecently
<1> DEFINE a == req[r].answer
<1>1. /\ req[r].pc = "discovered"
      /\ UNCHANGED <<now, Way!world, keys, fetchedAt, voucher>>
      /\ route' = [until |-> now + RouteTtl, answer |-> a] /\ Way!Goes(r, "leased")
  BY DEF Way!StoreRoute, Way!keyCache
<1>2. /\ now \in Nat /\ RequestTimeout \in Nat /\ RouteTtl \in Nat /\ RouteTtl > 0
  BY Spans DEF WayInv, WorldOK
<1>3. /\ a \subseteq Way!Facts /\ req[r].since \in Nat
      /\ now <= req[r].since + RequestTimeout
      /\ \A f \in a : AsOf(gone, f, req[r].since)
  BY <1>1 DEF WayInv, RequestsOK, ReqRec, Told, Came
<1>4. \A f \in a : gone[f] \in Nat \cup {Never}
  BY <1>3 DEF WayInv, WorldOK
<1> HIDE DEF a
<1>5. \A f \in a : /\ AsOf(gone, f, now + RouteTtl - RouteTtl - RequestTimeout)
                   /\ Way!Recent(f, RouteTtl)
  BY <1>2, <1>3, <1>4 DEF AsOf, Way!Recent
<1>6. EntryOK(route', RouteTtl, now, gone)
  BY <1>1, <1>2, <1>3, <1>5 DEF EntryOK, Entry
<1>7. "leased" \in Phases \ Came
  BY DEF Phases, Came
<1>8. /\ RequestsOK(req', now, gone, expires)
      /\ \A q \in Requests \ {r} : req'[q] = req[q]
  BY <1>1, <1>7, OnItsWay
<1>9. Trusts(r)
  BY <1>1, <1>5 DEF Trusts, Way!Passes
<1>10. WayInv'
  BY <1>1, <1>6, <1>8, Zenon DEF WayInv, WorldOK, Way!world
<1> QED
  BY <1>8, <1>9, <1>10, OthersTrust

(* The invariant holds at first.                                           *)
LEMMA WayInit == Way!RequestAssumption /\ Way!Init => WayInv
<1> SUFFICES ASSUME Way!RequestAssumption, Way!Init PROVE WayInv
  OBVIOUS
<1>1. /\ now = 0 /\ published = {"k1"} /\ revoked = FALSE /\ region = "r1"
      /\ expires \in {Never, 2} /\ gone = [f \in Way!Facts |-> Never]
      /\ req = [q \in Requests |-> Way!Idle] /\ keys = {} /\ fetchedAt = 0
      /\ voucher = Way!NoEntry /\ route = Way!NoEntry
  BY DEF Way!Init
<1>2. WorldOK
  <2>1. \A f \in Way!Facts : gone[f] = Never
    BY <1>1
  <2>2. gone \in [Way!Facts -> Nat \cup {Never}]
    BY <1>1
  <2>3. now \in Nat /\ expires \in Nat \cup {Never}
    BY <1>1
  <2>4. {"k1", "k2", "r1", "r2", "api key"} \subseteq Way!Facts
    BY DEF Way!Facts, Way!Kids, Way!Regions
  <2> QED
    BY <1>1, <2>1, <2>2, <2>3, <2>4 DEF WorldOK, Way!Kids, Way!Regions
<1>3. Way!Idle \in ReqRec /\ Way!Idle.pc = "off"
  BY DEF Way!Idle, ReqRec, Phases, Way!Kids
<1> HIDE DEF Way!Idle
<1>4. RequestsOK(req, now, gone, expires)
  BY <1>1, <1>3 DEF RequestsOK, Told, Came
<1>5. Way!NoEntry \in Entry /\ Way!NoEntry.until = 0 /\ Way!NoEntry.answer = {}
  BY DEF Way!NoEntry, Entry
<1> HIDE DEF Way!NoEntry
<1>6. KeysOK(keys, fetchedAt, now, gone)
  BY <1>1 DEF KeysOK
<1>7. 0 + VoucherTtl \in Nat /\ 0 + RouteTtl \in Nat
  BY Spans
<1>8. VoucherOK(voucher, now, gone, expires) /\ EntryOK(route, RouteTtl, now, gone)
  BY <1>1, <1>5, <1>7 DEF VoucherOK, EntryOK
<1> QED
  BY <1>2, <1>4, <1>6, <1>8 DEF WayInv

(* Every step keeps it, and trusts what the property allows.               *)
LEMMA WayMoves ==
    ASSUME Way!RequestAssumption, WayInv, Way!Next
    PROVE  WayInv' /\ Way!TrustsRecently
<1>1. ASSUME NEW r \in Requests, Way!Serve(r) \/ Way!CallFails(r) \/ Way!TimesOut(r)
      PROVE  WayInv' /\ Way!TrustsRecently
  BY <1>1, LeaveTrusts DEF Way!Serve, Way!CallFails, Way!TimesOut, Way!keyCache
<1>2. CASE Way!Tick \/ Way!WorldChanges
  <2>1. WayInv'
    BY <1>2, TimePasses, WorldMoves
  <2>2. req' = req
    BY <1>2 DEF Way!Tick, Way!WorldChanges
  <2> QED
    BY <2>1, <2>2, StaysTrusts DEF Way!TrustsRecently, Trusts
<1> QED
  BY <1>1, <1>2, ArriveTrusts, GetKeyTrusts, AnswerTrusts, RefreshTrusts,
     IntrospectTrusts,
     VouchTrusts, ResolveTrusts, StoreRouteTrusts DEF Way!Next, Way!Advance

(* So does a step that does nothing.                                       *)
LEMMA WayRests == ASSUME WayInv, UNCHANGED Way!vars PROVE WayInv'
BY Zenon DEF WayInv, WorldOK, Way!vars

(* The bounds are numbers.                                                 *)
LEMMA Bounds ==
    ASSUME Way!RequestAssumption
    PROVE  /\ MaxNow \in Nat /\ MaxArrivals \in Nat /\ KeyCooldown \in Nat
           /\ VoucherTtl \in Nat /\ RouteTtl \in Nat
BY DEF Way!RequestAssumption

(* The requests and the answers, in time.                                  *)
BoundedReq == [pc : Phases, kid : Way!Kids, since : Way!Times, answer : SUBSET Way!Facts]
BoundedEntry == [until : 0..MaxNow + RouteTtl + VoucherTtl, answer : SUBSET Way!Facts]

(* The two ways in which a request changes.                                *)
LEMMA BoundedMoves ==
    ASSUME Way!RequestAssumption, req \in [Requests -> BoundedReq], NEW r \in Requests
    PROVE  /\ Way!Ends(r) => req' \in [Requests -> BoundedReq]
           /\ \A p \in Phases : Way!Goes(r, p) => req' \in [Requests -> BoundedReq]
<1>1. Way!Idle \in BoundedReq
  BY Bounds DEF Way!Idle, BoundedReq, Phases, Way!Kids, Way!Times
<1>2. ASSUME NEW p \in Phases, Way!Goes(r, p) PROVE req' \in [Requests -> BoundedReq]
  <2>1. PICK e \in BoundedReq : e = req[r]
    OBVIOUS
  <2>2. [e EXCEPT !.pc = p, !.answer = {}] \in BoundedReq
    BY DEF BoundedReq
  <2>3. req' = [req EXCEPT ![r] = [e EXCEPT !.pc = p, !.answer = {}]]
    BY <1>2, <2>1 DEF Way!Goes
  <2> HIDE DEF BoundedReq
  <2> QED
    BY <2>2, <2>3
<1>3. ASSUME Way!Ends(r) PROVE req' \in [Requests -> BoundedReq]
  BY <1>1, <1>3 DEF Way!Ends
<1> QED
  BY <1>2, <1>3

(* Where a request may go.                                                 *)
LEMMA PhasesAre ==
    /\ Way!AfterKey \in Phases /\ Way!AfterGate \in Phases /\ Way!First \in Phases
    /\ Way!Calls \subseteq Phases /\ "leased" \in Phases
BY DEF Way!AfterKey, Way!AfterGate, Way!First, Phases, Way!Calls

(* The types.                                                              *)
WayTyped ==
    /\ now \in Way!Times
    /\ published \subseteq Way!Kids /\ revoked \in BOOLEAN /\ region \in Way!Regions
    /\ gone \in [Way!Facts -> Way!Times \cup {Never}]
    /\ req \in [Requests -> BoundedReq]
    /\ keys \subseteq Way!Kids /\ fetchedAt \in Way!Times
    /\ lastAttempt \in -KeyCooldown..MaxNow
    /\ {jwksLock, gate} \subseteq Requests \cup {Nobody}
    /\ {voucher, route} \subseteq BoundedEntry
    /\ arrivals \in 0..MaxArrivals
    /\ cold \in Cold /\ expires \in {Never, 2}

(* The type invariant, as its parts are used here.                         *)
LEMMA TypedIs == Way!TypeOK <=> WayTyped
BY DEF Way!TypeOK, WayTyped, BoundedReq, BoundedEntry, Phases

(* An answer that is kept has its type.                                    *)
LEMMA KeptEntry ==
    ASSUME Way!RequestAssumption, WayTyped, NEW a \in SUBSET Way!Facts, NEW until \in Int,
           until > now, until <= now + RouteTtl \/ until <= now + VoucherTtl
    PROVE  [until |-> until, answer |-> a] \in BoundedEntry
<1>1. now \in 0..MaxNow
  BY DEF WayTyped, Way!Times
<1>2. until \in 0..MaxNow + RouteTtl + VoucherTtl
  BY <1>1, Bounds
<1> QED
  BY <1>2 DEF BoundedEntry

(* Every step keeps the types: a key that is kept is a signing key because *)
(* of the invariant.                                                       *)
LEMMA WayTypes ==
    ASSUME Way!RequestAssumption, WayTyped, WayInv, Way!Next
    PROVE  WayTyped'
<1>n. now \in Nat /\ now \in Way!Times /\ now <= MaxNow
  BY Bounds DEF WayTyped, Way!Times
<1>m. now \in -KeyCooldown..MaxNow
  BY <1>n, Bounds
<1>q. req \in [Requests -> BoundedReq]
  BY DEF WayTyped
<1>a. ASSUME NEW r \in Requests PROVE req[r].answer \subseteq Way!Facts
  BY <1>q DEF BoundedReq
<1>1. ASSUME NEW r \in Requests, Way!Arrive(r) PROVE WayTyped'
  <2>1. PICK kid \in Way!Kids :
          req' = [req EXCEPT ![r] =
              [Way!Idle EXCEPT !.kid = kid, !.since = now,
                  !.pc =
                      Entering(kid)]]
    BY <1>1 DEF Way!Arrive, Way!Kids, Entering
  <2> DEFINE p == Entering(kid)
             e == [Way!Idle EXCEPT !.kid = kid, !.since = now, !.pc = p]
  <2>2. p \in Phases
    BY PhasesAre DEF Entering
  <2> HIDE DEF p
  <2>3. e \in BoundedReq
    BY <2>2, <1>n DEF BoundedReq, Way!Idle
  <2>4. req' = [req EXCEPT ![r] = e]
    BY <2>1 DEF p
  <2> HIDE DEF e
  <2>5. req' \in [Requests -> BoundedReq]
    BY <1>q, <2>3, <2>4
  <2>6. arrivals' \in 0..MaxArrivals
    BY <1>1, Bounds DEF Way!Arrive, WayTyped
  <2> QED
    BY <1>1, <2>5, <2>6, Zenon DEF Way!Arrive, WayTyped, Way!world, Way!keyCache
<1>2. ASSUME NEW r \in Requests, Way!GetKey(r) PROVE WayTyped'
  <2>1. req' \in [Requests -> BoundedReq]
    BY <1>2, <1>q, PhasesAre, BoundedMoves DEF Way!GetKey, Way!Calls
  <2>2. lastAttempt' \in -KeyCooldown..MaxNow /\ jwksLock' \in Requests \cup {Nobody}
    BY <1>2, <1>m DEF Way!GetKey, WayTyped
  <2> QED
    BY <1>2, <2>1, <2>2 DEF Way!GetKey, WayTyped, Way!world
<1>3. ASSUME NEW r \in Requests, Way!Answer(r) PROVE WayTyped'
  <2>1. PICK p \in Came, a \in SUBSET Way!Facts :
           req' = [req EXCEPT ![r].pc = p, ![r].answer = a]
    BY <1>3 DEF Way!Answer, Came, WayTyped, Way!Facts
  <2>2. PICK e \in BoundedReq : e = req[r]
    BY <1>q
  <2>3. [e EXCEPT !.pc = p, !.answer = a] \in BoundedReq
    BY DEF BoundedReq, Came, Phases
  <2>4. req' = [req EXCEPT ![r] = [e EXCEPT !.pc = p, !.answer = a]]
    BY <2>1, <2>2
  <2>5. req' \in [Requests -> BoundedReq]
    BY <1>q, <2>3, <2>4, Zenon
  <2> QED
    BY <1>3, <2>5, Zenon DEF Way!Answer, WayTyped, Way!world, Way!keyCache
<1>4. ASSUME NEW r \in Requests, Way!RefreshKeys(r) PROVE WayTyped'
  <2>1. req' \in [Requests -> BoundedReq]
    BY <1>4, <1>q, PhasesAre, BoundedMoves DEF Way!RefreshKeys
  <2>2. keys' \subseteq Way!Kids
    BY <1>4 DEF Way!RefreshKeys, WayInv, RequestsOK, Told, Came
  <2> QED
    BY <1>4, <1>n, <2>1, <2>2 DEF Way!RefreshKeys, WayTyped, Way!world
<1>5. ASSUME NEW r \in Requests, Way!Introspect(r) PROVE WayTyped'
  <2>1. req' \in [Requests -> BoundedReq]
    BY <1>5, <1>q, PhasesAre, BoundedMoves DEF Way!Introspect, Way!Calls
  <2> QED
    BY <1>5, <2>1 DEF Way!Introspect, WayTyped, Way!world, Way!keyCache
<1>6. ASSUME NEW r \in Requests, Way!Vouch(r) PROVE WayTyped'
  <2>1. req' \in [Requests -> BoundedReq]
    BY <1>6, <1>q, PhasesAre, BoundedMoves DEF Way!Vouch
  <2> DEFINE until == IF expires = Never \/ expires > now + VoucherTtl
                      THEN now + VoucherTtl ELSE expires
  <2>2. until \in Int /\ until <= now + VoucherTtl
    <3>1. CASE expires = Never
      BY <3>1, <1>n, Bounds
    <3>2. CASE expires = 2
      BY <3>2, <1>n, Bounds
    <3> QED
      BY <3>1, <3>2 DEF WayTyped
  <2>3. voucher' = IF until > now THEN [until |-> until, answer |-> req[r].answer]
                   ELSE voucher
    BY <1>6 DEF Way!Vouch
  <2> HIDE DEF until
  <2>4. voucher' \in BoundedEntry
    BY <1>a, <2>2, <2>3, KeptEntry DEF WayTyped
  <2> QED
    BY <1>6, <2>1, <2>4 DEF Way!Vouch, WayTyped, Way!world, Way!keyCache
<1>7. ASSUME NEW r \in Requests, Way!Resolve(r) PROVE WayTyped'
  <2>1. req' \in [Requests -> BoundedReq]
    BY <1>7, <1>q, PhasesAre, BoundedMoves DEF Way!Resolve, Way!Calls
  <2>2. Way!NoEntry \in BoundedEntry
    BY Bounds DEF Way!NoEntry, BoundedEntry
  <2> QED
    BY <1>7, <2>1, <2>2 DEF Way!Resolve, WayTyped, Way!world, Way!keyCache
<1>8. ASSUME NEW r \in Requests, Way!StoreRoute(r) PROVE WayTyped'
  <2>1. req' \in [Requests -> BoundedReq]
    BY <1>8, <1>q, PhasesAre, BoundedMoves DEF Way!StoreRoute
  <2>2. now + RouteTtl \in Int /\ now + RouteTtl > now
    BY <1>n, Spans
  <2>3. route' \in BoundedEntry
    BY <1>8, <1>a, <2>2, KeptEntry DEF Way!StoreRoute
  <2> QED
    BY <1>8, <2>1, <2>3 DEF Way!StoreRoute, WayTyped, Way!world, Way!keyCache
<1>9. ASSUME NEW r \in Requests,
    Way!Serve(r) \/ Way!CallFails(r) \/ Way!TimesOut(r) PROVE WayTyped'
  <2>1. req' \in [Requests -> BoundedReq]
    BY <1>9, <1>q, BoundedMoves DEF Way!Serve, Way!CallFails, Way!TimesOut
  <2> QED
    BY <1>9, <2>1 DEF Way!Serve, Way!CallFails, Way!TimesOut, Way!Release, WayTyped,
       Way!world, Way!keyCache
<1>10. CASE Way!WorldChanges
  <2>1. /\ gone' \in [Way!Facts -> Way!Times \cup {Never}]
        /\ published' \subseteq Way!Kids /\ revoked' \in BOOLEAN
        /\ region' \in Way!Regions
    BY <1>10, <1>n DEF Way!WorldChanges, WayTyped, Way!Kids, Way!Regions
  <2> QED
    BY <1>10, <2>1, Zenon DEF Way!WorldChanges, WayTyped, Way!keyCache
<1>11. CASE Way!Tick
  <2>1. now' \in Way!Times
    BY <1>11, <1>n, Bounds DEF Way!Tick, Way!Times
  <2> QED
    BY <1>11, <2>1, Zenon DEF Way!Tick, WayTyped, Way!world, Way!keyCache
<1> QED
  BY <1>1, <1>2, <1>3, <1>4, <1>5, <1>6, <1>7, <1>8, <1>9, <1>10, <1>11 DEF Way!Next,
     Way!Advance

(* So does a step that does nothing.                                       *)
LEMMA WayTypesRest == ASSUME WayTyped, UNCHANGED Way!vars PROVE WayTyped'
BY Zenon DEF WayTyped, Way!vars

(* The initial values have their types.                                    *)
LEMMA WayTypesInit == ASSUME Way!RequestAssumption, Way!Init PROVE WayTyped
<1>1. 0 \in Way!Times /\ -KeyCooldown \in -KeyCooldown..MaxNow /\ 0 \in 0..MaxArrivals
  BY Bounds DEF Way!Times
<1>2. Way!Idle \in BoundedReq /\ Way!NoEntry \in BoundedEntry
  BY <1>1, Bounds DEF Way!Idle, Way!NoEntry, BoundedReq, BoundedEntry, Phases, Way!Kids
<1> QED
  BY <1>1, <1>2 DEF Way!Init, WayTyped, Way!Kids, Way!Regions

(***************************************************************************)
(* The run                                                                 *)
(***************************************************************************)

(* A step of the run is one of each half, or leaves its variables alone.   *)
LEMMA CloudMoves ==
    ASSUME [CloudNext]_cloudVars
    PROVE  [Next]_vars /\ [Way!Next]_(Way!vars)
BY DEF CloudNext, cloudVars, PoolStep, WayStep, poolVars, wayVars, vars, tvars, cvars,
   Way!vars

(* The variables of the pool and of the way keep their types.              *)
THEOREM CloudTypesHold == CloudSpec => []TypesOK
<1> DEFINE Inv == IInv /\ WayInv /\ WayTyped
<1>1. CloudInit => Inv
  BY CloudAssumption, InitIInv, WayInit, WayTypesInit DEF CloudInit
<1>2. Inv /\ [CloudNext]_cloudVars => Inv'
  <2> SUFFICES ASSUME Inv, [CloudNext]_cloudVars PROVE Inv'
    OBVIOUS
  <2>1. IInv'
    BY CloudMoves, NextKeeps
  <2>2. WayInv' /\ WayTyped'
    BY CloudAssumption, CloudMoves, WayMoves, WayRests, WayTypes, WayTypesRest
  <2> QED
    BY <2>1, <2>2
<1>3. Inv => TypesOK
  BY TypedIs DEF IInv, TypesOK
<1> QED
  BY <1>1, <1>2, <1>3, PTL DEF CloudSpec

(* A retired signing key, a deleted or expired API key and a region that   *)
(* the tenant has left are trusted no longer than their cache keeps them   *)
(* and a request may wait (JwksCache, ServiceTokenIntrospector._introspect *)
(* and DiscoveryRouter.resolve).                                           *)
THEOREM TrustAlwaysRecent == CloudSpec => TrustIsRecent
<1>1. CloudInit => WayInv
  BY CloudAssumption, WayInit DEF CloudInit
<1>2. WayInv /\ [CloudNext]_cloudVars => WayInv' /\ [Way!TrustsRecently]_(Way!vars)
  BY CloudAssumption, CloudMoves, WayMoves, WayRests
<1> QED
  BY <1>1, <1>2, PTL DEF CloudSpec, TrustIsRecent, Way!TrustIsRecent
=============================================================================
