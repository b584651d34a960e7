------------------------------- MODULE MCCloud -------------------------------
(***************************************************************************)
(* The hosted server in one run: the way of a request up to the client it  *)
(* borrows, and the pool that lends the clients.  A behaviour follows one  *)
(* of them and the other rests in one initial state: a request that has    *)
(* come through the first is one that enters the second, and neither reads *)
(* what the other keeps.                                                   *)
(***************************************************************************)
EXTENDS ClientPool, Integers

CONSTANTS Requests, Nobody, Never, KeyTtl, KeyCooldown, VoucherTtl, RouteTtl,
          RequestTimeout, MaxNow, MaxArrivals, MaxGone

VARIABLES
    live,
    cold, now, published, revoked, expires, region, gone, req, keys, fetchedAt,
    lastAttempt, jwksLock, voucher, gate, route, arrivals

(* Two callers, whose tokens carry the same token id, as after a rotation  *)
(* by an issuer that repeats it.                                           *)
Callers == {"old", "new"}
SameId == [p \in Callers |-> "jti"]
OwnToken == [p \in Callers |-> p]

(* One cache is cold at a time.                                            *)
Cold == {{"key"}, {"gate"}, {"route"}}

Way == INSTANCE CloudRequest

ASSUME CloudAssumption == Way!RequestAssumption

poolVars == <<pc, who, mine, due, pool, pos, expired, owner, leases, retired, life,
              gates, down>>
wayVars == <<cold, now, published, revoked, expires, region, gone, req, keys, fetchedAt,
             lastAttempt, jwksLock, voucher, gate, route, arrivals>>
cloudVars == <<live, poolVars, wayVars>>

CloudInit ==
    /\ Init /\ Way!Init
    /\ live \in {"pool", "way"}
    /\ live # "way" => cold = {"key"}

PoolStep(A) == live = "pool" /\ A /\ UNCHANGED <<live, wayVars>>
WayStep(A) == live = "way" /\ A /\ UNCHANGED <<live, poolVars>>

CloudNext == PoolStep(Next) \/ WayStep(Way!Next)

(* What rests has nothing enabled that fairness would ask for.             *)
CloudSpec == CloudInit /\ [][CloudNext]_cloudVars /\ Fairness /\ Way!Fairness

(* Every variable of the two modules has its type.                         *)
TypesOK == TypeOK /\ Way!TypeOK

(* What has ceased to hold is trusted for the time of its cache.           *)
TrustIsRecent == Way!TrustIsRecent

(* Nobody waits for ever: every request is answered, and a request at the  *)
(* gate of a credential gets past it.                                      *)
NobodyWaitsForever == Way!EveryRequestEnds /\ GatesOpen
=============================================================================
