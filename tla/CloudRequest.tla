---------------------------- MODULE CloudRequest ----------------------------
(***************************************************************************)
(* The way of a request through the hosted server, up to the client it     *)
(* borrows: signing key, revocation of an API key, region of the tenant.   *)
(*                                                                         *)
(* Each of the three answers comes from the control plane and is cached,   *)
(* and each cache is filled in its own way: the signing keys under one     *)
(* lock and a cooldown, the state of an API key behind a gate of its own,  *)
(* the region by whoever misses it.  Requests overlap, one action runs     *)
(* from one await to the next, a request may be cancelled at any of them,  *)
(* and the control plane answers at some moment between the question and   *)
(* the arrival of the answer.                                              *)
(***************************************************************************)
EXTENDS Integers, FiniteSets

CONSTANTS
    Requests,       \* requests that can overlap
    Nobody,         \* no request
    Never,          \* no time
    KeyTtl,         \* settings.jwks_cache_seconds
    KeyCooldown,    \* settings.jwks_refresh_cooldown_seconds
    VoucherTtl,     \* settings.introspection_cache_seconds
    RouteTtl,       \* settings.discovery_cache_seconds
    RequestTimeout, \* settings.request_timeout_seconds
    MaxNow,         \* bound: length of a behaviour in time
    MaxArrivals,    \* bound: requests that arrive
    Cold,           \* bound: the sets of caches that behaviours start without
    MaxGone         \* bound: facts that cease to hold

(* What a run may give the constants; the module of the run assumes it.    *)
RequestAssumption ==
    /\ Nobody \notin Requests /\ Never \notin Int
    /\ {KeyTtl, VoucherTtl, RouteTtl, RequestTimeout, MaxNow,
        MaxArrivals, MaxGone} \subseteq Nat \ {0}
    /\ KeyCooldown \in Nat
    /\ Cold \subseteq SUBSET {"key", "gate", "route"}

VARIABLES
    cold,           \* caches that are empty at first; the others answer throughout
    now,            \* time.monotonic()
    published,      \* signing keys that the control plane publishes
    revoked,        \* whether the API key was deleted in the dashboard
    expires,        \* when the API key expires
    region,         \* where the tenant is served
    gone,           \* ghost: when each fact of the control plane ceased to hold
    req,            \* the requests
    keys,           \* JwksCache._keys
    fetchedAt,      \* JwksCache._fetched_at
    lastAttempt,    \* JwksCache._last_attempt
    jwksLock,       \* holder of JwksCache._lock
    voucher,        \* ServiceTokenIntrospector._cache, of the one API key
    gate,           \* holder of the gate of that key
    route,          \* DiscoveryRouter._cache, of the one tenant
    arrivals        \* number of requests so far

world == <<cold, published, revoked, expires, region, gone>>
keyCache == <<keys, fetchedAt, lastAttempt, jwksLock>>
vars == <<cold, now, published, revoked, expires, region, gone, req, keys, fetchedAt,
          lastAttempt, jwksLock, voucher, gate, route, arrivals>>

Kids == {"k1", "k2"}
Regions == {"r1", "r2"}
Facts == Kids \cup Regions \cup {"api key"}
Calls == {"fetch", "introspect", "discover"}
Idle == [pc |-> "off", kid |-> "k1", since |-> 0, answer |-> {}]
NoEntry == [until |-> 0, answer |-> {}]

Goes(r, pc) == req' = [req EXCEPT ![r].pc = pc, ![r].answer = {}]
Ends(r) == req' = [req EXCEPT ![r] = Idle]

Fresh == now - fetchedAt < KeyTtl
Active == ~revoked /\ (expires = Never \/ now < expires)

(* What a request asks next: the caches that are not cold have its answer. *)
AfterGate == IF "route" \in cold THEN "route" ELSE "leased"
AfterKey == IF "gate" \in cold THEN "gate" ELSE AfterGate
First == IF "key" \in cold THEN "key" ELSE AfterKey

-----------------------------------------------------------------------------
Init ==
    /\ cold \in Cold /\ now = 0
    /\ published = {"k1"} /\ revoked = FALSE /\ region = "r1"
    /\ expires \in IF "gate" \in cold THEN {Never, 2} ELSE {Never}
    /\ gone = [f \in Facts |-> Never]
    /\ req = [r \in Requests |-> Idle]
    /\ keys = {} /\ fetchedAt = 0 /\ lastAttempt = -KeyCooldown /\ jwksLock = Nobody
    /\ voucher = NoEntry /\ gate = Nobody /\ route = NoEntry
    /\ arrivals = 0

(* A request and its body are there, its token names a signing key.  A     *)
(* cached key is used without the lock.                                    *)
Arrive(r) ==
    /\ req[r].pc = "off" /\ arrivals < MaxArrivals
    /\ arrivals' = arrivals + 1
    /\ \E kid \in IF First = "key" THEN Kids ELSE {"k1"} :
        req' = [req EXCEPT ![r] =
            [Idle EXCEPT !.kid = kid, !.since = now,
                !.pc = IF First = "key" /\ Fresh /\ kid \in keys THEN AfterKey ELSE First]]
    /\ UNCHANGED <<now, world, keyCache, voucher, gate, route>>

(* The lock is there, and another request may have filled the cache: else  *)
(* the keys are fetched, not more often than the cooldown allows.          *)
GetKey(r) ==
    /\ req[r].pc = "key" /\ jwksLock = Nobody
    /\ \/ /\ Fresh /\ req[r].kid \in keys
          /\ Goes(r, AfterKey)
          /\ UNCHANGED <<lastAttempt, jwksLock>>
       \/ /\ ~(Fresh /\ req[r].kid \in keys)
          /\ IF now - lastAttempt >= KeyCooldown
             THEN Goes(r, "fetch") /\ jwksLock' = r /\ lastAttempt' = now
             ELSE Ends(r) /\ UNCHANGED <<lastAttempt, jwksLock>>
    /\ UNCHANGED <<now, world, keys, fetchedAt, voucher, gate, route, arrivals>>

(* The control plane answers a question as things are at this moment.      *)
Answer(r) ==
    /\ \/ /\ req[r].pc = "fetch"
          /\ req' = [req EXCEPT ![r].pc = "fetched", ![r].answer = published]
       \/ /\ req[r].pc = "introspect"
          /\ req' = [req EXCEPT ![r].pc = "introspected",
                                ![r].answer = IF Active THEN {"api key"} ELSE {}]
       \/ /\ req[r].pc = "discover"
          /\ req' = [req EXCEPT ![r].pc = "discovered", ![r].answer = {region}]
    /\ UNCHANGED <<now, world, keyCache, voucher, gate, route, arrivals>>

(* The keys arrive, and replace those that were known.                     *)
RefreshKeys(r) ==
    /\ req[r].pc = "fetched"
    /\ keys' = req[r].answer /\ fetchedAt' = now /\ jwksLock' = Nobody
    /\ IF req[r].kid \in req[r].answer THEN Goes(r, AfterKey) ELSE Ends(r)
    /\ UNCHANGED <<now, world, lastAttempt, voucher, gate, route, arrivals>>

(* The state of an API key: cached, or asked for behind its gate.          *)
Introspect(r) ==
    /\ req[r].pc = "gate" /\ gate = Nobody
    /\ IF voucher.until > now
       THEN /\ IF voucher.answer = {} THEN Ends(r) ELSE Goes(r, AfterGate)
            /\ UNCHANGED gate
       ELSE Goes(r, "introspect") /\ gate' = r
    /\ UNCHANGED <<now, world, keyCache, voucher, route, arrivals>>

(* The answer is kept for a while, never past the expiry of the key.       *)
Vouch(r) ==
    /\ req[r].pc = "introspected"
    /\ LET until == IF expires = Never \/ expires > now + VoucherTtl
                    THEN now + VoucherTtl ELSE expires
       IN voucher' = IF until > now THEN [until |-> until, answer |-> req[r].answer]
                     ELSE voucher
    /\ gate' = Nobody
    /\ IF req[r].answer = {} THEN Ends(r) ELSE Goes(r, AfterGate)
    /\ UNCHANGED <<now, world, keyCache, route, arrivals>>

(* The region of the tenant: cached, or asked for by each that misses it.  *)
Resolve(r) ==
    /\ req[r].pc = "route"
    /\ IF route.until > now
       THEN Goes(r, "leased") /\ UNCHANGED route
       ELSE Goes(r, "discover") /\ route' = NoEntry
    /\ UNCHANGED <<now, world, keyCache, voucher, gate, arrivals>>

(* The answer that arrives last is kept, whichever was given first.        *)
StoreRoute(r) ==
    /\ req[r].pc = "discovered"
    /\ route' = [until |-> now + RouteTtl, answer |-> req[r].answer]
    /\ Goes(r, "leased")
    /\ UNCHANGED <<now, world, keyCache, voucher, gate, arrivals>>

(* A client is leased and the request served.                              *)
Serve(r) ==
    /\ req[r].pc = "leased"
    /\ Ends(r)
    /\ UNCHANGED <<now, world, keyCache, voucher, gate, route, arrivals>>

Release(r) ==
    /\ jwksLock' = IF jwksLock = r THEN Nobody ELSE jwksLock
    /\ gate' = IF gate = r THEN Nobody ELSE gate

(* Mutant: a failed refresh counts as one, and the old keys stay trusted.  *)
CallFailsAsFresh(r) ==
    /\ req[r].pc \in Calls
    /\ Ends(r) /\ Release(r)
    /\ fetchedAt' = IF req[r].pc = "fetch" THEN now ELSE fetchedAt
    /\ UNCHANGED <<now, world, keys, lastAttempt, voucher, route, arrivals>>

(* No answer: the request is refused, nothing is cached or forgotten.      *)
CallFails(r) ==
    /\ req[r].pc \in Calls
    /\ Ends(r) /\ Release(r)
    /\ UNCHANGED <<now, world, keys, fetchedAt, lastAttempt, voucher, route, arrivals>>

(* Mutant: a cancelled request keeps what it holds.                        *)
TimesOutHolding(r) ==
    /\ req[r].pc # "off" /\ now - req[r].since >= RequestTimeout
    /\ Ends(r)
    /\ UNCHANGED <<now, world, keyCache, voucher, gate, route, arrivals>>

(* The request has run for too long and is cancelled where it waits.       *)
TimesOut(r) ==
    /\ req[r].pc # "off" /\ now - req[r].since >= RequestTimeout
    /\ Ends(r) /\ Release(r)
    /\ UNCHANGED <<now, world, keys, fetchedAt, lastAttempt, voucher, route, arrivals>>

(* The control plane rotates its key, and retires the old one; the API key *)
(* is deleted; the tenant moves.  What no cold cache asks about stays.     *)
WorldChanges ==
    /\ Cardinality({f \in Facts : gone[f] # Never}) < MaxGone
    /\ \/ /\ "key" \in cold /\ published # {"k2"}
          /\ published' = IF "k2" \in published THEN {"k2"} ELSE Kids
          /\ gone' = IF "k2" \in published THEN [gone EXCEPT !["k1"] = now] ELSE gone
          /\ UNCHANGED <<revoked, region>>
       \/ /\ "gate" \in cold /\ ~revoked /\ revoked' = TRUE
          /\ gone' = [gone EXCEPT !["api key"] = now]
          /\ UNCHANGED <<published, region>>
       \/ /\ "route" \in cold /\ region = "r1" /\ region' = "r2"
          /\ gone' = [gone EXCEPT !["r1"] = now]
          /\ UNCHANGED <<published, revoked>>
    /\ UNCHANGED <<cold, now, expires, req, keyCache, voucher, gate, route, arrivals>>

(* A request that runs ends by its timeout.                                *)
Tick ==
    /\ now < MaxNow
    /\ \A r \in Requests :
        req[r].pc # "off" => now - req[r].since < RequestTimeout
    /\ now' = now + 1
    /\ UNCHANGED <<world, req, keyCache, voucher, gate, route, arrivals>>

Advance(r) ==
    \/ GetKey(r) \/ Answer(r) \/ RefreshKeys(r) \/ Introspect(r) \/ Vouch(r)
    \/ Resolve(r) \/ StoreRoute(r) \/ Serve(r) \/ CallFails(r) \/ TimesOut(r)

Next ==
    \/ \E r \in Requests : Arrive(r) \/ Advance(r)
    \/ WorldChanges \/ Tick

(* Calls are answered or fail, and waiters get a lock that is free.        *)
Fairness == \A r \in Requests : WF_vars(Advance(r))

Spec == Init /\ [][Next]_vars /\ Fairness

-----------------------------------------------------------------------------
Times == 0..MaxNow
TypeOK ==
    /\ cold \in Cold /\ now \in Times
    /\ published \subseteq Kids /\ revoked \in BOOLEAN /\ expires \in {Never, 2}
    /\ region \in Regions /\ gone \in [Facts -> Times \cup {Never}]
    /\ req \in [Requests -> [pc : {"off", "key", "gate", "route", "leased", "fetched",
                                   "introspected", "discovered"} \cup Calls,
                             kid : Kids, since : Times,
                             answer : SUBSET Facts]]
    /\ keys \subseteq Kids /\ fetchedAt \in Times /\ lastAttempt \in -KeyCooldown..MaxNow
    /\ {jwksLock, gate} \subseteq Requests \cup {Nobody}
    /\ {voucher, route} \subseteq [until : 0..MaxNow + RouteTtl + VoucherTtl,
                                   answer : SUBSET Facts]
    /\ arrivals \in 0..MaxArrivals

(* A fact that has ceased to hold is relied on no longer than its cache    *)
(* keeps it and a request may wait for the answer.                         *)
Recent(fact, ttl) == gone[fact] = Never \/ now - gone[fact] < ttl + RequestTimeout
Passes(r, from, to) == req[r].pc \in from /\ req'[r].pc \in to

(* A retired signing key, a deleted API key and a region that the tenant   *)
(* has left are trusted for their cache's time and no longer (auth.py: "A  *)
(* failed refresh must never extend the trust window of retired keys"),    *)
(* whatever requests overlap, fail or are cancelled; an API key past its   *)
(* own expiry only by a request that asked before it.                      *)
TrustsRecently ==
    \A r \in Requests :
        /\ "key" \in cold /\ Passes(r, {"off", "key", "fetched"}, {AfterKey})
               => Recent(req'[r].kid, KeyTtl)
        /\ Passes(r, {"gate", "introspected"}, {AfterGate})
               => /\ Recent("api key", VoucherTtl)
                  /\ expires = Never \/ now < expires + RequestTimeout
        /\ Passes(r, {"route", "discovered"}, {"leased"})
               => \A place \in route'.answer : Recent(place, RouteTtl)

TrustIsRecent == [][TrustsRecently]_vars

(* Every request is answered: one that is cancelled or whose call fails    *)
(* leaves no lock behind that others wait for.                             *)
EveryRequestEnds == \A r \in Requests : req[r].pc # "off" ~> req[r].pc = "off"
=============================================================================
