------------------------------ MODULE N8nWrite ------------------------------
(***************************************************************************)
(* A write of the Kumiho node of n8n: kumihoRequest() (kumihoApi.ts) sends *)
(* it up to a number of times, and what KumihoAction.node.ts makes of a    *)
(* failure.  The service (external) may do the write and its answer be     *)
(* lost, and it answers a key it has seen as it did the first time; a      *)
(* second creation of what has a unique name is a conflict.  The key is a  *)
(* hash of the request and the execution, so that items of one execution   *)
(* with equal requests share it, and are one write.                        *)
(***************************************************************************)
EXTENDS Naturals, FiniteSets

CONSTANTS
    MaxAttempts,    \* options.maxAttempts
    MaxWrites       \* bound: items that a node is given

(* What a run may give the constants; the module of the run assumes it.    *)
WriteAssumption == {MaxAttempts, MaxWrites} \subseteq Nat \ {0}

VARIABLES
    kind,           \* what each item writes
    like,           \* of each item, the first that makes the same request
    item,           \* the item at hand
    attempt,        \* attempt of kumihoRequest, 0 between requests
    step,           \* send, answered, fallback, done, stopped
    answer,         \* of the service, or of the network
    there,          \* external: the requests whose name was taken before
    done,           \* external: how often each request was carried out
    seen,           \* external: the keys of the writes that were done
    out             \* what the node reports of each item

vars == <<kind, like, there, item, attempt, step, answer, done, seen, out>>

(* A project and a space are created without a key; they, a bundle and its *)
(* members are unique by name; the rest is not.                            *)
Kinds == {"project", "bundle", "member", "revision"}
Unique == Kinds \ {"revision"}
Items == 1..MaxWrites
NoKey == <<0, 0>>
Exists(i) == like[i] \in there \/ done[like[i]] > 0

-----------------------------------------------------------------------------
Init ==
    /\ kind \in [Items -> Kinds] /\ like \in [Items -> Items]
    /\ \A i \in Items : like[i] <= i /\ like[like[i]] = like[i] /\ kind[like[i]] = kind[i]
    /\ there \in SUBSET {i \in Items : kind[i] \in Unique /\ like[i] = i}
    /\ item = 1 /\ attempt = 1 /\ step = "send" /\ answer = "none"
    /\ done = [i \in Items |-> 0] /\ seen = {} /\ out = [i \in Items |-> "none"]

(* Mutant: each attempt has a key of its own.                              *)
KeyOfAttempt(i) == IF kind[i] = "project" THEN NoKey ELSE <<like[i], attempt>>

(* stableIdempotencyKey(): the execution and a hash of the request.        *)
Key(i) == IF kind[i] = "project" THEN NoKey ELSE <<like[i], 1>>

(* External: the service does a write that is new to it.                   *)
IsNew(i) == Key(i) \notin seen /\ ~(kind[i] \in Unique /\ Exists(i))
Does(i) ==
    /\ IsNew(i) /\ done' = [done EXCEPT ![like[i]] = @ + 1]
    /\ seen' = IF Key(i) = NoKey THEN seen ELSE seen \cup {Key(i)}
Handles(i) ==
    \/ Does(i) /\ answer' = "ok"
    \/ Key(i) \in seen /\ answer' = "ok" /\ UNCHANGED <<done, seen>>
    \/ ~IsNew(i) /\ Key(i) \notin seen /\ answer' = "conflict" /\ UNCHANGED <<done, seen>>
    \/ answer' = "refused" /\ UNCHANGED <<done, seen>>

(* What is tried again: a 500, 502, 503 or 504, a connection that breaks   *)
(* with a code kumihoRequest() knows, and any other refusal of 429 or 5xx  *)
(* or with retryable in its body.                                          *)
Transient == {"unavailable", "reset", "later"}

(* The request is sent: it is handled and answered, or handled and its     *)
(* answer lost, or it never arrives.  What breaks in another way is not    *)
(* tried again.                                                            *)
Send ==
    /\ step = "send" /\ step' = "answered"
    /\ \/ Handles(item)
       \/ answer' \in Transient \cup {"broken"} /\ (Does(item) \/ UNCHANGED <<done, seen>>)
    /\ UNCHANGED <<kind, like, there, item, attempt, out>>

(* What may pass is tried again, so long as attempts and time are left.    *)
Retry ==
    /\ step = "answered" /\ answer \in Transient /\ attempt < MaxAttempts
    /\ attempt' = attempt + 1
    /\ \/ step' = "send" /\ UNCHANGED answer
       \/ step' = "answered" /\ answer' = "out of time"
    /\ UNCHANGED <<kind, like, there, item, done, seen, out>>

Reports(what) ==
    /\ out' = [out EXCEPT ![item] = what]
    /\ IF what = "ok" /\ item < MaxWrites
       THEN item' = item + 1 /\ attempt' = 1 /\ step' = "send" /\ answer' = "none"
       ELSE step' = "done" /\ UNCHANGED <<item, attempt, answer>>
    /\ UNCHANGED <<kind, like, there, done, seen>>

Final == answer \in {"refused", "conflict", "broken", "out of time"}
            \/ (answer \in Transient /\ attempt = MaxAttempts)

(* A failed creation looks for what may have been created all the same, of *)
(* a project or space when the service was unavailable, of a bundle on a   *)
(* conflict; a member that is there already is a success.                  *)
LooksForIt == \/ kind[item] = "project" /\ answer = "unavailable"
              \/ kind[item] = "bundle" /\ answer = "conflict"

Succeed == step = "answered" /\ answer = "ok" /\ Reports("ok")
MemberIsThere ==
    step = "answered" /\ kind[item] = "member" /\ answer = "conflict" /\ Reports("ok")
LookUp ==
    /\ step = "answered" /\ Final /\ LooksForIt
    /\ step' = "fallback"
    /\ UNCHANGED <<kind, like, there, item, attempt, answer, done, seen, out>>
Found == step = "fallback" /\ Exists(item) /\ Reports("ok")
NotFound == step = "fallback" /\ Reports("error")
Fail ==
    /\ step = "answered" /\ Final /\ ~LooksForIt
    /\ ~(kind[item] = "member" /\ answer = "conflict")
    /\ Reports("error")

Next ==
    \/ Send \/ Retry \/ Succeed \/ MemberIsThere \/ LookUp \/ Found \/ NotFound \/ Fail

Spec == Init /\ [][Next]_vars

-----------------------------------------------------------------------------
TypeOK ==
    /\ kind \in [Items -> Kinds] /\ like \in [Items -> Items]
    /\ item \in Items /\ attempt \in 1..MaxAttempts
    /\ step \in {"send", "answered", "fallback", "done"}
    /\ answer \in {"none", "ok", "conflict", "refused", "unavailable", "reset",
                   "later", "broken", "out of time"}
    /\ there \subseteq Items /\ done \in [Items -> Nat] /\ seen \subseteq Items \X (1..MaxAttempts)
    /\ out \in [Items -> {"none", "ok", "error"}]

(* However many attempts it takes, whichever answer is lost and however    *)
(* many items of an execution make the same request, it is carried out     *)
(* once, and never under a name that is taken.  An item is reported as     *)
(* done only when what it asks for has been done, by its own request or by *)
(* an equal one of an earlier item, or bears a name that was there before. *)
WriteIsOnce ==
    \A i \in Items :
        /\ done[i] <= 1
        /\ out[i] = "ok" => Exists(i)
        /\ done[i] > 0 => i \notin there
=============================================================================
