------------------------------ MODULE LaunchEnv ------------------------------
(***************************************************************************)
(* The environment that one launch of the server is given: what the host   *)
(* passes on, with the project's settings merged into it, what the files   *)
(* of the user and of the plugin add (run_kumiho_mcp.py), what Codex's own *)
(* configuration makes of it (codex/scripts/run_kumiho_mcp.py), and what   *)
(* the adapter of the edition does with the result (run_kumiho_ce.py,      *)
(* run_kumiho_cloud.py).  The host is Claude Code or Codex; a launch by    *)
(* hand trusts what it is given and is left out.                           *)
(*                                                                         *)
(* An address is one on this machine ("near"), one there that names a user *)
(* and a password ("creds"), a remote one over TLS or over plain text      *)
(* ("tls", "far"), or nothing that parses ("bad").  "end" stands for all   *)
(* names of the CE server, "redis" for those of its memory, "vendor" for   *)
(* the addresses of the model vendors, "key" for their keys.  The user's   *)
(* two settings files are one, and so are the project's.                   *)
(***************************************************************************)
EXTENDS Integers

CONSTANT MaxHeard     \* bound: what is heard from all sources

LaunchAssumption == MaxHeard \in Nat

VARIABLES
    stage,      \* what the launch does next
    who,        \* the host that launches
    env,        \* what each variable is, and by whom
    named,      \* the routes that the user's settings name
    heard,      \* how much was heard from them
    client      \* what the SDK of the server talks to

vars == <<stage, who, env, named, heard, client>>

Routes == {"end", "redis", "llm", "vendor"}
Keys == Routes \cup {"mode", "token", "key"}
Users == {"os", "home", "settings"}           \* the user's own places
Checkout == {"host", "project", "plugin"}     \* what a repository may reach

Values ==
    [mode |-> {"ce", "cloud"}, end |-> {"near", "tls", "far", "bad"},
     redis |-> {"near", "creds", "far"}, llm |-> {"near", "tls", "far"},
     vendor |-> {"near", "far"}, token |-> {"given"}, key |-> {"given"}]

(* Literal templates that a host did not expand: with no default, and with *)
(* "ce" as the default.                                                    *)
Templates == {"blank", "fills"}
Local == {"near", "creds"}

Unset == [is |-> "none", by |-> "nobody"]
Is(v, src) == [is |-> v, by |-> src]
Var == [is : {"none", "ce", "cloud", "near", "creds", "tls", "far", "bad", "given",
              "dummy", "dead"} \cup Templates,
        by : Users \cup Checkout \cup {"nobody", "codex", "launcher"}]

Stages == {"host", "os", "dotenv", "project", "user", "plugin", "templates", "route",
           "llm", "adapter", "serving", "refused"}

TypeOK ==
    /\ stage \in Stages /\ who \in {"claude", "codex"}
    /\ env \in [Keys -> Var] /\ named \subseteq Routes /\ heard \in 0 .. MaxHeard
    /\ client \in {"none", "ce", "cloud", "lost", "closed"}

Init ==
    /\ stage = "host" /\ who \in {"claude", "codex"}
    /\ env = [k \in Keys |-> Unset] /\ named = {} /\ heard = 0 /\ client = "none"

-----------------------------------------------------------------------------
(* _host_config_value_allowed: what reaches beyond this machine, and a     *)
(* token, must be the user's own.                                          *)
Allowed(k, v, src) ==
    \/ src \in Users
    \/ k \in Routes /\ v \in Local
    \/ k \in {"mode", "key"}

Gap(e, k) == e[k].is \in {"none"} \cup Templates

(* Mutant: the user's settings fill gaps like every other source.          *)
TakeFirst(e, k, v, src) ==
    IF Allowed(k, v, src) /\ Gap(e, k) THEN [e EXCEPT ![k] = Is(v, src)] ELSE e

(* A source fills gaps; a route in the user's settings replaces what there *)
(* is.                                                                     *)
Take(e, k, v, src) ==
    IF /\ Allowed(k, v, src)
       /\ Gap(e, k) \/ (src = "settings" /\ k \in Routes)
    THEN [e EXCEPT ![k] = Is(v, src)] ELSE e

(* A source says nothing, or one thing.                                    *)
Hears(src, keys) ==
    \/ UNCHANGED <<env, named, heard>>
    \/ /\ heard < MaxHeard /\ heard' = heard + 1
       /\ \E k \in keys : \E v \in Values[k] :
             /\ env' = Take(env, k, v, src)
             /\ named' = IF src = "settings" THEN named \cup ({k} \cap Routes) ELSE named

Step(from, to) == stage = from /\ stage' = to /\ UNCHANGED <<who, client>>

(* The process's own environment, a template of the mode included.         *)
Inherit ==
    /\ stage = "host" /\ heard < MaxHeard /\ heard' = heard + 1
    /\ \E k \in Keys : \E v \in Values[k] \cup (IF k = "mode" THEN Templates ELSE {}) :
          env[k] = Unset /\ env' = [env EXCEPT ![k] = Is(v, "host")]
    /\ UNCHANGED <<stage, who, named, client>>

(* _clear_host_untrusted_environment, of one variable.                     *)
Kept(e, k) ==
    IF \/ k = "token" /\ who = "claude"
       \/ k \in Routes /\ ~Allowed(k, e[k].is, "host")
    THEN Unset ELSE e[k]

Clear ==
    /\ who = "claude" /\ Step("host", "os")
    /\ env' = [k \in Keys |-> Kept(env, k)]
    /\ UNCHANGED <<named, heard>>

(* Codex: its own file decides for each route but the vendors' (without    *)
(* one, its own variables do), and one that is broken, or leads beyond     *)
(* this machine, stops the launch.  What the shared launcher does with the *)
(* choice afterwards comes to the same.                                    *)
CodexCloud ==
    /\ who = "codex" /\ Step("host", "templates")
    /\ env' = [k \in Keys |-> IF k \in {"mode", "end", "redis", "llm"}
                              THEN Unset ELSE Kept(env, k)]
    /\ UNCHANGED <<named, heard>>

CodexCe(llm) ==
    /\ who = "codex" /\ Step("host", "templates")
    /\ env' = [k \in Keys |->
                  CASE k = "mode" -> Is("ce", "codex")
                    [] k \in {"end", "redis"} -> Is("near", "codex")
                    [] k = "llm" -> IF llm = "none" THEN Unset ELSE Is(llm, "codex")
                    [] k = "token" -> Unset
                    [] OTHER -> Kept(env, k)]
    /\ UNCHANGED <<named, heard>>

Refuse(from) == Step(from, "refused") /\ UNCHANGED <<env, named, heard>>
CodexRefuses == who = "codex" /\ Refuse("host")
-----------------------------------------------------------------------------
(* The environment the user has persisted: never the mode, nor a vendor's  *)
(* key.                                                                    *)
HearOs == Step("os", "dotenv") /\ Hears("os", Routes \cup {"token"})

(* .env.local beside the plugin, or else the one in the user's ~/.kumiho.  *)
HearDotenv ==
    Step("dotenv", "project") /\ (Hears("plugin", Keys) \/ Hears("home", Keys))

HearProject == Step("project", "user") /\ Hears("project", Keys \ {"key"})
HearSettings == Step("user", "plugin") /\ Hears("settings", Keys \ {"key"})
HearPlugin == Step("plugin", "templates") /\ Hears("plugin", Keys \ {"key"})

(* _sanitize_placeholder_env_vars                                          *)
Sanitize ==
    /\ Step("templates", "route")
    /\ env' = [env EXCEPT !["mode"] =
                  CASE @.is = "blank" -> Unset [] @.is = "fills" -> Is("ce", @.by)
                    [] OTHER -> @]
    /\ UNCHANGED <<named, heard>>

CeMode(e) == e["mode"].is = "ce" \/ ~Gap(e, "end")

(* An address that leaves this machine needs TLS and the user's word, and  *)
(* the one persisted is read again to tell whether it is that.             *)
EndFits(still) ==
    \/ env["end"].is \in {"none", "near", "bad"}
    \/ /\ env["end"].is = "tls"
       /\ env["end"].by = "settings" \/ (env["end"].by = "os" /\ still)

RouteCe ==
    /\ CeMode(env) /\ Step("route", "llm")
    /\ \E still \in BOOLEAN : EndFits(still)
    /\ env["redis"].is # "far"
    /\ env' = [env EXCEPT
          !["end"] = IF @.is \in {"none", "bad"} THEN Is("near", "launcher") ELSE @,
          !["redis"] = IF @.is = "none" THEN Is("near", "launcher") ELSE @,
          !["token"] = Unset]
    /\ UNCHANGED <<named, heard>>

RouteRefuses ==
    /\ CeMode(env) /\ Refuse("route")
    /\ \E still \in BOOLEAN : ~EndFits(still) \/ env["redis"].is = "far"

RouteCloud == ~CeMode(env) /\ Step("route", "llm") /\ UNCHANGED <<env, named, heard>>
-----------------------------------------------------------------------------
(* _configure_llm_fallback: what is not safe, or missing in CE, becomes an *)
(* address where nobody answers, and the keys go.                          *)
Dead(e) ==
    [e EXCEPT !["llm"] = Is("dead", "launcher"), !["key"] = Is("dummy", "launcher")]

(* Mutant: a model over TLS is as good in CE as in Cloud.                  *)
LlmSafeAnywhere(e) == e["llm"].is \in {"near", "tls"}

LlmSafe(e) == e["llm"].is = "near" \/ (e["llm"].is = "tls" /\ ~CeMode(e))

WithLlm(disabled) ==
    LET e == IF CeMode(env) THEN [env EXCEPT !["vendor"] = Unset] ELSE env
    IN  IF (e["llm"].is = "none" /\ CeMode(e)) \/ (e["llm"].is # "none" /\ ~LlmSafe(e))
        THEN Dead(e)
        ELSE IF disabled \/ e["key"].is # "none" THEN e
        ELSE IF e["llm"].is # "none" THEN [e EXCEPT !["key"] = Is("dummy", "launcher")]
        ELSE Dead(e)

ConfigureLlm ==
    /\ Step("llm", "adapter")
    /\ \E disabled \in BOOLEAN : env' = WithLlm(disabled)
    /\ UNCHANGED <<named, heard>>

-----------------------------------------------------------------------------
(* The adapter of CE has a stricter view of what is on this machine, and   *)
(* keeps its client through every later configuration.  It may fail to     *)
(* configure one at all.                                                   *)
BindCe ==
    /\ CeMode(env) /\ stage = "adapter" /\ stage' = "serving" /\ client' = "ce"
    /\ env["end"].is = "near" /\ env["redis"].is = "near"
    /\ UNCHANGED <<who, env, named, heard>>

CeRefuses == CeMode(env) /\ Refuse("adapter")

(* The adapter of Cloud drops what is left of CE, and asks the official    *)
(* control plane.                                                          *)
CloudEnv == [k \in Keys |-> IF k \in {"mode", "end", "redis"} THEN Unset ELSE env[k]]

BindCloud ==
    /\ ~CeMode(env) /\ stage = "adapter" /\ stage' = "serving" /\ client' = "cloud"
    /\ env' = CloudEnv
    /\ UNCHANGED <<who, named, heard>>

(* The server goes on without Cloud, for ever; a job does not.             *)
BindCloudFails ==
    /\ ~CeMode(env) /\ stage = "adapter" /\ env' = CloudEnv
    /\ \/ stage' = "serving" /\ client' = "closed"
       \/ stage' = "refused" /\ UNCHANGED client
    /\ UNCHANGED <<who, named, heard>>

(* Mutant: a refresh that fails leaves the client to the SDK.              *)
RefreshedOrNone == {"cloud", "none"}

(* A call of a tool discovers Cloud again.                                 *)
Refreshed == {"cloud", "lost"}

Refresh ==
    /\ stage = "serving" /\ client \in {"cloud", "lost"}
    /\ client' \in Refreshed
    /\ UNCHANGED <<stage, who, env, named, heard>>

Next ==
    \/ Inherit \/ Clear \/ CodexCloud \/ CodexRefuses
    \/ \E llm \in {"none", "near"} : CodexCe(llm)
    \/ HearOs \/ HearDotenv \/ HearProject \/ HearSettings \/ HearPlugin
    \/ Sanitize \/ RouteCe \/ RouteRefuses \/ RouteCloud \/ ConfigureLlm
    \/ BindCe \/ CeRefuses \/ BindCloud \/ BindCloudFails \/ Refresh

Spec == Init /\ [][Next]_vars

-----------------------------------------------------------------------------
(* A server of CE talks to this machine alone, without a token.            *)
CeStaysHere ==
    stage = "serving" /\ CeMode(env) =>
        /\ env["end"].is = "near" /\ env["redis"].is = "near"
        /\ env["llm"].is \in {"near", "dead"} /\ env["vendor"].is = "none"
        /\ env["token"].is = "none" /\ client = "ce"

(* A server of Cloud has no route of CE and never the SDK's own choice of  *)
(* a client, and no vendor's key meets a model over plain text.            *)
CloudStaysCloud ==
    stage = "serving" /\ ~CeMode(env) =>
        /\ env["redis"].is = "none" /\ client \in {"cloud", "lost", "closed"}
        /\ env["key"].is = "given" => env["llm"].is \in {"none", "near", "tls"}

(* What a repository says stays on this machine, a route in the user's     *)
(* settings wins over it, and Codex hears no file of Claude's.             *)
UserDecides ==
    stage = "serving" =>
        /\ \A k \in Routes : env[k].by \in Checkout => env[k].is \in Local
        /\ env["token"].by \in Checkout => who = "codex"
        /\ \A k \in named : env[k].by \in {"settings", "launcher", "nobody"}
        /\ who = "codex" =>
              \A k \in Keys : env[k].by \in {"host", "codex", "launcher", "nobody"}

(* The three, of every launch that comes to serve.                         *)
LaunchIsSafe == CeStaysHere /\ CloudStaysCloud /\ UserDecides
=============================================================================
