---------------------------- MODULE HostsProofs ----------------------------
(***************************************************************************)
(* Proofs about the run MCHosts: how a server is launched (LaunchEnv), the *)
(* guard of edits (CodexEditGuard), the reflex hooks (Reflex), the backend *)
(* that Claude serves (BackendConfig), the accounting of turns             *)
(* (CodexTurns) and the onboarding of Codex (CodexBackend).  Each has an   *)
(* inductive invariant of its own, and every step of the run is a step of  *)
(* each component or leaves its variables alone (EachMoves).               *)
(***************************************************************************)
EXTENDS MCHosts, FiniteSetTheorems, TLAPS

(* What the components may take for granted.                                *)
LEMMA Assumed ==
    /\ Claude!BackendAssumption /\ Reflexes!ReflexAssumption /\ Guard!GuardAssumption
    /\ Launch!LaunchAssumption /\ Turns!LifecycleAssumption
BY HostsAssumption DEF HostsAssumption

(***************************************************************************)
(* The launch                                                              *)
(***************************************************************************)

(* An environment that is passed on.                                        *)
EnvType == [Launch!Keys -> Launch!Var]
(* What a source says of a key.                                             *)
Sayings == {"ce", "cloud", "near", "creds", "tls", "far", "bad", "given"}

(* A checkout names only this machine, and no credentials.                  *)
Vouched(e, h) ==
    /\ \A k \in Launch!Routes : e[k].by \in Launch!Checkout => e[k].is \in Launch!Local
    /\ e["token"].by \in Launch!Checkout => h = "codex"

(* What the user's settings name is theirs, or was removed.                 *)
Heeded(e, names) == \A k \in names : e[k].by \in {"settings", "launcher", "nobody"}

(* The LLM and the credentials fit the edition.                             *)
Settled(e) ==
    /\ Launch!CeMode(e) => /\ e["llm"].is \in {"near", "dead"}
                           /\ e["vendor"].is = "none" /\ e["token"].is = "none"
    /\ ~Launch!CeMode(e) /\ e["key"].is = "given" =>
           e["llm"].is \in {"none", "near", "tls"}

(* The sources that are read before the file of the plugin.                 *)
BeforePlugin == {"os", "dotenv", "project", "user"}

(* Each variable that a source is read into has its type.                   *)
LaunchTyped ==
    /\ stage \in Launch!Stages /\ who \in {"claude", "codex"} /\ env \in EnvType
    /\ named \subseteq Launch!Routes

(* What each source may have said by now.                                   *)
Sources ==
    /\ stage \notin {"host", "refused"} => Vouched(env, who)
    /\ stage \in BeforePlugin \cup {"host"} => named = {}
    /\ Heeded(env, named)
    /\ stage = "plugin" => \A k \in named : ~Launch!Gap(env, k)
    /\ who = "codex" =>
          /\ stage \notin BeforePlugin \cup {"plugin"} /\ named = {}
          /\ \A k \in Launch!Keys : env[k].by \in {"host", "codex", "launcher", "nobody"}

(* What the launcher itself has settled by now.                             *)
Routed ==
    /\ stage = "llm" /\ Launch!CeMode(env) => env["token"].is = "none"
    /\ stage = "adapter" => Settled(env)
    /\ Launch!CeStaysHere /\ Launch!CloudStaysCloud

(* The inductive invariant of a launch.                                     *)
LaunchInv == LaunchTyped /\ Sources /\ Routed

(* A launch begins with nothing from a checkout.                            *)
LEMMA LaunchInit == Launch!Init => LaunchInv
<1> SUFFICES ASSUME Launch!Init PROVE LaunchInv
  OBVIOUS
<1>1. LaunchTyped
  BY DEF Launch!Init, LaunchTyped, EnvType, Launch!Stages, Launch!Unset, Launch!Var
<1>2. Sources
  BY DEF Launch!Init, Sources, BeforePlugin, Heeded, Launch!Unset, Launch!Gap
<1>3. Routed
  BY DEF Launch!Init, Routed, Launch!CeStaysHere, Launch!CloudStaysCloud
<1> QED
  BY <1>1, <1>2, <1>3 DEF LaunchInv

(* The invariant says that a launch is safe.                                *)
LEMMA LaunchIsGood == LaunchInv => Launch!LaunchIsSafe
BY DEF LaunchInv, LaunchTyped, Sources, Routed, Launch!LaunchIsSafe, Launch!UserDecides,
   Vouched, Heeded, Launch!Stages

(* What a source says keeps the type, and is told only if it may be.        *)
LEMMA TakeIs ==
    ASSUME NEW e \in EnvType, NEW k \in Launch!Keys, NEW v \in Sayings,
           NEW src \in Launch!Users \cup Launch!Checkout
    PROVE  /\ Launch!Take(e, k, v, src) \in EnvType
           /\ \/ Launch!Take(e, k, v, src) = e
              \/ /\ Launch!Allowed(k, v, src)
                 /\ Launch!Gap(e, k) \/ (src = "settings" /\ k \in Launch!Routes)
                 /\ Launch!Take(e, k, v, src) = [e EXCEPT ![k] = Launch!Is(v, src)]
BY DEF Launch!Take, EnvType, Launch!Is, Launch!Var, Sayings

(* A source says one of few things of a key.                                *)
LEMMA ValuesArePlain ==
    ASSUME NEW k \in Launch!Keys, NEW v \in Launch!Values[k]
    PROVE  v \in Sayings
<1>1. CASE k = "mode"   BY <1>1 DEF Launch!Values, Sayings
<1>2. CASE k = "end"    BY <1>2 DEF Launch!Values, Sayings
<1>3. CASE k = "redis"  BY <1>3 DEF Launch!Values, Sayings
<1>4. CASE k = "llm"    BY <1>4 DEF Launch!Values, Sayings
<1>5. CASE k = "vendor" BY <1>5 DEF Launch!Values, Sayings
<1>6. CASE k = "token"  BY <1>6 DEF Launch!Values, Sayings
<1>7. CASE k = "key"    BY <1>7 DEF Launch!Values, Sayings
<1> QED
  BY <1>1, <1>2, <1>3, <1>4, <1>5, <1>6, <1>7 DEF Launch!Keys, Launch!Routes

(* A source of a checkout adds nothing it may not name.                     *)
LEMMA TakeKeeps ==
    ASSUME NEW e \in EnvType, Vouched(e, "claude"), NEW k \in Launch!Keys,
           NEW v \in Sayings,
           NEW src \in Launch!Users \cup Launch!Checkout
    PROVE  Vouched(Launch!Take(e, k, v, src), "claude")
<1>1. CASE Launch!Take(e, k, v, src) = e
  BY <1>1
<1>2. CASE Launch!Allowed(k, v, src) /\
    Launch!Take(e, k, v, src) = [e EXCEPT ![k] = Launch!Is(v, src)]
  BY <1>2 DEF EnvType, Vouched, Launch!Allowed, Launch!Is, Launch!Users,
     Launch!Checkout, Launch!Routes, Launch!Local, Launch!Keys
<1> QED
  BY <1>1, <1>2, TakeIs DEF Launch!Take, Launch!Users, Launch!Checkout

(* One thing that a source says, or nothing, is taken over.                 *)
LEMMA HearKeeps ==
    ASSUME LaunchTyped, Sources, NEW src \in Launch!Users \cup Launch!Checkout,
           NEW keys \in SUBSET Launch!Keys,
           who = "claude", stage \in BeforePlugin \cup {"plugin"},
               Launch!Hears(src, keys),
           src = "settings" <=> stage = "user"
    PROVE  /\ env' \in EnvType /\ named' \subseteq Launch!Routes /\ Vouched(env', who)
           /\ Heeded(env', named')
           /\ stage # "user" => named' = named
           /\ stage = "user" => \A k \in named' : ~Launch!Gap(env', k)
<1> DEFINE Goal ==
           /\ env' \in EnvType /\ named' \subseteq Launch!Routes /\ Vouched(env', who)
           /\ Heeded(env', named')
           /\ stage # "user" => named' = named
           /\ stage = "user" => \A k \in named' : ~Launch!Gap(env', k)
<1>1. ASSUME UNCHANGED <<env, named, heard>> PROVE Goal
  BY <1>1 DEF LaunchTyped, Sources, BeforePlugin
<1>2. ASSUME NEW k \in keys,
    NEW v \in Launch!Values[k], env' = Launch!Take(env, k, v, src),
             named' = IF src = "settings" THEN named \cup ({k} \cap Launch!Routes)
                      ELSE named
      PROVE  Goal
  <2> k \in Launch!Keys
    OBVIOUS
  <2> v \in Sayings
    BY ValuesArePlain
  <2>1. env' \in EnvType
    BY <1>2, TakeIs DEF LaunchTyped
  <2>2. Vouched(env', who)
    BY <1>2, TakeKeeps DEF LaunchTyped, Sources, BeforePlugin
  <2>3. Heeded(env', named')
    <3>1. CASE stage = "user"
      BY <3>1, <1>2 DEF Launch!Take, Launch!Allowed, Launch!Users, Sources,
         BeforePlugin, LaunchTyped, EnvType, Heeded, Launch!Is
    <3>2. CASE stage \in BeforePlugin \ {"user"}
      BY <3>2, <1>2 DEF Sources, Heeded, BeforePlugin
    <3>3. CASE stage = "plugin"
      BY <3>3, <1>2 DEF Launch!Take, Sources, LaunchTyped, EnvType, Heeded, Launch!Is
    <3> QED BY <3>1, <3>2, <3>3
  <2>4. ASSUME stage = "user" PROVE \A n \in named' : ~Launch!Gap(env', n)
    BY <2>4, <1>2 DEF Launch!Take, Launch!Allowed, Launch!Users, Sources, BeforePlugin,
       LaunchTyped, EnvType, Launch!Is, Launch!Gap, Sayings, Launch!Templates
  <2>5. named' \subseteq Launch!Routes /\ (stage # "user" => named' = named)
    BY <1>2 DEF LaunchTyped
  <2> QED
    BY <2>1, <2>2, <2>3, <2>4, <2>5
<1>3. Goal
  BY <1>1, <1>2 DEF Launch!Hears
<1> QED
  BY <1>3

(* A file is read.                                                          *)
LEMMA HearStep ==
    ASSUME LaunchInv, NEW src \in Launch!Users \cup Launch!Checkout,
           NEW keys \in SUBSET Launch!Keys,
           NEW from \in BeforePlugin \cup {"plugin"},
           NEW to \in BeforePlugin \cup {"plugin", "templates"},
           Launch!Step(from, to),
               Launch!Hears(src, keys), src = "settings" <=> from = "user",
           to = "plugin" <=> from = "user", from = "plugin" => to = "templates"
    PROVE  LaunchInv'
<1>1. who = "claude"
  BY DEF LaunchInv, LaunchTyped, Sources, Launch!Step
<1>2. /\ env' \in EnvType /\ named' \subseteq Launch!Routes /\ Vouched(env', who)
      /\ Heeded(env', named')
      /\ stage # "user" => named' = named
      /\ stage = "user" => \A k \in named' : ~Launch!Gap(env', k)
  BY <1>1, HearKeeps DEF LaunchInv, Launch!Step
<1>3. LaunchTyped'
  BY <1>2 DEF LaunchInv, LaunchTyped, Launch!Step, BeforePlugin, Launch!Stages
<1>4. Sources'
  BY <1>1, <1>2 DEF LaunchInv, Sources, Launch!Step, BeforePlugin, Heeded, Vouched,
     Launch!Gap
<1>5. Routed'
  BY DEF Launch!Step, Routed, BeforePlugin, Launch!CeStaysHere, Launch!CloudStaysCloud
<1> QED
  BY <1>3, <1>4, <1>5 DEF LaunchInv

(* The environment of the host, under no control of a checkout.             *)
LEMMA InheritStep == ASSUME LaunchInv, Launch!Inherit PROVE LaunchInv'
<1>1. PICK k \in Launch!Keys :
    \E v \in Launch!Values[k] \cup (IF k = "mode" THEN Launch!Templates ELSE {}) :
          env' = [env EXCEPT ![k] = Launch!Is(v, "host")]
  BY DEF Launch!Inherit
<1>2. PICK v \in Sayings \cup Launch!Templates :
         env' = [env EXCEPT ![k] = Launch!Is(v, "host")]
  BY <1>1, ValuesArePlain
<1>3. LaunchTyped'
  BY <1>2 DEF Launch!Inherit, LaunchInv, LaunchTyped, EnvType, Launch!Is, Launch!Var,
     Sayings, Launch!Checkout
<1>4. Sources'
  BY <1>2 DEF Launch!Inherit, LaunchInv, LaunchTyped, Sources, EnvType, Launch!Is,
     Heeded, BeforePlugin
<1>5. Routed'
  BY DEF Launch!Inherit, Routed, Launch!CeStaysHere, Launch!CloudStaysCloud
<1> QED
  BY <1>3, <1>4, <1>5 DEF LaunchInv

(* A variable that came from the host is kept or goes.                      *)
LEMMA KeptIs ==
    ASSUME NEW e \in EnvType, NEW k \in Launch!Keys
    PROVE  Launch!Kept(e, k) \in {e[k], Launch!Unset} /\
        Launch!Kept(e, k) \in Launch!Var
BY DEF Launch!Kept, EnvType, Launch!Var, Launch!Unset

(* What is kept is vouched for.                                             *)
LEMMA KeptVouched ==
    ASSUME NEW e \in EnvType, NEW k \in Launch!Keys
    PROVE  /\ k \in Launch!Routes /\ Launch!Kept(e, k).by \in Launch!Checkout =>
                  Launch!Kept(e, k).is \in Launch!Local
           /\ k = "token" /\ Launch!Kept(e, k).by \in Launch!Checkout =>
                  who = "codex" \/ who # "claude"
BY DEF Launch!Kept, EnvType, Launch!Var, Launch!Unset, Launch!Allowed, Launch!Checkout,
   Launch!Routes, Launch!Users, Launch!Local

(* The launcher drops what the project may have set in the host.            *)
LEMMA ClearStep == ASSUME LaunchInv, Launch!Clear PROVE LaunchInv'
<1>1. env \in EnvType /\ env' = [k \in Launch!Keys |-> Launch!Kept(env, k)] /\
    who = "claude" /\ who' = who
  BY DEF Launch!Clear, Launch!Step, LaunchInv, LaunchTyped
<1>2. LaunchTyped'
  BY <1>1, KeptIs DEF Launch!Clear, Launch!Step, LaunchInv, LaunchTyped, EnvType,
     Launch!Stages
<1>3. Vouched(env', who')
  BY <1>1, KeptVouched DEF Vouched, Launch!Keys, Launch!Routes
<1>4. Sources'
  BY <1>1, <1>3 DEF Launch!Clear, Launch!Step, LaunchInv, Sources, BeforePlugin, Heeded
<1>5. Routed'
  BY DEF Launch!Clear, Launch!Step, Routed, Launch!CeStaysHere, Launch!CloudStaysCloud
<1> QED
  BY <1>2, <1>4, <1>5 DEF LaunchInv

(* Codex keeps what the host says of some, and sets the rest itself.        *)
LEMMA CodexEnv ==
    ASSUME LaunchInv, NEW e \in EnvType, who = "codex", stage = "host",
           Launch!Step("host", "templates"),
           UNCHANGED <<named, heard>>,
           env' = e,
           \A k \in Launch!Keys : \/ e[k] \in {Launch!Kept(env, k), Launch!Unset}
                                  \/ e[k].by = "codex"
    PROVE  LaunchInv'
<1> env \in EnvType
  BY DEF LaunchInv, LaunchTyped
<1>1. LaunchTyped'
  BY DEF LaunchInv, LaunchTyped, Launch!Step, Launch!Stages
<1>2. Vouched(e, who)
  <2> SUFFICES ASSUME NEW k \in Launch!Routes, e[k].by \in Launch!Checkout PROVE
      e[k].is \in Launch!Local
    BY DEF Vouched
  <2>1. k \in Launch!Keys
    BY DEF Launch!Keys
  <2> QED
    BY <2>1, KeptVouched DEF Launch!Unset, Launch!Checkout
<1>3. \A k \in Launch!Keys : e[k].by \in {"host", "codex", "launcher", "nobody"}
  BY KeptIs DEF LaunchInv, Sources, Launch!Unset
<1>4. Sources'
  BY <1>2, <1>3 DEF LaunchInv, Sources, Launch!Step, BeforePlugin, Heeded
<1>5. Routed'
  BY DEF Launch!Step, Routed, Launch!CeStaysHere, Launch!CloudStaysCloud
<1> QED
  BY <1>1, <1>4, <1>5 DEF LaunchInv

(* Codex starts its server with what its own file says.                     *)
LEMMA CodexLaunchStep ==
    ASSUME LaunchInv, Launch!CodexCloud \/
           \E llm \in {"none", "near"} : Launch!CodexCe(llm)
    PROVE  LaunchInv'
<1> env \in EnvType
  BY DEF LaunchInv, LaunchTyped
<1>1. CASE Launch!CodexCloud
  <2>1. env' \in EnvType
    BY <1>1, KeptIs DEF Launch!CodexCloud, EnvType, Launch!Unset, Launch!Var
  <2>2. \A k \in Launch!Keys : env'[k] \in {Launch!Kept(env, k), Launch!Unset}
    BY <1>1 DEF Launch!CodexCloud
  <2> QED
    BY <1>1, <2>1, <2>2, CodexEnv DEF Launch!CodexCloud, Launch!Step
<1>2. ASSUME NEW llm \in {"none", "near"}, Launch!CodexCe(llm) PROVE LaunchInv'
  <2>1. env' \in EnvType
    BY <1>2, KeptIs DEF Launch!CodexCe, EnvType, Launch!Unset, Launch!Var, Launch!Is
  <2>2. \A k \in Launch!Keys : env'[k] \in {Launch!Kept(env, k), Launch!Unset} \/
      env'[k].by = "codex"
    BY <1>2 DEF Launch!CodexCe, Launch!Is
  <2> QED
    BY <1>2, <2>1, <2>2, CodexEnv DEF Launch!CodexCe, Launch!Step
<1> QED
  BY <1>1, <1>2

(* A launch that is refused serves nobody.                                  *)
LEMMA RefuseStep ==
    ASSUME LaunchInv, NEW from \in Launch!Stages, Launch!Refuse(from)
    PROVE LaunchInv'
<1>1. LaunchTyped' /\ Sources'
  BY DEF LaunchInv, LaunchTyped, Sources, Launch!Refuse, Launch!Step, Launch!Stages,
     BeforePlugin, Vouched, Heeded
<1>2. Routed'
  BY DEF Launch!Refuse, Launch!Step, Routed, Launch!CeStaysHere, Launch!CloudStaysCloud
<1> QED
  BY <1>1, <1>2 DEF LaunchInv

(* After the files, a step that changes nothing but what the launcher adds. *)
LEMMA AddKeeps ==
    ASSUME LaunchInv,
           NEW e \in EnvType, stage \in {"templates", "route", "llm", "adapter"},
           stage' \in {"route", "llm", "adapter", "serving", "refused"},
           UNCHANGED <<who, named, heard>>, env' = e,
           \A k \in Launch!Keys : \/ e[k] = env[k] \/ e[k] = Launch!Unset \/
                                         e[k].by = "launcher"
                                  \/ k = "mode" /\ e[k].by = env[k].by
    PROVE  LaunchTyped' /\ Sources'
<1>1. LaunchTyped'
  BY DEF LaunchInv, LaunchTyped, Launch!Stages
<1>2. Vouched(e, who)
  <2>1. Vouched(env, who)
    BY DEF LaunchInv, Sources
  <2>2. ASSUME NEW k \in Launch!Routes, e[k].by \in Launch!Checkout PROVE
      e[k].is \in Launch!Local
    <3>1. k \in Launch!Keys /\ k # "mode"
      BY DEF Launch!Keys, Launch!Routes
    <3> QED
      BY <2>1, <2>2, <3>1 DEF Vouched, Launch!Unset, Launch!Checkout
  <2>3. ASSUME e["token"].by \in Launch!Checkout PROVE who = "codex"
    <3>1. "token" \in Launch!Keys
      BY DEF Launch!Keys
    <3> QED
      BY <2>1, <2>3, <3>1 DEF Vouched, Launch!Unset, Launch!Checkout
  <2> QED
    BY <2>2, <2>3 DEF Vouched
<1>3. Heeded(e, named)
  <2> SUFFICES ASSUME NEW k \in named PROVE
      e[k].by \in {"settings", "launcher", "nobody"}
    BY DEF Heeded
  <2>1. k \in Launch!Keys /\ k # "mode" /\
      env[k].by \in {"settings", "launcher", "nobody"}
    BY DEF LaunchInv, LaunchTyped, Sources, Heeded, Launch!Keys, Launch!Routes
  <2> QED
    BY <2>1 DEF Launch!Unset
<1>4. ASSUME who = "codex", NEW k \in Launch!Keys
      PROVE  e[k].by \in {"host", "codex", "launcher", "nobody"}
  BY <1>4 DEF LaunchInv, Sources, Launch!Unset
<1>5. Sources'
  BY <1>2, <1>3, <1>4 DEF LaunchInv, Sources, BeforePlugin
<1> QED
  BY <1>1, <1>5

(* Placeholders that nobody filled in are dropped.                          *)
LEMMA SanitizeStep == ASSUME LaunchInv, Launch!Sanitize PROVE LaunchInv'
<1> env \in EnvType
  BY DEF LaunchInv, LaunchTyped
<1>1. PICK m \in {Launch!Unset, Launch!Is("ce", env["mode"].by), env["mode"]} :
        env' = [env EXCEPT !["mode"] = m]
  BY DEF Launch!Sanitize
<1>2. env' \in EnvType
  BY <1>1 DEF EnvType, Launch!Unset, Launch!Var, Launch!Is, Launch!Keys
<1>3. \A k \in Launch!Keys : \/ env'[k] = env[k] \/ env'[k] = Launch!Unset
                             \/ k = "mode" /\ env'[k].by = env[k].by
  BY <1>1 DEF EnvType, Launch!Is
<1>4. LaunchTyped' /\ Sources'
  BY <1>2, <1>3, AddKeeps DEF Launch!Sanitize, Launch!Step
<1>5. Routed'
  BY DEF Launch!Sanitize, Launch!Step, Routed, Launch!CeStaysHere,
      Launch!CloudStaysCloud
<1> QED
  BY <1>4, <1>5 DEF LaunchInv

(* The edition is settled.                                                  *)
LEMMA RouteStep ==
    ASSUME LaunchInv, Launch!RouteCe \/ Launch!RouteCloud
    PROVE LaunchInv'
<1> env \in EnvType
  BY DEF LaunchInv, LaunchTyped
<1>1. CASE Launch!RouteCe
  <2>1. env' \in EnvType
    BY <1>1 DEF Launch!RouteCe, EnvType, Launch!Unset, Launch!Var, Launch!Is,
       Launch!Keys, Launch!Routes
  <2>2. \A k \in Launch!Keys : env'[k] = env[k] \/ env'[k] = Launch!Unset \/
      env'[k].by = "launcher"
    BY <1>1 DEF Launch!RouteCe, EnvType, Launch!Is
  <2>3. LaunchTyped' /\ Sources'
    BY <1>1, <2>1, <2>2, AddKeeps DEF Launch!RouteCe, Launch!Step
  <2>4. env'["token"] = Launch!Unset
    BY <1>1 DEF Launch!RouteCe, EnvType, Launch!Keys
  <2>5. Routed'
    BY <1>1, <2>4 DEF Launch!RouteCe, Launch!Step, Routed, Launch!CeStaysHere,
       Launch!CloudStaysCloud, Launch!Unset
  <2> QED
    BY <2>3, <2>5 DEF LaunchInv
<1>2. CASE Launch!RouteCloud
  <2>1. LaunchTyped' /\ Sources'
    BY <1>2, AddKeeps DEF Launch!RouteCloud, Launch!Step
  <2>2. Routed'
    BY <1>2 DEF Launch!RouteCloud, Launch!Step, Routed, Launch!CeStaysHere,
       Launch!CloudStaysCloud, Launch!CeMode, Launch!Gap
  <2> QED
    BY <2>1, <2>2 DEF LaunchInv
<1> QED
  BY <1>1, <1>2

(* The model's route is settled.                                            *)
LEMMA WithLlmIs ==
    ASSUME env \in EnvType, NEW disabled \in BOOLEAN, Launch!CeMode(env) =>
           env["token"].is = "none"
    PROVE  /\ Launch!WithLlm(disabled) \in EnvType
           /\ \A k \in Launch!Keys : \/ Launch!WithLlm(disabled)[k] = env[k] \/
                                            Launch!WithLlm(disabled)[k] = Launch!Unset
                                     \/ Launch!WithLlm(disabled)[k].by = "launcher"
           /\ Settled(Launch!WithLlm(disabled))
<1> DEFINE e == IF Launch!CeMode(env) THEN [env EXCEPT !["vendor"] = Launch!Unset]
               ELSE env
<1>1. /\ e \in EnvType
      /\ \A k \in Launch!Keys : e[k] = env[k] \/ e[k] = Launch!Unset
      /\ Launch!CeMode(e) <=> Launch!CeMode(env)
      /\ Launch!CeMode(e) => e["vendor"].is = "none" /\ e["token"].is = "none"
  BY DEF EnvType, Launch!Unset, Launch!Var, Launch!Keys, Launch!Routes, Launch!CeMode,
     Launch!Gap
<1> HIDE DEF e
<1>2. ASSUME Launch!WithLlm(disabled) = Launch!Dead(e)
      PROVE  /\ Launch!WithLlm(disabled) \in EnvType
             /\ \A k \in Launch!Keys : \/ Launch!WithLlm(disabled)[k] = env[k] \/
                                              Launch!WithLlm(disabled)[k] = Launch!Unset
                                       \/ Launch!WithLlm(disabled)[k].by = "launcher"
             /\ Settled(Launch!WithLlm(disabled))
  <2>1. Launch!Dead(e) \in EnvType
    BY <1>1 DEF Launch!Dead, EnvType, Launch!Is, Launch!Var
  <2>2. \A k \in Launch!Keys : Launch!Dead(e)[k] = e[k] \/
      Launch!Dead(e)[k].by = "launcher"
    BY <1>1 DEF Launch!Dead, EnvType, Launch!Is
  <2>3. /\ Launch!Dead(e)["llm"].is = "dead" /\ Launch!Dead(e)["key"].is = "dummy"
        /\ Launch!Dead(e)["vendor"] = e["vendor"] /\
               Launch!Dead(e)["token"] = e["token"]
        /\ Launch!CeMode(Launch!Dead(e)) <=> Launch!CeMode(e)
    BY <1>1 DEF Launch!Dead, EnvType, Launch!Is, Launch!Keys, Launch!Routes,
       Launch!CeMode, Launch!Gap
  <2> QED
    BY <1>1, <1>2, <2>1, <2>2, <2>3 DEF Settled
<1>3. ASSUME Launch!WithLlm(disabled) = e, e["llm"].is # "none" => Launch!LlmSafe(e),
             e["llm"].is = "none" => ~Launch!CeMode(e)
      PROVE  /\ Launch!WithLlm(disabled) \in EnvType
             /\ \A k \in Launch!Keys : \/ Launch!WithLlm(disabled)[k] = env[k] \/
                                              Launch!WithLlm(disabled)[k] = Launch!Unset
                                       \/ Launch!WithLlm(disabled)[k].by = "launcher"
             /\ Settled(Launch!WithLlm(disabled))
  BY <1>1, <1>3 DEF Settled, Launch!LlmSafe
<1>4. ASSUME Launch!WithLlm(disabled) =
                [e EXCEPT !["key"] = Launch!Is("dummy", "launcher")],
             e["llm"].is # "none", Launch!LlmSafe(e)
      PROVE  /\ Launch!WithLlm(disabled) \in EnvType
             /\ \A k \in Launch!Keys : \/ Launch!WithLlm(disabled)[k] = env[k] \/
                                              Launch!WithLlm(disabled)[k] = Launch!Unset
                                       \/ Launch!WithLlm(disabled)[k].by = "launcher"
             /\ Settled(Launch!WithLlm(disabled))
  <2> DEFINE d == [e EXCEPT !["key"] = Launch!Is("dummy", "launcher")]
  <2>1. d \in EnvType /\ \A k \in Launch!Keys : d[k] = e[k] \/ d[k].by = "launcher"
    BY <1>1 DEF EnvType, Launch!Is, Launch!Var
  <2>2. /\ d["llm"] = e["llm"] /\ d["key"].is = "dummy"
        /\ d["vendor"] = e["vendor"] /\ d["token"] = e["token"]
        /\ Launch!CeMode(d) <=> Launch!CeMode(e)
    BY <1>1 DEF EnvType, Launch!Is, Launch!Keys, Launch!Routes, Launch!CeMode,
       Launch!Gap
  <2> QED
    BY <1>1, <1>4, <2>1, <2>2 DEF Settled, Launch!LlmSafe
<1> QED
  BY <1>2, <1>3, <1>4 DEF Launch!WithLlm, e

(* The route of the model is settled once the edition is.                   *)
LEMMA LlmStep == ASSUME LaunchInv, Launch!ConfigureLlm PROVE LaunchInv'
<1>1. env \in EnvType /\ stage = "llm" /\ (Launch!CeMode(env) =>
    env["token"].is = "none")
  BY DEF LaunchInv, LaunchTyped, Routed, Launch!ConfigureLlm, Launch!Step
<1>2. PICK disabled \in BOOLEAN : env' = Launch!WithLlm(disabled)
  BY DEF Launch!ConfigureLlm
<1>3. LaunchTyped' /\ Sources'
  BY <1>1, <1>2, WithLlmIs, AddKeeps DEF Launch!ConfigureLlm, Launch!Step
<1>4. Settled(env')
  BY <1>1, <1>2, WithLlmIs
<1>5. Settled(env)'
  BY <1>4 DEF Settled, Launch!CeMode, Launch!Gap
<1>6. Routed'
  BY <1>5 DEF Launch!ConfigureLlm, Launch!Step, Routed, Launch!CeStaysHere,
     Launch!CloudStaysCloud
<1> QED
  BY <1>3, <1>6 DEF LaunchInv

(* The adapter of the edition has the last word.                            *)
LEMMA BindStep ==
    ASSUME LaunchInv, Launch!BindCe \/ Launch!BindCloud \/ Launch!BindCloudFails
    PROVE LaunchInv'
<1>0. env \in EnvType /\ stage = "adapter" /\ Settled(env)
  BY DEF LaunchInv, LaunchTyped, Routed, Launch!BindCe, Launch!BindCloud,
     Launch!BindCloudFails
<1>1. CASE Launch!BindCe
  <2>1. LaunchTyped' /\ Sources'
    BY <1>0, <1>1, AddKeeps DEF Launch!BindCe
  <2>2. Routed'
    BY <1>0, <1>1 DEF Launch!BindCe, Routed, Launch!CeStaysHere, Launch!CloudStaysCloud,
       Settled, Launch!CeMode, Launch!Gap
  <2> QED
    BY <2>1, <2>2 DEF LaunchInv
<1>2. CASE Launch!BindCloud \/ Launch!BindCloudFails
  <2>1. /\ env' = Launch!CloudEnv /\ UNCHANGED <<who, named, heard>> /\
               ~Launch!CeMode(env)
        /\ \/ stage' = "serving" /\ client' \in {"cloud", "closed"}
           \/ stage' = "refused"
    BY <1>2 DEF Launch!BindCloud, Launch!BindCloudFails
  <2>2. Launch!CloudEnv \in EnvType
    BY <1>0 DEF Launch!CloudEnv, EnvType, Launch!Unset, Launch!Var
  <2>3. \A k \in Launch!Keys : Launch!CloudEnv[k] = env[k] \/
      Launch!CloudEnv[k] = Launch!Unset
    BY DEF Launch!CloudEnv
  <2>4. LaunchTyped' /\ Sources'
    BY <1>0, <2>1, <2>2, <2>3, AddKeeps
  <2>5. /\ ~Launch!CeMode(Launch!CloudEnv) /\ Launch!CloudEnv["redis"].is = "none"
        /\ Launch!CloudEnv["key"] = env["key"] /\ Launch!CloudEnv["llm"] = env["llm"]
    BY DEF Launch!CloudEnv, Launch!Unset, Launch!CeMode, Launch!Gap, Launch!Keys,
       Launch!Routes
  <2>6. ~Launch!CeMode(env)'
    BY <2>1, <2>5 DEF Launch!CeMode, Launch!Gap
  <2>7. Routed'
    BY <1>0, <2>1, <2>5, <2>6 DEF Routed, Launch!CeStaysHere, Launch!CloudStaysCloud,
       Settled
  <2> QED
    BY <2>4, <2>7 DEF LaunchInv
<1> QED
  BY <1>1, <1>2

(* The credentials of a Cloud server are renewed.                           *)
LEMMA RefreshStep == ASSUME LaunchInv, Launch!Refresh PROVE LaunchInv'
<1>1. LaunchTyped' /\ Sources'
  BY DEF LaunchInv, LaunchTyped, Sources, Launch!Refresh, Vouched, Heeded, BeforePlugin,
     Launch!Gap
<1>2. Routed'
  BY DEF LaunchInv, Launch!Refresh, Launch!Refreshed, Routed, Launch!CeStaysHere,
     Launch!CloudStaysCloud, Launch!CeMode, Launch!Gap
<1> QED
  BY <1>1, <1>2 DEF LaunchInv

(* Nothing of the launch moves.                                             *)
LEMMA LaunchRests == ASSUME LaunchInv, UNCHANGED Launch!vars PROVE LaunchInv'
BY DEF Launch!vars, LaunchInv, LaunchTyped, Sources, Routed, Vouched, Heeded,
   BeforePlugin, Launch!Gap, Launch!CeMode,
       Launch!CeStaysHere, Launch!CloudStaysCloud, Settled

(* Every step of a launch keeps the invariant.                              *)
LEMMA LaunchKept == LaunchInv /\ [Launch!Next]_(Launch!vars) => LaunchInv'
<1> SUFFICES ASSUME LaunchInv, [Launch!Next]_(Launch!vars) PROVE LaunchInv'
  OBVIOUS
<1>1. CASE Launch!Inherit \/ Launch!Clear
  BY <1>1, InheritStep, ClearStep
<1>2. CASE Launch!CodexCloud \/ \E llm \in {"none", "near"} : Launch!CodexCe(llm)
  BY <1>2, CodexLaunchStep
<1>3. CASE Launch!HearOs
  BY <1>3, HearStep DEF Launch!HearOs, Launch!Keys, Launch!Routes, Launch!Users,
     BeforePlugin
<1>4. CASE Launch!HearDotenv
  BY <1>4, HearStep DEF Launch!HearDotenv, Launch!Users, Launch!Checkout, BeforePlugin
<1>5. CASE Launch!HearProject
  BY <1>5, HearStep DEF Launch!HearProject, Launch!Checkout, BeforePlugin
<1>6. CASE Launch!HearSettings
  BY <1>6, HearStep DEF Launch!HearSettings, Launch!Users, BeforePlugin
<1>7. CASE Launch!HearPlugin
  BY <1>7, HearStep DEF Launch!HearPlugin, Launch!Checkout, BeforePlugin
<1>8. CASE Launch!CodexRefuses \/ Launch!RouteRefuses \/ Launch!CeRefuses
  BY <1>8, RefuseStep DEF Launch!CodexRefuses, Launch!RouteRefuses, Launch!CeRefuses,
     Launch!Stages
<1>9. CASE Launch!Sanitize \/ Launch!RouteCe \/ Launch!RouteCloud \/ Launch!ConfigureLlm
  BY <1>9, SanitizeStep, RouteStep, LlmStep
<1>10. CASE Launch!BindCe \/ Launch!BindCloud \/ Launch!BindCloudFails \/ Launch!Refresh
  BY <1>10, BindStep, RefreshStep
<1>11. CASE UNCHANGED Launch!vars
  BY <1>11, LaunchRests
<1> QED
  BY <1>1, <1>2, <1>3, <1>4, <1>5, <1>6, <1>7, <1>8, <1>9, <1>10, <1>11 DEF Launch!Next

(***************************************************************************)
(* The edit guard                                                          *)
(***************************************************************************)

(* Rationales that were told, or are known to have been missed.             *)
Shown(prints) == prints \subseteq told \cup missed

(* The inductive invariant of the edit guard: a receipt stands for a        *)
(* rationale that was shown, and a check that is running has seen nothing   *)
(* but receipts and what it is about to explain.                            *)
GuardInv ==
    /\ content \in [Files -> 0..MaxVersion] /\ head \in 0..MaxVersion
    /\ check \in [on : BOOLEAN, todo : Seq(Files), head : 0..MaxVersion,
           new : Seq(Guard!Prints),
                  seen : SUBSET Guard!Prints]
    /\ check.on => check.seen \subseteq receipts \cup Guard!ToSet(check.new)
    /\ Shown(receipts) /\ Shown(passed)

(* Files are asked about in some order.                                     *)
LEMMA OrderIs == \A files \in SUBSET Files : Guard!SetToSeq(files) \in Seq(Files)
<1> SUFFICES ASSUME NEW files \in SUBSET Files PROVE
    Guard!SetToSeq(files) \in Seq(Files)
  OBVIOUS
<1>1. IsFiniteSet(files)
  BY Assumed, FS_Subset DEF Guard!GuardAssumption, Guard!IsFiniteSet, IsFiniteSet
<1>2. PICK f : f \in Bijection(1..Cardinality(files), files)
  BY <1>1, FS_CardinalityType DEF ExistsBijection
<1>3. f \in [1..Cardinality(files) -> files] /\ Guard!IsInjective(f)
  BY <1>2 DEF Bijection, Injection, IsInjective, Guard!IsInjective
<1>4. Guard!SetToSeq(files) \in [1..Cardinality(files) -> files]
  BY <1>3 DEF Guard!SetToSeq, Guard!Cardinality, Cardinality
<1> QED
  BY <1>1, <1>4, FS_CardinalityType

(* There are no receipts at the start.                                      *)
LEMMA GuardInit == Guard!Init => GuardInv
BY Assumed DEF Guard!GuardAssumption, Guard!Init, GuardInv, Guard!NoCheck, Shown,
   Guard!Prints

(* One more at the end of a sequence is one more in its set.                *)
LEMMA AppendIs ==
    ASSUME NEW S, NEW s \in Seq(S), NEW x \in S
    PROVE  Append(s, x) \in Seq(S) /\
        Guard!ToSet(Append(s, x)) = Guard!ToSet(s) \cup {x}
<1>1. Append(s, x) \in Seq(S) /\ DOMAIN s = 1..Len(s) /\
    DOMAIN Append(s, x) = 1..Len(s) + 1
  OBVIOUS
<1>2. \A i \in 1..Len(s) : Append(s, x)[i] = s[i]
  OBVIOUS
<1>3. Append(s, x)[Len(s) + 1] = x
  OBVIOUS
<1>4. \A y : y \in Guard!ToSet(Append(s, x)) <=> y \in Guard!ToSet(s) \cup {x}
  BY <1>1, <1>2, <1>3 DEF Guard!ToSet
<1> QED
  BY <1>1, <1>4

(* Every step of the guard keeps the invariant.                             *)
LEMMA GuardKept == GuardInv /\ [Guard!Next]_(Guard!vars) => GuardInv'
<1> SUFFICES ASSUME GuardInv, [Guard!Next]_(Guard!vars) PROVE GuardInv'
  OBVIOUS
<1> USE Assumed DEF Guard!GuardAssumption, GuardInv, Shown, Guard!ghosts, Guard!NoCheck
<1>1. CASE Guard!NewTurn
  BY <1>1 DEF Guard!NewTurn
<1>2. CASE \E f \in Files : Guard!EditElsewhere(f)
  BY <1>2 DEF Guard!EditElsewhere
<1>3. CASE Guard!Commit
  BY <1>3 DEF Guard!Commit
<1>4. ASSUME NEW files \in SUBSET Files \ {{}}, Guard!Submitted(files) PROVE GuardInv'
  <2>1. CASE check' = check
    BY <1>4, <2>1 DEF Guard!Submitted
  <2>2. CASE check' = [on |-> TRUE, todo |-> Guard!SetToSeq(files), head |-> head,
                       new |-> <<>>, seen |-> {}]
    <3>1. Guard!SetToSeq(files) \in Seq(Files)
      BY OrderIs
    <3>2. check' \in [on : BOOLEAN, todo : Seq(Files), head : 0..MaxVersion,
        new : Seq(Guard!Prints),
                      seen : SUBSET Guard!Prints]
      BY <2>2, <3>1
    <3> QED
      BY <1>4, <2>2, <3>2 DEF Guard!Submitted
  <2> QED
    BY <1>4, <2>1, <2>2 DEF Guard!Submitted
<1>5. CASE Guard!LookUp
  <2> DEFINE print == Guard!Fingerprint(Head(check.todo))
  <2>1. print \in Guard!Prints /\ Tail(check.todo) \in Seq(Files)
    BY <1>5 DEF Guard!LookUp, Guard!Fingerprint, Guard!Prints
  <2>2. /\ check' = [check EXCEPT !.todo = Tail(@), !.seen = @ \cup {print},
                        !.new = IF print \in receipts \cup Guard!ToSet(@) THEN @
                                ELSE Append(@, print)]
        /\ UNCHANGED <<head, content, receipts, told, missed, passed>> /\ check.on
    BY <1>5 DEF Guard!LookUp
  <2> HIDE DEF print
  <2>3. CASE print \in receipts \cup Guard!ToSet(check.new)
    BY <2>1, <2>2, <2>3
  <2>4. CASE print \notin receipts \cup Guard!ToSet(check.new)
    <3>1. /\ Append(check.new, print) \in Seq(Guard!Prints)
          /\ Guard!ToSet(Append(check.new, print)) = Guard!ToSet(check.new) \cup {print}
      BY <2>1, AppendIs
    <3> QED
      BY <2>1, <2>2, <2>4, <3>1
  <2> QED
    BY <2>3, <2>4
<1>6. CASE Guard!LookUpFails
  BY <1>6 DEF Guard!LookUpFails
<1>7. CASE Guard!Explain
  <2>1. /\ receipts' = receipts \cup Guard!ToSet(check.new) /\ check' = Guard!NoCheck
        /\ UNCHANGED <<head, content, passed>>
        /\ told \subseteq told' /\ missed \subseteq missed'
        /\ Guard!ToSet(check.new) \subseteq told' \cup missed'
    BY <1>7 DEF Guard!Explain
  <2> QED
    BY <2>1
<1>8. CASE Guard!LetThrough
  <2>1. check.seen \subseteq receipts
    BY <1>8 DEF Guard!LetThrough, Guard!ToSet
  <2>2. content' \in [Files -> 0..MaxVersion]
    BY <1>8 DEF Guard!LetThrough
  <2> QED
    BY <1>8, <2>1, <2>2 DEF Guard!LetThrough
<1>9. CASE Guard!CheckLost
  BY <1>9 DEF Guard!CheckLost
<1>10. CASE UNCHANGED Guard!vars
  BY <1>10 DEF Guard!vars
<1> QED
  BY <1>1, <1>2, <1>3, <1>4, <1>5, <1>6, <1>7, <1>8, <1>9, <1>10 DEF Guard!Next

(***************************************************************************)
(* The reflexes                                                            *)
(***************************************************************************)

(* The types of the records of the reflexes.                                *)
PacketRecord == [for : Prompts \cup {NoPrompt}, made : Prompts \cup {NoPrompt},
                 text : Texts \cup {NoPrompt}]
TurnRecord == [n : Int, private : BOOLEAN, prompt : Prompts \cup {NoPrompt},
    spent : Int,
               insight : SUBSET PacketRecord, block : SUBSET (Texts \cup {NoPrompt}),
                   nudged : Int]
SpeechRecord == [prompt : Prompts, kind : {"insight", "block", "nudge"},
    saved : BOOLEAN, at : Int,
                 made : Prompts \cup {NoPrompt}, text : Texts \cup {NoPrompt}]
WorkerRecord == [at : {"none", "born", "passed", "locked", "query", "asked", "staged"},
                 prompt : Prompts \cup {NoPrompt}, doc : Reflexes!Doc]

(* Each variable of the reflexes has its type.                              *)
ReflexTyped ==
    /\ turnFile \in TurnRecord /\ saving \in TurnRecord /\ recall \in Reflexes!Doc
    /\ fetcher \in [Fetchers -> WorkerRecord] /\ said \in Seq(SpeechRecord) /\
           tmpFile \subseteq Fetchers
    /\ turns \in Int /\ users \in [1..2 -> Prompts \cup {NoPrompt}]
    /\ echo \in Prompts \cup {NoPrompt}

(* A packet was made for the prompt that it names.                          *)
Exact(doc) == doc.insight.for = doc.insight.made

(* The inductive invariant of the reflexes: no worker holds a private       *)
(* prompt, and every packet, on its way or staged, was made for the prompt  *)
(* it names.                                                                *)
ReflexInv ==
    /\ ReflexTyped
    /\ Reflexes!PrivateStaysOut
    /\ \A f \in Fetchers : fetcher[f].prompt \notin Private /\ Exact(fetcher[f].doc)
    /\ Exact(recall)
    /\ Reflexes!InsightFitsPrompt

(* What there is before anything was recalled.                              *)
LEMMA NoDoc == Reflexes!NoRecall \in Reflexes!Doc /\ Exact(Reflexes!NoRecall) /\
    Reflexes!NoTurn \in TurnRecord /\ Reflexes!NoInsight \in PacketRecord
BY DEF Reflexes!NoRecall, Reflexes!Doc, Exact, Reflexes!NoTurn, TurnRecord,
   Reflexes!NoInsight, PacketRecord

(* Nothing was asked, recalled or said yet.                                 *)
LEMMA ReflexInit == Reflexes!Init => ReflexInv
<1> SUFFICES ASSUME Reflexes!Init PROVE ReflexInv
  OBVIOUS
<1>1. ReflexTyped
  BY NoDoc DEF Reflexes!Init, ReflexTyped, Reflexes!Asleep, WorkerRecord
<1>2. Reflexes!PrivateStaysOut /\ Reflexes!InsightFitsPrompt
  BY Assumed DEF Reflexes!Init, Reflexes!ReflexAssumption, Reflexes!PrivateStaysOut,
     Reflexes!InsightFitsPrompt, Reflexes!NoTurn
<1>3. Exact(recall) /\ \A f \in Fetchers : fetcher[f].prompt \notin Private /\
    Exact(fetcher[f].doc)
  BY Assumed, NoDoc DEF Reflexes!Init, Reflexes!ReflexAssumption, Reflexes!Asleep
<1> QED
  BY <1>1, <1>2, <1>3 DEF ReflexInv

(* What a prompt may be told.                                               *)
LEMMA SayingIs ==
    ASSUME ReflexInv, NEW p \in Prompts, NEW kind \in {"insight", "block", "nudge"},
           kind = "insight" => kind = Reflexes!Injected(p)
    PROVE  /\ Reflexes!Saying(p, kind) \in SpeechRecord
           /\ Reflexes!Saying(p, kind).kind = "insight" =>
                  Reflexes!Saying(p, kind).made = Reflexes!Saying(p, kind).prompt
<1>1. Reflexes!Insight(p) \in PacketRecord /\ recall.block \in Texts \cup {NoPrompt}
  BY NoDoc DEF ReflexInv, ReflexTyped, Reflexes!Insight, Reflexes!Doc, PacketRecord
<1>2. ASSUME kind = "insight" PROVE Reflexes!Insight(p).made = p
  <2>1. Reflexes!Insight(p) # Reflexes!NoInsight
    BY <1>2 DEF Reflexes!Injected
  <2> QED
    BY <2>1 DEF ReflexInv, Reflexes!Insight, Exact
<1>3. Reflexes!Saying(p, kind) \in SpeechRecord
  BY <1>1 DEF Reflexes!Saying, SpeechRecord, PacketRecord, ReflexInv, ReflexTyped
<1> QED
  BY <1>2, <1>3 DEF Reflexes!Saying

(* Adding one thing to what was said.                                       *)
Right(s) == s \in Seq(SpeechRecord) /\ \A i \in DOMAIN s : s[i].kind = "insight" =>
    s[i].made = s[i].prompt

(* Saying one more thing that is right.                                     *)
LEMMA SayRight ==
    ASSUME NEW s, Right(s), NEW r,
           r = <<>> \/ \E one \in SpeechRecord : r = <<one>> /\
               (one.kind = "insight" => one.made = one.prompt)
    PROVE  Right(s \o r)
<1>1. CASE r = <<>>
  BY <1>1 DEF Right
<1>2. ASSUME NEW one \in SpeechRecord, r = <<one>>, one.kind = "insight" =>
    one.made = one.prompt
      PROVE  Right(s \o r)
  <2>1. s \o r \in Seq(SpeechRecord) /\ Len(s \o r) = Len(s) + 1
    BY <1>2 DEF Right
  <2>2. \A i \in 1..Len(s) : (s \o r)[i] = s[i]
    BY <1>2 DEF Right
  <2>3. (s \o r)[Len(s) + 1] = one
    BY <1>2 DEF Right
  <2> QED
    BY <1>2, <2>1, <2>2, <2>3 DEF Right
<1> QED
  BY <1>1, <1>2

(* A prompt is submitted.                                                   *)
LEMMA SubmitStep ==
    ASSUME ReflexInv, NEW p \in Prompts, Reflexes!Submit(p)
    PROVE ReflexInv'
<1> DEFINE what == Reflexes!Injected(p)
           next == [turnFile EXCEPT !.n = @ + 1, !.private = p \in Private,
                                    !.prompt = IF p \in Private THEN NoPrompt ELSE p]
<1>1. next \in TurnRecord /\ next.prompt \notin Private
  <2>1. turnFile \in TurnRecord /\ NoPrompt \notin Private
    BY Assumed DEF Reflexes!ReflexAssumption, ReflexInv, ReflexTyped
  <2>2. turnFile.n + 1 \in Int
    BY <2>1 DEF TurnRecord
  <2>3. PICK b \in BOOLEAN : b <=> (p \in Private)
    <3>1. CASE p \in Private
      <4>1. TRUE <=> (p \in Private)
        BY <3>1
      <4> QED
        BY <4>1
    <3>2. CASE p \notin Private
      <4>1. FALSE <=> (p \in Private)
        BY <3>2
      <4> QED
        BY <4>1
    <3> QED
      BY <3>1, <3>2
  <2>4. (IF p \in Private THEN NoPrompt ELSE p) \in (Prompts \cup {NoPrompt}) \ Private
    BY <2>1
  <2>5. next = [turnFile EXCEPT !.n = turnFile.n + 1, !.private = b,
                                !.prompt = IF p \in Private THEN NoPrompt ELSE p]
    BY <2>3
  <2> HIDE DEF next
  <2> DEFINE m == turnFile.n + 1
             q == IF p \in Private THEN NoPrompt ELSE p
  <2>6. m \in Int /\ q \in Prompts \cup {NoPrompt} /\ q \notin Private
    BY <2>2, <2>4
  <2>7. next = [turnFile EXCEPT !.n = m, !.private = b, !.prompt = q]
    BY <2>5
  <2> HIDE DEF m, q
  <2>8. next \in TurnRecord
    BY <2>1, <2>6, <2>7, Zenon DEF TurnRecord
  <2>9. next.prompt = q
    BY <2>1, <2>7, Zenon DEF TurnRecord
  <2> QED
    BY <2>6, <2>8, <2>9
<1>2. UNCHANGED <<turnFile, recall, fetcher, tmpFile, sent, echo>>
  BY DEF Reflexes!Submit, Reflexes!fetchVars
<1>5. turns' \in Int /\ users' \in [1..2 -> Prompts \cup {NoPrompt}]
  <2>1. turns' = turns + 1 /\ users' = <<users[2], p>> /\
      users[2] \in Prompts \cup {NoPrompt}
    BY DEF Reflexes!Submit, ReflexInv, ReflexTyped
  <2> QED
    BY <2>1 DEF ReflexInv, ReflexTyped
<1> HIDE DEF next
<1>3. CASE p \in Private
  <2>1. saving' = next /\ said' = said
    BY <1>3 DEF Reflexes!Submit, next
  <2> QED
    BY <1>1, <1>2, <1>5, <2>1 DEF ReflexInv, ReflexTyped, Reflexes!PrivateStaysOut,
       Reflexes!InsightFitsPrompt, Exact
<1>4. CASE p \notin Private
  <2>0. what \in {"insight", "block", "nothing"}
    BY DEF Reflexes!Injected
  <2>1. /\ saving' = [next EXCEPT
                       !.spent = @ + Reflexes!Cost(what),
                       !.insight = IF what = "insight" THEN {Reflexes!Insight(p)} ELSE @,
                       !.block = IF what = "block" THEN {recall.block} ELSE @,
                       !.nudged = IF Reflexes!Nudge(p) THEN next.n ELSE @]
        /\ said' = said
                   \o (IF what = "nothing" THEN <<>> ELSE <<Reflexes!Saying(p, what)>>)
                   \o (IF Reflexes!Nudge(p) THEN <<Reflexes!Saying(p, "nudge")>> ELSE
                       <<>>)
    BY <1>4 DEF Reflexes!Submit, next
  <2>2. saving' \in TurnRecord /\ saving'.prompt = next.prompt
    <3>1. Reflexes!Insight(p) \in PacketRecord /\ recall.block \in Texts \cup {NoPrompt}
      BY NoDoc DEF ReflexInv, ReflexTyped, Reflexes!Insight, Reflexes!Doc, PacketRecord
    <3>2. Reflexes!Cost(what) \in Int
      BY DEF Reflexes!Cost
    <3>3. next.spent + Reflexes!Cost(what) \in Int /\ next.n \in Int /\
        next.nudged \in Int
          /\ next.insight \in SUBSET PacketRecord /\
                 next.block \in SUBSET (Texts \cup {NoPrompt})
      <4> HIDE DEF what
      <4> QED
        BY <1>1, <3>2 DEF TurnRecord
    <3>4. PICK m \in Int, i \in SUBSET PacketRecord,
               b \in SUBSET (Texts \cup {NoPrompt}), q \in Int :
            saving' = [next EXCEPT !.spent = m, !.insight = i, !.block = b,
                !.nudged = q]
      <4> HIDE DEF what
      <4>1. saving' = [next EXCEPT
                       !.spent = next.spent + Reflexes!Cost(what),
                       !.insight = IF what = "insight" THEN {Reflexes!Insight(p)}
                                   ELSE next.insight,
                       !.block = IF what = "block" THEN {recall.block} ELSE next.block,
                       !.nudged = IF Reflexes!Nudge(p) THEN next.n ELSE next.nudged]
        BY <2>1
      <4>2. (IF what = "insight" THEN {Reflexes!Insight(p)} ELSE
          next.insight) \in SUBSET PacketRecord
        BY <3>1, <3>3
      <4>3. (IF what = "block" THEN {recall.block} ELSE next.block)
               \in SUBSET (Texts \cup {NoPrompt})
        BY <3>1, <3>3
      <4>4. (IF Reflexes!Nudge(p) THEN next.n ELSE next.nudged) \in Int
        BY <3>3
      <4> QED
        BY <4>1, <4>2, <4>3, <4>4, <3>3
    <3> QED
      <4>1. next \in TurnRecord
        BY <1>1
      <4>2. saving' \in TurnRecord
        BY <3>4, <4>1, Zenon DEF TurnRecord
      <4>3. saving'.prompt = next.prompt
        BY <3>4, <4>1, Zenon DEF TurnRecord
      <4> QED
        BY <4>2, <4>3
  <2>3. Right(said)
    BY DEF ReflexInv, ReflexTyped, Reflexes!InsightFitsPrompt, Right
  <2>4. Right(said \o (IF what = "nothing" THEN <<>> ELSE <<Reflexes!Saying(p, what)>>))
    BY <2>0, <2>3, SayRight, SayingIs
  <2>5. Right(said')
    BY <2>1, <2>4, SayRight, SayingIs
  <2> QED
    BY <1>1, <1>2, <1>5, <2>2, <2>5
    DEF ReflexInv, ReflexTyped, Reflexes!PrivateStaysOut, Reflexes!InsightFitsPrompt,
        Exact, Right
<1> QED
  BY <1>3, <1>4

(* The hook saves the turn, or is killed before it does.                    *)
LEMMA SaveStep == ASSUME ReflexInv, Reflexes!Save \/ Reflexes!HookCut PROVE ReflexInv'
<1>1. UNCHANGED <<recall, fetcher, tmpFile, sent, turns, users, echo>>
  BY DEF Reflexes!Save, Reflexes!HookCut, Reflexes!fetchVars
<1>2. saving' = Reflexes!NoTurn /\ turnFile' \in {saving, turnFile}
  BY DEF Reflexes!Save, Reflexes!HookCut
<1>3. Right(said')
  <2>1. CASE Reflexes!HookCut
    BY <2>1 DEF Reflexes!HookCut, ReflexInv, ReflexTyped, Reflexes!InsightFitsPrompt,
       Right
  <2>2. CASE Reflexes!Save
    <3>1. said' = [i \in 1..Len(said) |-> [said[i] EXCEPT !.saved = @ \/
        said[i].at = turns]]
      BY <2>2 DEF Reflexes!Save, ReflexInv, ReflexTyped
    <3>2. ASSUME NEW i \in 1..Len(said)
          PROVE  /\ said'[i] \in SpeechRecord /\ said'[i].kind = said[i].kind
                 /\ said'[i].made = said[i].made /\ said'[i].prompt = said[i].prompt
      <4> DEFINE b == said[i].saved \/ said[i].at = turns
      <4> said[i] \in SpeechRecord
        BY DEF ReflexInv, ReflexTyped
      <4>1. b \in BOOLEAN
        OBVIOUS
      <4>2. said'[i] = [said[i] EXCEPT !.saved = b]
        BY <3>1
      <4> HIDE DEF b
      <4> QED
        BY <4>1, <4>2, Zenon DEF SpeechRecord
    <3>3. said' \in Seq(SpeechRecord) /\ DOMAIN said' = DOMAIN said /\
        DOMAIN said = 1..Len(said)
      <4>1. said \in Seq(SpeechRecord)
        BY DEF ReflexInv, ReflexTyped
      <4>2. said' \in [1..Len(said) -> SpeechRecord]
        BY <3>1, <3>2, Zenon
      <4> QED
        BY <4>1, <4>2, <3>1
    <3> QED
      BY <3>2, <3>3 DEF ReflexInv, Reflexes!InsightFitsPrompt, Right
  <2> QED
    BY <2>1, <2>2
<1> QED
  BY <1>1, <1>2, <1>3, NoDoc, Assumed
  DEF ReflexInv, ReflexTyped, Reflexes!PrivateStaysOut, Reflexes!InsightFitsPrompt,
      Exact, Right, Reflexes!NoTurn,
      Reflexes!ReflexAssumption

(* A step of the workers.                                                   *)
FetchKeeps ==
    /\ recall' \in Reflexes!Doc /\ Exact(recall') /\
           fetcher' \in [Fetchers -> WorkerRecord]
    /\ tmpFile' \subseteq Fetchers /\ sent' = {}
    /\ \A f \in Fetchers : fetcher'[f].prompt \notin Private /\ Exact(fetcher'[f].doc)

(* What a worker does shows in nothing but its own variables.               *)
LEMMA FetchEnough ==
    ASSUME ReflexInv, FetchKeeps, UNCHANGED <<turnFile, saving, said, turns, users>>,
           echo' \in Prompts \cup {NoPrompt}
    PROVE  ReflexInv'
BY DEF ReflexInv, ReflexTyped, FetchKeeps, Reflexes!PrivateStaysOut,
   Reflexes!InsightFitsPrompt, Exact

(* A worker that sleeps holds nothing.                                      *)
LEMMA AsleepIs ==
    Reflexes!Asleep \in WorkerRecord /\ Reflexes!Asleep.prompt \notin Private /\
        Exact(Reflexes!Asleep.doc)
BY NoDoc, Assumed DEF Reflexes!Asleep, WorkerRecord, Reflexes!ReflexAssumption

(* A worker gives up.                                                       *)
LEMMA LeaveKeeps ==
    ASSUME ReflexInv, NEW f \in Fetchers, Reflexes!Leave(f)
    PROVE FetchKeeps
BY AsleepIs DEF Reflexes!Leave, FetchKeeps, ReflexInv, ReflexTyped,
   Reflexes!PrivateStaysOut, Exact

(* A step of one worker.                                                    *)
LEMMA FetcherKeeps ==
    ASSUME ReflexInv, NEW f \in Fetchers, Reflexes!FetcherStep(f)
    PROVE FetchKeeps
<1> USE DEF ReflexInv, ReflexTyped, FetchKeeps, Reflexes!PrivateStaysOut
<1>t. fetcher[f] \in WorkerRecord
  OBVIOUS
<1>1. CASE Reflexes!LookAtLock(f)
  BY <1>1, AsleepIs DEF Reflexes!LookAtLock, Exact, WorkerRecord
<1>2. CASE Reflexes!WriteLock(f)
  BY <1>2 DEF Reflexes!WriteLock, Exact, WorkerRecord
<1>3. CASE Reflexes!ReadTurn(f)
  <2>1. CASE Reflexes!Leave(f)
    BY <2>1, LeaveKeeps
  <2>2. CASE ~turnFile.private
    <3>1. turnFile.prompt \in (Prompts \cup {NoPrompt}) \ Private
      BY DEF TurnRecord
    <3>2. /\ fetcher' = [fetcher EXCEPT ![f].at = "query",
                 ![f].prompt = turnFile.prompt]
          /\ UNCHANGED <<recall, latched, fetchLock, tmpFile, sent>>
      BY <1>3, <2>2 DEF Reflexes!ReadTurn
    <3> QED
      BY <3>1, <3>2, ZenonT(60) DEF Exact, WorkerRecord
  <2> QED
    BY <1>3, <2>1, <2>2 DEF Reflexes!ReadTurn
<1>4. CASE Reflexes!Ask(f) /\ ~latched
  <2>1. Reflexes!Query(fetcher[f].prompt) \cap Private = {}
    BY DEF Reflexes!Query
  <2>2. sent' = {}
    BY <1>4, <2>1 DEF Reflexes!Ask
  <2>3. Reflexes!Query(fetcher[f].prompt) \in SUBSET Prompts
    BY <1>t DEF Reflexes!Query, WorkerRecord
  <2>7. UNCHANGED <<recall, tmpFile>>
    BY <1>4 DEF Reflexes!Ask
  <2>4. fetcher' = [fetcher EXCEPT ![f].at = "asked",
      ![f].doc.query = Reflexes!Query(fetcher[f].prompt)]
    BY <1>4 DEF Reflexes!Ask
  <2> DEFINE d == [fetcher[f].doc EXCEPT !.query = Reflexes!Query(fetcher[f].prompt)]
  <2>5. d \in Reflexes!Doc /\ Exact(d)
    BY <2>3, <1>t DEF WorkerRecord, Reflexes!Doc, Exact
  <2>6. fetcher' = [fetcher EXCEPT ![f] = [fetcher[f] EXCEPT !.at = "asked", !.doc = d]]
    BY <2>4
  <2> HIDE DEF d
  <2> QED
    BY <2>2, <2>5, <2>6, <2>7, <1>t DEF Exact, WorkerRecord
<1>5. CASE Reflexes!AskUnsupported(f)
  BY <1>5, AsleepIs DEF Reflexes!AskUnsupported, Exact
<1>6. CASE Reflexes!Recalled(f)
  <2> DEFINE p == fetcher[f].prompt
  <2>1. PICK block \in Texts \cup {NoPrompt},
             packet \in {Reflexes!NoInsight} \cup IF insights /\ p # NoPrompt
                        THEN [for : {p}, made : {p}, text : Texts] ELSE {} :
             fetcher' = [fetcher EXCEPT
                ![f].at = "staged",
                ![f].doc = [age |-> "fresh", query |-> @.query, block |-> block,
                            insight |-> packet]]
    BY <1>6 DEF Reflexes!Recalled
  <2>2. packet \in PacketRecord /\ packet.for = packet.made
    BY <1>t, NoDoc DEF PacketRecord, WorkerRecord, Reflexes!NoInsight
  <2> DEFINE d == [age |-> "fresh", query |-> fetcher[f].doc.query, block |-> block,
                   insight |-> packet]
  <2>3. d \in Reflexes!Doc /\ Exact(d)
    BY <1>t, <2>2 DEF Reflexes!Doc, WorkerRecord, PacketRecord, Exact
  <2>4. fetcher' = [fetcher EXCEPT ![f] = [fetcher[f] EXCEPT !.at = "staged",
      !.doc = d]]
    BY <2>1
  <2> HIDE DEF d
  <2> QED
    BY <1>6, <1>t, <2>3, <2>4 DEF Reflexes!Recalled, Exact, WorkerRecord
<1>7. CASE Reflexes!Replace(f)
  <2>1. recall' \in {recall, Reflexes!NoRecall} \cup {fetcher[g].doc : g \in Fetchers}
    BY <1>7 DEF Reflexes!Replace
  <2>2. recall' \in Reflexes!Doc /\ Exact(recall')
    BY <2>1, NoDoc DEF WorkerRecord
  <2> QED
    BY <1>7, <2>2, AsleepIs DEF Reflexes!Replace, Exact
<1> QED
  BY <1>1, <1>2, <1>3, <1>4, <1>5, <1>6, <1>7, LeaveKeeps
  DEF Reflexes!FetcherStep, Reflexes!NotReady, Reflexes!Ask, Reflexes!Debounced,
      Reflexes!AskFails

(* A lock or a recall ages, or a worker is killed.                          *)
LEMMA OthersKeep ==
    ASSUME ReflexInv, Reflexes!LockAges \/ Reflexes!RecallAges \/
           \E f \in Fetchers : Reflexes!FetcherCut(f)
    PROVE  FetchKeeps
<1> USE DEF ReflexInv, ReflexTyped, FetchKeeps, Reflexes!PrivateStaysOut
<1>1. CASE Reflexes!LockAges
  BY <1>1 DEF Reflexes!LockAges
<1>2. CASE Reflexes!RecallAges
  BY <1>2 DEF Reflexes!RecallAges, Reflexes!Doc, Exact
<1>3. ASSUME NEW f \in Fetchers, Reflexes!FetcherCut(f) PROVE FetchKeeps
  BY <1>3, AsleepIs DEF Reflexes!FetcherCut, Exact
<1> QED
  BY <1>1, <1>2, <1>3

(* The turn ends, and a worker is started.                                  *)
LEMMA StopKeeps ==
    ASSUME ReflexInv, Reflexes!Stop
    PROVE  /\ FetchKeeps /\ UNCHANGED <<turnFile, saving, said, turns, users>>
           /\ echo' \in Prompts \cup {NoPrompt}
<1>1. UNCHANGED <<turnFile, saving, said, turns, recall, tmpFile, sent, users>>
  BY DEF Reflexes!Stop
<1>2. echo' \in Prompts \cup {NoPrompt}
  BY DEF Reflexes!Stop, ReflexInv, ReflexTyped
<1>3. fetcher' = fetcher \/
    \E f \in Fetchers : fetcher' = [fetcher EXCEPT ![f].at = "born"]
  BY DEF Reflexes!Stop
<1> QED
  BY <1>1, <1>2, <1>3, SMTT(30) DEF ReflexInv, ReflexTyped, FetchKeeps,
     Reflexes!PrivateStaysOut, WorkerRecord, Exact

(* Every step of the reflexes keeps the invariant.                          *)
LEMMA ReflexKept == ReflexInv /\ [Reflexes!Next]_(Reflexes!vars) => ReflexInv'
<1> SUFFICES ASSUME ReflexInv, [Reflexes!Next]_(Reflexes!vars) PROVE ReflexInv'
  OBVIOUS
<1>1. CASE \E p \in Prompts : Reflexes!Submit(p)
  BY <1>1, SubmitStep
<1>2. CASE Reflexes!Save \/ Reflexes!HookCut
  BY <1>2, SaveStep
<1>3. CASE Reflexes!Reflects
  BY <1>3 DEF Reflexes!Reflects, Reflexes!fetchVars, ReflexInv, ReflexTyped,
     Reflexes!PrivateStaysOut, Reflexes!InsightFitsPrompt, Exact
<1>4. CASE Reflexes!Stop
  BY <1>4, StopKeeps, FetchEnough
<1>5. CASE (\E f \in Fetchers : Reflexes!FetcherStep(f)) /\ UNCHANGED <<insights,
    Reflexes!hookVars, cuts>>
  BY <1>5, FetcherKeeps, FetchEnough DEF Reflexes!hookVars, ReflexInv, ReflexTyped
<1>6. CASE (\E f \in Fetchers : Reflexes!FetcherCut(f)) /\ UNCHANGED <<insights,
    Reflexes!hookVars>>
  BY <1>6, OthersKeep, FetchEnough DEF Reflexes!hookVars, ReflexInv, ReflexTyped
<1>7. CASE (Reflexes!LockAges \/ Reflexes!RecallAges) /\ UNCHANGED <<insights,
    Reflexes!hookVars, cuts>>
  BY <1>7, OthersKeep, FetchEnough DEF Reflexes!hookVars, ReflexInv, ReflexTyped
<1>8. CASE UNCHANGED Reflexes!vars
  BY <1>8 DEF Reflexes!vars, Reflexes!hookVars, Reflexes!fetchVars, ReflexInv,
     ReflexTyped, Reflexes!PrivateStaysOut,
     Reflexes!InsightFitsPrompt, Exact
<1> QED
  BY <1>1, <1>2, <1>3, <1>4, <1>5, <1>6, <1>7, <1>8 DEF Reflexes!Next

(* Of what was said, what is the last of its kind.                         *)
Latest(s, i) == \A k \in DOMAIN s : i < k => s[k].kind # s[i].kind

(* The second repeats nothing of the first.                                *)
Differ(a, b) ==
    \/ a.kind = "nudge" /\ b.at - a.at >= Cooldown
    \/ <<a.text, a.made>> # <<b.text, b.made>> /\ a.kind # "nudge"

(* Of what is kept, nothing is said again before something else of its kind *)
(* was.                                                                     *)
Once(s, K) ==
    \A i \in K, j \in DOMAIN s : i < j /\ s[i].kind = s[j].kind =>
        \/ \E k \in i + 1..j - 1 : s[k].kind = s[i].kind
        \/ Differ(s[i], s[j])

(* The turn remembers what is the last of its kind: the packet, the block,  *)
(* and up to when there was a nudge.                                        *)
Matches(one, ins, blk, until) ==
    /\ one.kind = "insight" =>
           ins = {[for |-> one.made, made |-> one.made, text |-> one.text]}
    /\ one.kind = "block" => blk = {one.text} /\ one.made = NoPrompt
    /\ one.kind = "nudge" => one.at <= until
Remembered(s, K, ins, blk, until) ==
    \A i \in K : Latest(s, i) => Matches(s[i], ins, blk, until)

(* What the turn remembers is not repeated by one thing more, and is still  *)
(* remembered after it if it is of another kind.                            *)
Updates(s, one, ins, blk, until, ins2, blk2, until2) ==
    \A i \in DOMAIN s : Matches(s[i], ins, blk, until) =>
        IF s[i].kind = one.kind THEN Differ(s[i], one) ELSE Matches(s[i], ins2, blk2, until2)

(* What of a kind is kept, and what all of it cost.                        *)
OfKind(s, K, kind) == {i \in K : s[i].kind = kind}
Weight(s, K) ==
    2 * Cardinality(OfKind(s, K, "insight")) + Cardinality(OfKind(s, K, "block"))

(* What is kept of what was said agrees with what a turn remembers.        *)
Agrees(s, K, ins, blk, until, spent) ==
    /\ Once(s, K) /\ Remembered(s, K, ins, blk, until)
    /\ Weight(s, K) = spent /\ spent <= Budget
AgreesWith(s, K, t, now) ==
    Agrees(s, K, t.insight, t.block, t.nudged + (now - t.n), t.spent)

(* What is saved, and what will be when the turn is.                       *)
SavedOf(s) == {i \in DOMAIN s : s[i].saved}
KeptOf(s, now) == {i \in DOMAIN s : s[i].saved \/ s[i].at = now}

(* The inductive invariant of what was said: the file of the turn agrees    *)
(* with what is saved, and what is about to be saved with what will be.     *)
SaidInv ==
    /\ \A i \in DOMAIN said : said[i].at <= turns
    /\ AgreesWith(said, SavedOf(said), turnFile, turns)
    /\ host = "printed" => AgreesWith(said, KeptOf(said, turns), saving, turns)

(* One more thing is said.                                                 *)
LEMMA OneMore ==
    ASSUME NEW s \in Seq(SpeechRecord), NEW one \in SpeechRecord
    PROVE  /\ s \o <<one>> \in Seq(SpeechRecord) /\ Len(s) \in Nat /\ DOMAIN s = 1..Len(s)
           /\ DOMAIN (s \o <<one>>) = 1..(Len(s) + 1)
           /\ \A i \in 1..Len(s) : (s \o <<one>>)[i] = s[i]
           /\ (s \o <<one>>)[Len(s) + 1] = one
OBVIOUS

(* What was the last of its kind is so, or was before, when more is said.  *)
LEMMA LatestBefore ==
    ASSUME NEW s, NEW t, NEW n \in Nat, DOMAIN s = 1..n, DOMAIN t = 1..(n + 1),
           \A i \in 1..n : t[i] = s[i], NEW one, t[n + 1] = one,
           NEW i \in 1..n, Latest(t, i)
    PROVE  Latest(s, i) /\ s[i].kind # one.kind
<1>1. \A k \in 1..n : k \in 1..(n + 1)
  OBVIOUS
<1>2. n + 1 \in 1..(n + 1) /\ i < n + 1
  OBVIOUS
<1>3. t[i] = s[i]
  OBVIOUS
<1>4. \A k \in DOMAIN t : i < k => t[k].kind # t[i].kind
  BY Zenon DEF Latest
<1>5. Latest(s, i)
  BY <1>1, <1>3, <1>4, Zenon DEF Latest
<1>6. t[n + 1].kind # t[i].kind
  BY <1>2, <1>4, Zenon
<1> QED
  BY <1>3, <1>5, <1>6, Zenon

(* What is kept is not repeated by one thing more that differs from what   *)
(* is the last of its kind.                                                *)
LEMMA OnceGrows ==
    ASSUME NEW s, NEW t, NEW n \in Nat, DOMAIN s = 1..n, DOMAIN t = 1..(n + 1),
           \A i \in 1..n : t[i] = s[i], NEW one, t[n + 1] = one,
           NEW K \in SUBSET (1..n), Once(s, K),
           \A i \in K : Latest(s, i) /\ s[i].kind = one.kind => Differ(s[i], one)
    PROVE  Once(t, K) /\ Once(t, K \cup {n + 1})
<1>1. ASSUME NEW i \in K, NEW j \in 1..(n + 1), i < j, t[i].kind = t[j].kind
      PROVE  \/ \E k \in i + 1..j - 1 : t[k].kind = t[i].kind
             \/ Differ(t[i], t[j])
  <2>0. i \in 1..n /\ t[i] = s[i] /\ i \in Nat
    OBVIOUS
  <2>1. CASE j \in 1..n
    <3>1. t[j] = s[j]
      BY <2>1
    <3>2. \A k \in i + 1..j - 1 : k \in 1..n
      BY <2>0, <2>1
    <3>3. \A k \in i + 1..j - 1 : t[k] = s[k]
      BY <3>2
    <3>4. \/ \E k \in i + 1..j - 1 : s[k].kind = s[i].kind
          \/ Differ(s[i], s[j])
      <4>1. j \in DOMAIN s /\ s[i].kind = s[j].kind
        BY <1>1, <2>0, <2>1, <3>1, Zenon
      <4> QED
        BY <1>1, <4>1, Zenon DEF Once
    <3> QED
      BY <2>0, <3>1, <3>3, <3>4, Zenon
  <2>2. CASE j = n + 1
    <3>1. CASE Latest(s, i)
      <4>1. s[i].kind = t[n + 1].kind
        BY <1>1, <2>0, <2>2, Zenon
      <4> QED
        BY <2>0, <2>2, <3>1, <4>1, Zenon
    <3>2. CASE ~Latest(s, i)
      <4>1. PICK k \in 1..n : i < k /\ s[k].kind = s[i].kind
        BY <3>2, Zenon DEF Latest
      <4>2. k \in i + 1..j - 1
        BY <2>0, <2>2, <4>1
      <4>3. t[k] = s[k]
        BY <4>1, Zenon
      <4> QED
        BY <2>0, <4>1, <4>2, <4>3, Zenon
    <3> QED
      BY <3>1, <3>2
  <2> QED
    BY <2>1, <2>2
<1>2. \A j \in 1..(n + 1) : ~(n + 1 < j)
  OBVIOUS
<1>3. Once(t, K)
  BY <1>1, Zenon DEF Once
<1>4. Once(t, K \cup {n + 1})
  <2> SUFFICES ASSUME NEW i \in K \cup {n + 1}, NEW j \in DOMAIN t, i < j,
                      t[i].kind = t[j].kind
               PROVE  \/ \E k \in i + 1..j - 1 : t[k].kind = t[i].kind
                      \/ Differ(t[i], t[j])
    BY Zenon DEF Once
  <2>1. CASE i \in K
    BY <2>1, <1>1
  <2>2. CASE i = n + 1
    BY <2>2, <1>2
  <2> QED
    BY <2>1, <2>2
<1> QED
  BY <1>3, <1>4

(* The cost is that of the kinds.                                          *)
LEMMA WeightSame ==
    ASSUME NEW s, NEW t, NEW K, \A i \in K : t[i].kind = s[i].kind
    PROVE  Weight(t, K) = Weight(s, K)
<1>1. /\ OfKind(t, K, "insight") = OfKind(s, K, "insight")
      /\ OfKind(t, K, "block") = OfKind(s, K, "block")
  BY DEF OfKind
<1> QED
  BY <1>1 DEF Weight

(* What one thing more costs.                                              *)
LEMMA WeightGrows ==
    ASSUME NEW s, NEW t, NEW n \in Nat, \A i \in 1..n : t[i] = s[i],
           NEW one, t[n + 1] = one, NEW K \in SUBSET (1..n),
           one.kind \in {"insight", "block", "nudge"}
    PROVE  /\ Weight(s, K) \in Nat /\ Weight(t, K) = Weight(s, K)
           /\ Weight(t, K \cup {n + 1}) = Weight(s, K) + Reflexes!Cost(one.kind)
<1> DEFINE A(kind) == OfKind(s, K, kind)
<1>1. n + 1 \notin 1..n /\ IsFiniteSet(1..n)
  BY FS_Interval
<1>2. \A kind : /\ OfKind(t, K, kind) = OfKind(s, K, kind)
                /\ OfKind(t, K \cup {n + 1}, kind) =
                     IF one.kind = kind THEN OfKind(s, K, kind) \cup {n + 1}
                     ELSE OfKind(s, K, kind)
  <2> TAKE kind
  <2>1. \A i \in K : t[i] = s[i]
    OBVIOUS
  <2> QED
    BY <2>1 DEF OfKind
<1>3. \A kind : /\ IsFiniteSet(OfKind(s, K, kind)) /\ n + 1 \notin OfKind(s, K, kind)
                /\ Cardinality(OfKind(s, K, kind)) \in Nat
                /\ Cardinality(OfKind(s, K, kind) \cup {n + 1}) =
                     Cardinality(OfKind(s, K, kind)) + 1
  <2> TAKE kind
  <2>1. OfKind(s, K, kind) \subseteq 1..n
    BY DEF OfKind
  <2>2. IsFiniteSet(OfKind(s, K, kind)) /\ n + 1 \notin OfKind(s, K, kind)
    BY <1>1, <2>1, FS_Subset
  <2> QED
    BY <2>2, FS_AddElement, FS_CardinalityType
<1>4. /\ Cardinality(OfKind(s, K, "insight")) \in Nat
      /\ Cardinality(OfKind(s, K, "block")) \in Nat
  BY <1>3, Zenon
<1>5. CASE one.kind = "insight"
  <2>1. Reflexes!Cost(one.kind) = 2
    BY <1>5 DEF Reflexes!Cost
  <2>2. /\ OfKind(t, K \cup {n + 1}, "insight") = OfKind(s, K, "insight") \cup {n + 1}
        /\ OfKind(t, K \cup {n + 1}, "block") = OfKind(s, K, "block")
    BY <1>2, <1>5
  <2>3. Cardinality(OfKind(t, K \cup {n + 1}, "insight")) =
             Cardinality(OfKind(s, K, "insight")) + 1
    BY <1>3, <2>2, Zenon
  <2> QED
    BY <1>2, <1>4, <2>1, <2>2, <2>3 DEF Weight
<1>6. CASE one.kind = "block"
  <2>1. Reflexes!Cost(one.kind) = 1
    BY <1>6 DEF Reflexes!Cost
  <2>2. /\ OfKind(t, K \cup {n + 1}, "block") = OfKind(s, K, "block") \cup {n + 1}
        /\ OfKind(t, K \cup {n + 1}, "insight") = OfKind(s, K, "insight")
    BY <1>2, <1>6
  <2>3. Cardinality(OfKind(t, K \cup {n + 1}, "block")) =
             Cardinality(OfKind(s, K, "block")) + 1
    BY <1>3, <2>2, Zenon
  <2> QED
    BY <1>2, <1>4, <2>1, <2>2, <2>3 DEF Weight
<1>7. CASE one.kind = "nudge"
  <2>1. Reflexes!Cost(one.kind) = 0
    BY <1>7 DEF Reflexes!Cost
  <2>2. /\ OfKind(t, K \cup {n + 1}, "block") = OfKind(s, K, "block")
        /\ OfKind(t, K \cup {n + 1}, "insight") = OfKind(s, K, "insight")
    BY <1>2, <1>7
  <2> QED
    BY <1>2, <1>4, <2>1, <2>2 DEF Weight
<1> QED
  BY <1>5, <1>6, <1>7

(* What is kept of the first is kept of the second.                        *)
LEMMA OnceOfLess ==
    ASSUME NEW s, NEW K, NEW L \in SUBSET K, Once(s, K)
    PROVE  Once(s, L)
BY DEF Once

(* One thing more that is not saved yet.                                   *)
LEMMA KeptGrows ==
    ASSUME NEW s \in Seq(SpeechRecord), NEW one \in SpeechRecord, ~one.saved
    PROVE  /\ SavedOf(s \o <<one>>) = SavedOf(s)
           /\ KeptOf(s \o <<one>>, one.at) = KeptOf(s, one.at) \cup {Len(s) + 1}
<1> DEFINE t == s \o <<one>>
<1>1. PICK n \in Nat : /\ n = Len(s) /\ DOMAIN s = 1..n /\ DOMAIN t = 1..(n + 1)
                       /\ (\A i \in 1..n : t[i] = s[i]) /\ t[n + 1] = one
  BY OneMore
<1> HIDE DEF t
<1>2. \A i : i \in 1..(n + 1) <=> i \in 1..n \/ i = n + 1
  BY <1>1
<1>3. \A i : i \in SavedOf(t) <=> i \in SavedOf(s)
  BY <1>1, <1>2, Zenon DEF SavedOf
<1>4. \A i : i \in KeptOf(t, one.at) <=> i \in KeptOf(s, one.at) \/ i = n + 1
  BY <1>1, <1>2, Zenon DEF KeptOf
<1>5. SavedOf(t) = SavedOf(s) /\ KeptOf(t, one.at) = KeptOf(s, one.at) \cup {n + 1}
  BY <1>3, <1>4
<1> QED
  BY <1>1, <1>5 DEF t

(* What is kept of more that was said agrees with what was remembered; and  *)
(* with it the one thing more, if it differs and the turn remembers it.     *)
LEMMA AgreesGrows ==
    ASSUME NEW s, NEW t, NEW n \in Nat, DOMAIN s = 1..n, DOMAIN t = 1..(n + 1),
           \A i \in 1..n : t[i] = s[i], NEW one, t[n + 1] = one,
           one.kind \in {"insight", "block", "nudge"},
           NEW K \in SUBSET (1..n), NEW L \in SUBSET K, NEW spent \in Int,
           NEW ins, NEW blk, NEW until, Agrees(s, K, ins, blk, until, spent),
           NEW ins0, NEW blk0, NEW until0, NEW spent0,
           Agrees(s, L, ins0, blk0, until0, spent0),
           NEW ins2, NEW blk2, NEW until2,
           Matches(one, ins2, blk2, until2), spent + Reflexes!Cost(one.kind) <= Budget,
           Updates(s, one, ins, blk, until, ins2, blk2, until2)
    PROVE  /\ Agrees(t, L, ins0, blk0, until0, spent0)
           /\ Agrees(t, K \cup {n + 1}, ins2, blk2, until2,
                     spent + Reflexes!Cost(one.kind))
<1>0. \A i \in 1..n : Matches(s[i], ins, blk, until) =>
          IF s[i].kind = one.kind THEN Differ(s[i], one)
          ELSE Matches(s[i], ins2, blk2, until2)
  BY Zenon DEF Updates
<1>1. \A i \in K : Latest(s, i) => Matches(s[i], ins, blk, until)
  BY Zenon DEF Agrees, Remembered
<1>2. Once(t, K) /\ Once(t, K \cup {n + 1})
  <2>1. \A i \in K : Latest(s, i) /\ s[i].kind = one.kind => Differ(s[i], one)
    BY <1>0, <1>1
  <2>2. Once(s, K)
    BY DEF Agrees
  <2> QED
    BY <2>1, <2>2, OnceGrows
<1>3. Once(t, L)
  BY <1>2, OnceOfLess
<1>4. \A i \in 1..n : Latest(t, i) => Latest(s, i) /\ s[i].kind # one.kind
  BY LatestBefore
<1>5. Remembered(t, L, ins0, blk0, until0)
  <2> SUFFICES ASSUME NEW i \in L, Latest(t, i) PROVE Matches(t[i], ins0, blk0, until0)
    BY Zenon DEF Remembered
  <2>1. i \in 1..n /\ t[i] = s[i]
    OBVIOUS
  <2>2. Matches(s[i], ins0, blk0, until0)
    BY <1>4, <2>1, Zenon DEF Agrees, Remembered
  <2> QED
    BY <2>1, <2>2, Zenon
<1>6. Remembered(t, K \cup {n + 1}, ins2, blk2, until2)
  <2> SUFFICES ASSUME NEW i \in K \cup {n + 1}, Latest(t, i)
               PROVE  Matches(t[i], ins2, blk2, until2)
    BY Zenon DEF Remembered
  <2>1. CASE i = n + 1
    BY <2>1, Zenon
  <2>2. CASE i \in K
    <3>1. i \in 1..n /\ t[i] = s[i]
      BY <2>2
    <3>2. Matches(s[i], ins2, blk2, until2)
      BY <1>0, <1>1, <1>4, <2>2, <3>1, Zenon
    <3> QED
      BY <3>1, <3>2, Zenon
  <2> QED
    BY <2>1, <2>2
<1>7. Weight(t, L) = Weight(s, L)
  <2>1. \A i \in L : t[i].kind = s[i].kind
    OBVIOUS
  <2> QED
    BY <2>1, WeightSame
<1>8. Weight(t, K \cup {n + 1}) = spent + Reflexes!Cost(one.kind)
  <2>1. Weight(s, K) = spent
    BY DEF Agrees
  <2>2. Weight(t, K \cup {n + 1}) = Weight(s, K) + Reflexes!Cost(one.kind)
    BY WeightGrows
  <2> QED
    BY <2>1, <2>2
<1>9. Agrees(t, L, ins0, blk0, until0, spent0)
  BY <1>3, <1>5, <1>7, Zenon DEF Agrees
<1>10. Agrees(t, K \cup {n + 1}, ins2, blk2, until2, spent + Reflexes!Cost(one.kind))
  BY <1>2, <1>6, <1>8, Zenon DEF Agrees
<1> QED
  BY <1>9, <1>10

(* One thing more is said, and its turn is not saved yet: what is saved     *)
(* agrees with the file as before, and with it what will be saved, if it    *)
(* differs from what was said and the turn remembers it.                    *)
LEMMA SayOne ==
    ASSUME NEW s \in Seq(SpeechRecord), NEW one \in SpeechRecord, ~one.saved,
           NEW ins, NEW blk, NEW until, NEW spent \in Int,
           Agrees(s, KeptOf(s, one.at), ins, blk, until, spent),
           NEW ins0, NEW blk0, NEW until0, NEW spent0,
           Agrees(s, SavedOf(s), ins0, blk0, until0, spent0),
           NEW ins2, NEW blk2, NEW until2,
           Matches(one, ins2, blk2, until2), spent + Reflexes!Cost(one.kind) <= Budget,
           Updates(s, one, ins, blk, until, ins2, blk2, until2)
    PROVE  LET t == s \o <<one>>
           IN  /\ t \in Seq(SpeechRecord)
               /\ Agrees(t, SavedOf(t), ins0, blk0, until0, spent0)
               /\ Agrees(t, KeptOf(t, one.at), ins2, blk2, until2,
                         spent + Reflexes!Cost(one.kind))
<1> DEFINE t == s \o <<one>>
<1>1. PICK n \in Nat : /\ n = Len(s) /\ DOMAIN s = 1..n /\ DOMAIN t = 1..(n + 1)
                       /\ (\A i \in 1..n : t[i] = s[i]) /\ t[n + 1] = one
                       /\ t \in Seq(SpeechRecord)
  BY OneMore
<1>2. SavedOf(t) = SavedOf(s) /\ KeptOf(t, one.at) = KeptOf(s, one.at) \cup {n + 1}
  BY <1>1, KeptGrows
<1> HIDE DEF t
<1>3. PICK K \in SUBSET (1..n) : K = KeptOf(s, one.at)
  BY <1>1 DEF KeptOf
<1>4. PICK L \in SUBSET K : L = SavedOf(s)
  BY <1>3 DEF KeptOf, SavedOf
<1>5. /\ one.kind \in {"insight", "block", "nudge"}
      /\ Agrees(s, K, ins, blk, until, spent) /\ Agrees(s, L, ins0, blk0, until0, spent0)
  BY <1>1, <1>3, <1>4, Zenon DEF SpeechRecord
<1>6. /\ Agrees(t, L, ins0, blk0, until0, spent0)
      /\ Agrees(t, K \cup {n + 1}, ins2, blk2, until2,
                spent + Reflexes!Cost(one.kind))
  <2>1. /\ DOMAIN s = 1..n /\ DOMAIN t = 1..(n + 1)
        /\ (\A i \in 1..n : t[i] = s[i]) /\ t[n + 1] = one
    BY <1>1
  <2> HIDE <1>1, <1>2, <1>3, <1>4
  <2> QED
    BY <1>5, <2>1, AgreesGrows, ZenonT(40)
<1>7. /\ t \in Seq(SpeechRecord)
      /\ Agrees(t, SavedOf(t), ins0, blk0, until0, spent0)
      /\ Agrees(t, KeptOf(t, one.at), ins2, blk2, until2, spent + Reflexes!Cost(one.kind))
  BY <1>1, <1>2, <1>3, <1>4, <1>6, Zenon
<1> QED
  BY <1>7 DEF t

(* A turn may remember a nudge for longer.                                 *)
LEMMA UntilGrows ==
    ASSUME NEW s \in Seq(SpeechRecord), NEW K \in SUBSET (DOMAIN s), NEW ins, NEW blk,
           NEW until \in Int, NEW later \in Int, until <= later, NEW spent,
           Agrees(s, K, ins, blk, until, spent)
    PROVE  Agrees(s, K, ins, blk, later, spent)
<1>1. \A i \in K : s[i].at \in Int
  <2>1. \A i \in K : s[i] \in SpeechRecord
    OBVIOUS
  <2> QED
    BY <2>1 DEF SpeechRecord
<1>2. \A i \in K : s[i].at <= until => s[i].at <= later
  BY <1>1
<1>3. Remembered(s, K, ins, blk, later)
  BY <1>2, Zenon DEF Agrees, Remembered, Matches
<1> QED
  BY <1>3 DEF Agrees

(* That something is saved does not change what it is.                     *)
LEMMA SameAgrees ==
    ASSUME NEW s, NEW t, NEW K \in SUBSET (DOMAIN s), DOMAIN t = DOMAIN s,
           \A i \in DOMAIN s : /\ t[i].kind = s[i].kind /\ t[i].made = s[i].made
                               /\ t[i].text = s[i].text /\ t[i].at = s[i].at,
           NEW ins, NEW blk, NEW until, NEW spent, Agrees(s, K, ins, blk, until, spent),
           NEW n \in Nat, DOMAIN s = 1..n
    PROVE  Agrees(t, K, ins, blk, until, spent)
<1>1. Once(t, K)
  <2> SUFFICES ASSUME NEW i \in K, NEW j \in 1..n, i < j, t[i].kind = t[j].kind
               PROVE  \/ \E k \in i + 1..j - 1 : t[k].kind = t[i].kind
                      \/ Differ(t[i], t[j])
    BY Zenon DEF Once
  <2>1. i \in 1..n
    OBVIOUS
  <2>2. \A k \in i + 1..j - 1 : k \in 1..n
    BY <2>1
  <2>3. s[i].kind = s[j].kind
    BY <2>1, Zenon
  <2>4. (\E k \in i + 1..j - 1 : s[k].kind = s[i].kind) \/ Differ(s[i], s[j])
    BY <2>1, <2>3, Zenon DEF Agrees, Once
  <2>5. CASE \E k \in i + 1..j - 1 : s[k].kind = s[i].kind
    BY <2>1, <2>2, <2>5, Zenon
  <2>6. CASE Differ(s[i], s[j])
    <3>1. /\ t[i].kind = s[i].kind /\ t[i].made = s[i].made /\ t[i].text = s[i].text
          /\ t[i].at = s[i].at /\ t[j].made = s[j].made /\ t[j].text = s[j].text
          /\ t[j].at = s[j].at
      BY <2>1, Zenon
    <3> QED
      BY <2>6, <3>1, Zenon DEF Differ
  <2> QED
    BY <2>4, <2>5, <2>6
<1>2. Remembered(t, K, ins, blk, until)
  <2> SUFFICES ASSUME NEW i \in K, Latest(t, i) PROVE Matches(t[i], ins, blk, until)
    BY Zenon DEF Remembered
  <2>1. Latest(s, i)
    BY Zenon DEF Latest
  <2>2. Matches(s[i], ins, blk, until)
    BY <2>1, Zenon DEF Agrees, Remembered
  <2>3. /\ t[i].kind = s[i].kind /\ t[i].made = s[i].made /\ t[i].text = s[i].text
        /\ t[i].at = s[i].at
    OBVIOUS
  <2> QED
    BY <2>2, <2>3, Zenon DEF Matches
<1>3. Weight(t, K) = Weight(s, K)
  BY WeightSame
<1> QED
  BY <1>1, <1>2, <1>3, Zenon DEF Agrees

(* What was said was said by then.                                         *)
LEMMA AtGrows ==
    ASSUME NEW s \in Seq(SpeechRecord), NEW one \in SpeechRecord,
           \A i \in DOMAIN s : s[i].at <= one.at
    PROVE  \A i \in DOMAIN (s \o <<one>>) : (s \o <<one>>)[i].at <= one.at
<1> DEFINE t == s \o <<one>>
<1>1. PICK n \in Nat : /\ DOMAIN s = 1..n /\ DOMAIN t = 1..(n + 1)
                       /\ (\A i \in 1..n : t[i] = s[i]) /\ t[n + 1] = one
  BY OneMore
<1> HIDE DEF t
<1>2. \A i : i \in 1..(n + 1) <=> i \in 1..n \/ i = n + 1
  BY <1>1
<1>3. one.at \in Int /\ one.at <= one.at
  BY DEF SpeechRecord
<1>4. \A i \in DOMAIN t : t[i].at <= one.at
  BY <1>1, <1>2, <1>3, Zenon
<1> QED
  BY <1>4 DEF t

(* The fields of a turn that is about to be saved.                         *)
LEMMA NextTurn ==
    ASSUME NEW t \in TurnRecord, NEW m, NEW v, NEW q
    PROVE  LET next == [t EXCEPT !.n = m, !.private = v, !.prompt = q]
           IN  /\ next.n = m /\ next.spent = t.spent /\ next.insight = t.insight
               /\ next.block = t.block /\ next.nudged = t.nudged
BY Zenon DEF TurnRecord

(* ... and of one that is told something.                                 *)
LEMMA NextFields ==
    ASSUME NEW t \in TurnRecord, NEW m, NEW v, NEW q, NEW a, NEW b, NEW c, NEW d
    PROVE  LET next == [t EXCEPT !.n = m, !.private = v, !.prompt = q]
               new == [next EXCEPT !.spent = a, !.insight = b, !.block = c, !.nudged = d]
           IN  /\ new.n = m /\ new.spent = a /\ new.insight = b /\ new.block = c
               /\ new.nudged = d
BY Zenon DEF TurnRecord

(* Nothing was said yet.                                                   *)
LEMMA SaidInit == Reflexes!Init => SaidInv
<1> SUFFICES ASSUME Reflexes!Init PROVE SaidInv
  OBVIOUS
<1>1. said = <<>> /\ host # "printed" /\ turnFile = Reflexes!NoTurn
  BY DEF Reflexes!Init
<1>2. (\A i : i \notin DOMAIN said) /\ SavedOf(said) = {}
  BY <1>1 DEF SavedOf
<1>3. /\ \A kind : OfKind(said, {}, kind) = {}
      /\ turnFile.spent = 0 /\ Budget \in Nat
  BY <1>1, Assumed DEF OfKind, Reflexes!NoTurn, Reflexes!ReflexAssumption
<1>4. Weight(said, {}) = 0
  <2>1. OfKind(said, {}, "insight") = {} /\ OfKind(said, {}, "block") = {}
    BY <1>3, Zenon
  <2> QED
    BY <2>1, FS_EmptySet DEF Weight
<1>5. Once(said, {}) /\ \A ins, blk, until : Remembered(said, {}, ins, blk, until)
  BY DEF Once, Remembered
<1>6. turnFile.spent <= Budget
  BY <1>3
<1> QED
  BY <1>1, <1>2, <1>3, <1>4, <1>5, <1>6 DEF SaidInv, AgreesWith, Agrees

(* The turn is saved, and with it what was said in it.                     *)
LEMMA SaveSays ==
    ASSUME ReflexInv, SaidInv, Reflexes!Save
    PROVE  SaidInv'
<1>1. /\ host = "printed" /\ host' = "turn" /\ turnFile' = saving /\ turns' = turns
      /\ said' = [i \in DOMAIN said |-> [said[i] EXCEPT !.saved = @ \/ said[i].at = turns]]
  BY DEF Reflexes!Save
<1>2. said \in Seq(SpeechRecord)
  BY DEF ReflexInv, ReflexTyped
<1>3. PICK n \in Nat : DOMAIN said = 1..n /\ \A i \in 1..n : said[i] \in SpeechRecord
  BY <1>2
<1>4. DOMAIN said' = DOMAIN said
  BY <1>1
<1>5. ASSUME NEW i \in DOMAIN said
      PROVE  /\ said'[i].kind = said[i].kind /\ said'[i].made = said[i].made
             /\ said'[i].text = said[i].text /\ said'[i].at = said[i].at
             /\ said'[i].saved <=> said[i].saved \/ said[i].at = turns
  <2> DEFINE b == said[i].saved \/ said[i].at = turns
  <2>1. said[i] \in SpeechRecord
    BY <1>3
  <2>2. said'[i] = [said[i] EXCEPT !.saved = b]
    BY <1>1
  <2>3. b <=> said[i].saved \/ said[i].at = turns
    OBVIOUS
  <2> HIDE DEF b
  <2>4. /\ said'[i].kind = said[i].kind /\ said'[i].made = said[i].made
        /\ said'[i].text = said[i].text /\ said'[i].at = said[i].at
        /\ said'[i].saved = b
    BY <2>1, <2>2, Zenon DEF SpeechRecord
  <2> QED
    BY <2>3, <2>4, Zenon
<1>6. SavedOf(said') = KeptOf(said, turns)
  <2>1. \A i : i \in SavedOf(said') <=> i \in KeptOf(said, turns)
    BY <1>4, <1>5, Zenon DEF SavedOf, KeptOf
  <2> QED
    BY <2>1
<1>7. AgreesWith(said', KeptOf(said, turns), saving, turns)
  <2>1. AgreesWith(said, KeptOf(said, turns), saving, turns)
    BY <1>1 DEF SaidInv
  <2>2. KeptOf(said, turns) \in SUBSET (DOMAIN said)
    BY DEF KeptOf
  <2>3. PICK ins, blk, until, spent :
            /\ ins = saving.insight /\ blk = saving.block /\ spent = saving.spent
            /\ until = saving.nudged + (turns - saving.n)
    OBVIOUS
  <2>4. Agrees(said, KeptOf(said, turns), ins, blk, until, spent)
    BY <2>1, <2>3, Zenon DEF AgreesWith
  <2>5. \A i \in DOMAIN said :
            /\ said'[i].kind = said[i].kind /\ said'[i].made = said[i].made
            /\ said'[i].text = said[i].text /\ said'[i].at = said[i].at
    BY <1>5
  <2>6. Agrees(said', KeptOf(said, turns), ins, blk, until, spent)
    BY <1>3, <1>4, <2>2, <2>4, <2>5, SameAgrees, Zenon
  <2> QED
    BY <2>3, <2>6, Zenon DEF AgreesWith
<1>8. \A i \in DOMAIN said' : said'[i].at <= turns'
  BY <1>1, <1>4, <1>5 DEF SaidInv
<1> QED
  BY <1>1, <1>6, <1>7, <1>8 DEF SaidInv

(* The hook is killed before it saves: a nudge is remembered for longer.   *)
LEMMA RestSays ==
    ASSUME ReflexInv, SaidInv, UNCHANGED <<said, turnFile, turns>>,
           UNCHANGED <<host, saving>> \/ host' # "printed"
    PROVE  SaidInv'
BY DEF SaidInv

(* What is printed is a packet made for its prompt.                        *)
LEMMA PacketIs ==
    ASSUME ReflexInv, NEW p
    PROVE  LET q == Reflexes!Insight(p)
           IN  q = [for |-> q.made, made |-> q.made, text |-> q.text]
<1>1. recall.insight \in PacketRecord /\ recall.insight.for = recall.insight.made
  BY DEF ReflexInv, ReflexTyped, Reflexes!Doc, PacketRecord, Exact
<1>2. Reflexes!NoInsight \in PacketRecord
      /\ Reflexes!NoInsight.for = Reflexes!NoInsight.made
  BY NoDoc DEF Reflexes!NoInsight
<1>3. Reflexes!Insight(p) \in PacketRecord
      /\ Reflexes!Insight(p).for = Reflexes!Insight(p).made
  BY <1>1, <1>2 DEF Reflexes!Insight
<1> HIDE DEF PacketRecord
<1>4. PICK q \in PacketRecord : q = Reflexes!Insight(p) /\ q.for = q.made
  BY <1>3
<1>5. q = [for |-> q.made, made |-> q.made, text |-> q.text]
  BY <1>4 DEF PacketRecord
<1> QED
  BY <1>4, <1>5, Zenon

(* The prompt is told what the turn does not remember.                     *)
LEMMA SubmitSays ==
    ASSUME ReflexInv, SaidInv, NEW p \in Prompts, Reflexes!Submit(p)
    PROVE  SaidInv'
<1> DEFINE what == Reflexes!Injected(p)
           u == turnFile.nudged + (turns - turnFile.n)
           next == [turnFile EXCEPT !.n = @ + 1, !.private = p \in Private,
                                    !.prompt = IF p \in Private THEN NoPrompt ELSE p]
<1>1. /\ turnFile \in TurnRecord /\ turns \in Int /\ said \in Seq(SpeechRecord)
      /\ turnFile.n \in Int /\ turnFile.nudged \in Int /\ turnFile.spent \in Int
      /\ u \in Int
  BY DEF ReflexInv, ReflexTyped, TurnRecord
<1>2. host' = "printed" /\ turns' = turns + 1 /\ turnFile' = turnFile
  BY DEF Reflexes!Submit
<1>3. /\ Agrees(said, SavedOf(said), turnFile.insight, turnFile.block, u, turnFile.spent)
      /\ \A i \in DOMAIN said : said[i].at \in Int /\ said[i].at <= turns
  <2>1. \A i \in DOMAIN said : said[i] \in SpeechRecord
    BY <1>1
  <2> QED
    BY <2>1 DEF SaidInv, AgreesWith, SpeechRecord
<1>4. KeptOf(said, turns + 1) = SavedOf(said)
  <2>1. \A i \in DOMAIN said : said[i].at # turns + 1
    BY <1>1, <1>3
  <2> QED
    BY <2>1 DEF KeptOf, SavedOf
<1>5. \A i \in DOMAIN said : said[i].at <= turns + 1
  BY <1>1, <1>3
<1> DEFINE Good(s, ins, blk, until, spent) ==
             /\ s \in Seq(SpeechRecord) /\ \A i \in DOMAIN s : s[i].at <= turns + 1
             /\ Agrees(s, SavedOf(s), turnFile.insight, turnFile.block, u, turnFile.spent)
             /\ Agrees(s, KeptOf(s, turns + 1), ins, blk, until, spent)
<1>6. ASSUME Good(said', saving'.insight, saving'.block,
                  saving'.nudged + ((turns + 1) - saving'.n), saving'.spent)
      PROVE  SaidInv'
  <2> DEFINE later == turnFile.nudged + ((turns + 1) - turnFile.n)
  <2>1. later \in Int /\ u <= later
    BY <1>1
  <2>2. SavedOf(said') \in SUBSET (DOMAIN said')
    BY DEF SavedOf
  <2> HIDE DEF u, later
  <2>3. Agrees(said', SavedOf(said'), turnFile.insight, turnFile.block, later, turnFile.spent)
    BY <1>1, <1>6, <2>1, <2>2, UntilGrows
  <2>4. AgreesWith(said', SavedOf(said'), turnFile', turns')
    <3>1. PICK m \in Int : m = turns + 1 /\ m = turns'
      BY <1>1, <1>2
    <3>2. later = turnFile'.nudged + (m - turnFile'.n)
      BY <1>2, <3>1, Zenon DEF later
    <3> QED
      BY <1>2, <2>3, <3>1, <3>2, Zenon DEF AgreesWith
  <2>5. AgreesWith(said', KeptOf(said', turns'), saving', turns')
    <3>1. PICK m \in Int : m = turns + 1 /\ m = turns'
      BY <1>1, <1>2
    <3>2. Agrees(said', KeptOf(said', m), saving'.insight, saving'.block,
                 saving'.nudged + (m - saving'.n), saving'.spent)
      BY <1>6, <3>1, Zenon
    <3>3. AgreesWith(said', KeptOf(said', m), saving', m)
      BY <3>2, Zenon DEF AgreesWith
    <3> QED
      BY <3>1, <3>3, Zenon
  <2> QED
    BY <1>2, <1>6, <2>4, <2>5, Zenon DEF SaidInv
<1>7. Good(said, turnFile.insight, turnFile.block, u, turnFile.spent)
  BY <1>1, <1>3, <1>4, <1>5, Zenon
<1>8. CASE p \in Private
  <2>1. saving' = next /\ said' = said
    BY <1>8 DEF Reflexes!Submit
  <2>2. /\ saving'.n = turnFile.n + 1 /\ saving'.spent = turnFile.spent
        /\ saving'.insight = turnFile.insight /\ saving'.block = turnFile.block
        /\ saving'.nudged = turnFile.nudged
    BY <1>1, <2>1, NextTurn
  <2>3. saving'.nudged + ((turns + 1) - saving'.n) = u
    BY <1>1, <2>2
  <2> QED
    BY <1>6, <1>7, <2>1, <2>2, <2>3, Zenon
<1>9. CASE p \notin Private
  <2> DEFINE cost == Reflexes!Cost(what)
             ins == IF what = "insight" THEN {Reflexes!Insight(p)} ELSE turnFile.insight
             blk == IF what = "block" THEN {recall.block} ELSE turnFile.block
             said1 == said \o (IF what = "nothing" THEN <<>>
                               ELSE <<Reflexes!Saying(p, what)>>)
  <2>1. /\ saving'.n = turnFile.n + 1 /\ saving'.spent = turnFile.spent + cost
        /\ saving'.insight = ins /\ saving'.block = blk
        /\ saving'.nudged = IF Reflexes!Nudge(p) THEN turnFile.n + 1 ELSE turnFile.nudged
    <3>1. next.n = turnFile.n + 1 /\ next.spent = turnFile.spent
          /\ next.insight = turnFile.insight /\ next.block = turnFile.block
          /\ next.nudged = turnFile.nudged
      BY <1>1, NextTurn
    <3>2. saving' = [next EXCEPT
                       !.spent = next.spent + cost,
                       !.insight = IF what = "insight" THEN {Reflexes!Insight(p)}
                                   ELSE next.insight,
                       !.block = IF what = "block" THEN {recall.block} ELSE next.block,
                       !.nudged = IF Reflexes!Nudge(p) THEN next.n ELSE next.nudged]
      BY <1>9 DEF Reflexes!Submit
    <3>3. saving' = [next EXCEPT
                       !.spent = turnFile.spent + cost, !.insight = ins, !.block = blk,
                       !.nudged = IF Reflexes!Nudge(p) THEN turnFile.n + 1
                                  ELSE turnFile.nudged]
      <4> HIDE DEF next, what, cost
      <4> QED
        BY <3>1, <3>2, Zenon
    <3> HIDE DEF what, cost, ins, blk
    <3> QED
      BY <1>1, <3>3, NextFields
  <2>2. said' = said1 \o (IF Reflexes!Nudge(p) THEN <<Reflexes!Saying(p, "nudge")>>
                          ELSE <<>>)
    BY <1>9 DEF Reflexes!Submit
  <2>3. what \in {"insight", "block", "nothing"}
    BY DEF Reflexes!Injected
  <2>4. ASSUME NEW kind \in {"insight", "block", "nudge"}
        PROVE  LET one == Reflexes!Saying(p, kind)
               IN  /\ one.kind = kind /\ ~one.saved /\ one.at = turns + 1
                   /\ one.made = IF kind = "insight" THEN Reflexes!Insight(p).made
                                 ELSE NoPrompt
                   /\ kind = "insight" => one.text = Reflexes!Insight(p).text
                   /\ kind = "block" => one.text = recall.block
    BY DEF Reflexes!Saying
  <2>5. Good(said1, ins, blk, u, turnFile.spent + cost)
    <3>1. CASE what = "nothing"
      <4>1. said1 = said /\ ins = turnFile.insight /\ blk = turnFile.block /\ cost = 0
        BY <1>1, <3>1 DEF Reflexes!Cost
      <4>2. turnFile.spent + cost = turnFile.spent
        BY <1>1, <4>1
      <4> QED
        BY <1>7, <4>1, <4>2, Zenon
    <3>2. CASE what # "nothing"
      <4>1. PICK one : one = Reflexes!Saying(p, what)
        OBVIOUS
      <4>2. one \in SpeechRecord
        BY <2>3, <3>2, <4>1, SayingIs
      <4>3. /\ one.kind = what /\ ~one.saved /\ one.at = turns + 1
            /\ one.made = IF what = "insight" THEN Reflexes!Insight(p).made ELSE NoPrompt
            /\ what = "insight" => one.text = Reflexes!Insight(p).text
            /\ what = "block" => one.text = recall.block
        BY <2>3, <2>4, <3>2, <4>1
      <4>4. turnFile.spent + Reflexes!Cost(what) <= Budget
        BY <3>2 DEF Reflexes!Injected
      <4>5. Matches(one, ins, blk, u)
        BY <3>2, <2>3, <4>3, PacketIs DEF Matches
      <4>6. Updates(said, one, turnFile.insight, turnFile.block, u, ins, blk, u)
        <5> SUFFICES ASSUME NEW i \in DOMAIN said,
                            Matches(said[i], turnFile.insight, turnFile.block, u)
                     PROVE  IF said[i].kind = one.kind THEN Differ(said[i], one)
                            ELSE Matches(said[i], ins, blk, u)
          BY Zenon DEF Updates
        <5>1. CASE what = "insight"
          <6>1. {Reflexes!Insight(p)} # turnFile.insight
            BY <5>1 DEF Reflexes!Injected
          <6>2. CASE said[i].kind = "insight"
            <7>1. turnFile.insight = {[for |-> said[i].made, made |-> said[i].made,
                                       text |-> said[i].text]}
              BY <6>2 DEF Matches
            <7>2. Reflexes!Insight(p) = [for |-> one.made, made |-> one.made,
                                         text |-> one.text]
              BY <4>3, <5>1, PacketIs
            <7>3. <<said[i].text, said[i].made>> # <<one.text, one.made>>
              BY <6>1, <7>1, <7>2
            <7> QED
              BY <4>3, <5>1, <6>2, <7>3 DEF Differ
          <6>3. CASE said[i].kind # "insight"
            BY <4>3, <5>1, <6>3 DEF Matches
          <6> QED
            BY <6>2, <6>3
        <5>2. CASE what = "block"
          <6>1. {recall.block} # turnFile.block
            BY <5>2 DEF Reflexes!Injected
          <6>2. CASE said[i].kind = "block"
            <7>1. turnFile.block = {said[i].text}
              BY <6>2 DEF Matches
            <7>2. <<said[i].text, said[i].made>> # <<one.text, one.made>>
              BY <4>3, <5>2, <6>1, <7>1
            <7> QED
              BY <4>3, <5>2, <6>2, <7>2 DEF Differ
          <6>3. CASE said[i].kind # "block"
            BY <4>3, <5>2, <6>3 DEF Matches
          <6> QED
            BY <6>2, <6>3
        <5> QED
          BY <2>3, <3>2, <5>1, <5>2
      <4>7. said1 = said \o <<one>>
        BY <3>2, <4>1
      <4> HIDE DEF what, ins, blk, u
      <4>8. /\ ~one.saved /\ one.at = turns + 1 /\ cost = Reflexes!Cost(one.kind)
            /\ turnFile.spent + Reflexes!Cost(one.kind) <= Budget
        BY <4>3, <4>4
      <4>9. /\ said \o <<one>> \in Seq(SpeechRecord)
            /\ Agrees(said \o <<one>>, SavedOf(said \o <<one>>), turnFile.insight,
                      turnFile.block, u, turnFile.spent)
            /\ Agrees(said \o <<one>>, KeptOf(said \o <<one>>, one.at), ins, blk, u,
                      turnFile.spent + Reflexes!Cost(one.kind))
        <5>1. /\ Agrees(said, KeptOf(said, one.at), turnFile.insight, turnFile.block, u,
                        turnFile.spent)
              /\ turnFile.spent \in Int
          BY <1>1, <1>3, <1>4, <4>8, Zenon
        <5> HIDE <2>4
        <5> QED
          BY <1>1, <1>3, <4>2, <4>5, <4>6, <4>8, <5>1, SayOne
      <4>10. \A i \in DOMAIN (said \o <<one>>) : (said \o <<one>>)[i].at <= one.at
        BY <1>1, <1>5, <4>2, <4>8, AtGrows, Zenon
      <4> QED
        BY <4>7, <4>8, <4>9, <4>10, Zenon
    <3> QED
      BY <3>1, <3>2
  <2>6. CASE ~Reflexes!Nudge(p)
    <3>1. said' = said1
      BY <2>2, <2>5, <2>6
    <3>2. saving'.nudged + ((turns + 1) - saving'.n) = u
      BY <1>1, <2>1, <2>6
    <3> QED
      BY <1>6, <2>1, <2>5, <3>1, <3>2, Zenon
  <2>7. CASE Reflexes!Nudge(p)
    <3>1. PICK one : one = Reflexes!Saying(p, "nudge")
      OBVIOUS
    <3>2. one \in SpeechRecord /\ one.kind = "nudge" /\ ~one.saved /\ one.at = turns + 1
      BY <2>4, <3>1, SayingIs
    <3>3. Matches(one, ins, blk, turns + 1)
      BY <1>1, <3>2 DEF Matches
    <3>4. turnFile.n + 1 - turnFile.nudged >= Cooldown /\ Cooldown \in Int
      BY <2>7, Assumed DEF Reflexes!Nudge, Reflexes!ReflexAssumption
    <3>5. Updates(said1, one, ins, blk, u, ins, blk, turns + 1)
      <4> SUFFICES ASSUME NEW i \in DOMAIN said1, Matches(said1[i], ins, blk, u)
                   PROVE  IF said1[i].kind = one.kind THEN Differ(said1[i], one)
                          ELSE Matches(said1[i], ins, blk, turns + 1)
        BY Zenon DEF Updates
      <4>1. CASE said1[i].kind = "nudge"
        <5>1. said1[i].at <= u
          BY <4>1 DEF Matches
        <5>2. said1[i].at \in Int
          <6>1. said1 \in Seq(SpeechRecord)
            BY <2>5
          <6> HIDE DEF said1
          <6>2. said1[i] \in SpeechRecord
            BY <6>1
          <6> QED
            BY <6>2 DEF SpeechRecord
        <5>3. PICK a \in Int, t \in Int, n \in Int, d \in Int :
                  /\ a = said1[i].at /\ t = turns /\ n = turnFile.n /\ d = turnFile.nudged
          BY <1>1, <5>2, Zenon
        <5> HIDE DEF said1, ins, blk
        <5>4. a <= d + (t - n) /\ n + 1 - d >= Cooldown /\ one.at = t + 1
          BY <3>2, <3>4, <5>1, <5>3, Zenon
        <5>5. one.at - said1[i].at >= Cooldown
          <6>1. (t + 1) - a >= Cooldown
            BY <3>4, <5>4
          <6> QED
            BY <5>3, <5>4, <6>1, Zenon
        <5> QED
          BY <3>2, <4>1, <5>5 DEF Differ
      <4>2. CASE said1[i].kind # "nudge"
        <5> HIDE DEF said1, ins, blk
        <5> QED
          BY <3>2, <4>2 DEF Matches
      <4> QED
        BY <4>1, <4>2
    <3>6. saving'.nudged + ((turns + 1) - saving'.n) = turns + 1
      BY <1>1, <2>1, <2>7
    <3>7. said' = said1 \o <<one>>
      BY <2>2, <2>7, <3>1
    <3> HIDE DEF what, ins, blk, u, said1, cost
    <3>8. PICK sp \in Int : sp = turnFile.spent + cost /\ sp + Reflexes!Cost(one.kind) = sp
      <4>1. turnFile.spent + cost \in Int
        BY <1>1, <2>3 DEF cost, Reflexes!Cost
      <4> QED
        BY <3>2, <4>1 DEF Reflexes!Cost
    <3>9. sp <= Budget
      BY <2>5, <3>8 DEF Agrees
    <3>10. /\ said1 \o <<one>> \in Seq(SpeechRecord)
           /\ Agrees(said1 \o <<one>>, SavedOf(said1 \o <<one>>), turnFile.insight,
                     turnFile.block, u, turnFile.spent)
           /\ Agrees(said1 \o <<one>>, KeptOf(said1 \o <<one>>, one.at), ins, blk, turns + 1,
                     sp + Reflexes!Cost(one.kind))
      <4>1. /\ said1 \in Seq(SpeechRecord)
            /\ Agrees(said1, KeptOf(said1, one.at), ins, blk, u, sp)
            /\ Agrees(said1, SavedOf(said1), turnFile.insight, turnFile.block, u,
                      turnFile.spent)
        BY <2>5, <3>2, <3>8, Zenon
      <4>2. sp + Reflexes!Cost(one.kind) <= Budget
        BY <3>8, <3>9
      <4> HIDE <2>4
      <4> QED
        BY <3>2, <3>3, <3>5, <4>1, <4>2, SayOne
    <3>11. \A i \in DOMAIN (said1 \o <<one>>) : (said1 \o <<one>>)[i].at <= one.at
      BY <2>5, <3>2, AtGrows, Zenon
    <3> QED
      BY <1>6, <2>1, <3>2, <3>6, <3>7, <3>8, <3>10, <3>11, Zenon
  <2> QED
    BY <2>6, <2>7
<1> QED
  BY <1>8, <1>9

(* Every step of the reflexes keeps it.                                    *)
LEMMA SaidKept ==
    ReflexInv /\ SaidInv /\ [Reflexes!Next]_(Reflexes!vars) => SaidInv'
<1> SUFFICES ASSUME ReflexInv, SaidInv, [Reflexes!Next]_(Reflexes!vars) PROVE SaidInv'
  OBVIOUS
<1>1. CASE \E p \in Prompts : Reflexes!Submit(p)
  BY <1>1, SubmitSays
<1>2. CASE Reflexes!Save
  BY <1>2, SaveSays
<1>3. CASE Reflexes!HookCut \/ Reflexes!Reflects \/ Reflexes!Stop
  BY <1>3, RestSays DEF Reflexes!HookCut, Reflexes!Reflects, Reflexes!Stop
<1>4. CASE \/ UNCHANGED <<insights, Reflexes!hookVars>> \/ UNCHANGED Reflexes!vars
  BY <1>4, RestSays DEF Reflexes!vars, Reflexes!hookVars
<1> QED
  BY <1>1, <1>2, <1>3, <1>4 DEF Reflexes!Next

(* Then nothing is said twice.                                             *)
LEMMA SaidIsGood == ReflexInv /\ SaidInv => Reflexes!SaidOnce
<1> SUFFICES ASSUME ReflexInv, SaidInv PROVE Reflexes!SaidOnce
  OBVIOUS
<1>1. /\ Once(said, SavedOf(said)) /\ Weight(said, SavedOf(said)) = turnFile.spent
      /\ turnFile.spent <= Budget
  BY DEF SaidInv, AgreesWith, Agrees
<1>2. ASSUME NEW i \in DOMAIN said, NEW j \in DOMAIN said,
             i < j, said[i].kind = said[j].kind, said[i].saved
      PROVE  \/ \E k \in i + 1..j - 1 : said[k].kind = said[i].kind
             \/ said[i].kind = "nudge" /\ said[j].at - said[i].at >= Cooldown
             \/ /\ <<said[i].text, said[i].made>> # <<said[j].text, said[j].made>>
                /\ said[i].kind # "nudge"
  <2>1. i \in SavedOf(said)
    BY <1>2 DEF SavedOf
  <2> QED
    BY <1>1, <1>2, <2>1, Zenon DEF Once, Differ
<1>3. Reflexes!Given("insight") + Reflexes!Given("block") = Weight(said, SavedOf(said))
  <2>1. \A kind : {i \in DOMAIN said : said[i].saved /\ said[i].kind = kind} =
                  OfKind(said, SavedOf(said), kind)
    BY DEF OfKind, SavedOf
  <2>2. \A S : Reflexes!Cardinality(S) = Cardinality(S)
    BY DEF Reflexes!Cardinality, Cardinality
  <2>3. \A kind : Reflexes!Given(kind) =
                    Reflexes!Cost(kind) * Cardinality(OfKind(said, SavedOf(said), kind))
    BY <2>1, <2>2, Zenon DEF Reflexes!Given
  <2>4. \A kind : Cardinality(OfKind(said, SavedOf(said), kind)) \in Nat
    <3>1. PICK n \in Nat : DOMAIN said = 1..n
      BY DEF ReflexInv, ReflexTyped
    <3>2. \A kind : OfKind(said, SavedOf(said), kind) \subseteq 1..n
      BY <3>1 DEF OfKind, SavedOf
    <3>3. IsFiniteSet(1..n)
      BY FS_Interval
    <3> QED
      BY <3>2, <3>3, FS_Subset, FS_CardinalityType
  <2>5. Reflexes!Cost("insight") = 2 /\ Reflexes!Cost("block") = 1
    BY DEF Reflexes!Cost
  <2>6. PICK a \in Nat, b \in Nat :
            /\ a = Cardinality(OfKind(said, SavedOf(said), "insight"))
            /\ b = Cardinality(OfKind(said, SavedOf(said), "block"))
    BY <2>4
  <2>7. Reflexes!Given("insight") = 2 * a /\ Reflexes!Given("block") = 1 * b
    BY <2>3, <2>5, <2>6, Zenon
  <2> QED
    BY <2>6, <2>7 DEF Weight
<1> QED
  BY <1>1, <1>2, <1>3 DEF Reflexes!SaidOnce

(***************************************************************************)
(* The backend of Claude                                                   *)
(***************************************************************************)

(* A wizard that is running, for the self-hosted edition or for the cloud.  *)
Wizards == [at : Claude!Steps, want : Claude!Outcome, env : Claude!Route,
    was : SUBSET Claude!Outcome, whole : BOOLEAN]
CeSteps == {"local", "global", "os", "desktop", "dotenv"}
CloudSteps == {"auth", "clearOs", "clearDesktop", "clearLocal", "clearGlobal"}

(* Each variable of the configuration has its type.                         *)
ClaudeTyped ==
    /\ local \in Claude!Route \cup {Absent, Broken} /\
           global \in Claude!Route \cup {Absent, Broken}
    /\ os \in Claude!Route /\ desktop \in Claude!Route \cup {Absent}
    /\ dotenv \in Claude!Route \cup {Absent} /\ fallback \in Claude!Route \cup {Absent}
    /\ wizard = Claude!Idle \/ wizard \in Wizards
    /\ expect \subseteq Claude!Outcome /\ torn \in BOOLEAN

(* A route that leads to nothing but what was chosen or named at some time. *)
Chosen(r) ==
    r.end \in ever \cup {Nowhere} /\ (r.ce /\ r.end = Nowhere => Home \in ever)

(* No place says anything else, and the wizard writes nothing else.         *)
AllChosen ==
    /\ local \notin {Absent, Broken} => Chosen(local)
    /\ global \notin {Absent, Broken} => Chosen(global)
    /\ desktop # Absent => Chosen(desktop)
    /\ dotenv # Absent => Chosen(dotenv)
    /\ fallback # Absent => Chosen(fallback)
    /\ os.end \in ever \cup {Nowhere}
    /\ Cloud \in ever
    /\ wizard.at # "idle" => wizard.want \in ever

(* The wizard takes the steps of the edition that was asked for.            *)
WantFits ==
    /\ wizard.at # "idle" => wizard.want \in expect
    /\ wizard.at \in CeSteps => wizard.want \in Claude!Endpoint
    /\ wizard.at \in CloudSteps => wizard.want = Cloud

(* What holds whatever is interrupted or refused.                           *)
ClaudeGround == ClaudeTyped /\ AllChosen /\ WantFits

(* The user's settings name an endpoint.                                    *)
Named == \E i \in {1, 2} : Claude!Ours[i].end # Nowhere

(* What one place says leads to nothing but the choices in X.               *)
SettingsFit(X) ==
    /\ Claude!Says(local).end \in X \cup {Nowhere}
    /\ Claude!Says(global).end \in X \cup {Nowhere} \/ Claude!Says(local).end # Nowhere
    /\ ~Named /\ (\E i \in {1, 2} : Claude!Ours[i].ce) => Home \in X
    /\ Cloud \notin X => \E i \in {1, 2} : Claude!Ours[i].ce
OsFits(X) == os.end \in X \cup {Nowhere}
DesktopFits(X) ==
    desktop # Absent =>
        /\ desktop.end \in X \cup {Nowhere}
        /\ desktop.ce /\ desktop.end = Nowhere => Home \in X
DotenvFits(X) == Claude!DotenvRead.end \in X \cup {Nowhere} \/ Cloud \in X

(* Every place leads to nothing but the choices in X.                       *)
Fits(X) == SettingsFit(X) /\ OsFits(X) /\ DesktopFits(X) /\ DotenvFits(X)

(* Only one of the two files is there.                                      *)
Dotenvs == IF writable THEN fallback = Absent ELSE dotenv = Absent

(* The persisted environment names an endpoint only while the settings do,  *)
(* or did when the wizard that is running began: so it is cleared.          *)
OsBacked ==
    os.end # Nowhere =>
        /\ wizard.at \in {"auth", "local", "global", "os", "clearOs"} =>
               wizard.env.end # Nowhere
        /\ wizard.at \notin {"global", "os"} => Named

(* What the wizard has done so far, if no write of it was refused.          *)
Progress ==
    wizard.at # "idle" /\ wizard.whole =>
        /\ wizard.at = "global" => local \in {Absent, Broken, Claude!Pairs}
        /\ wizard.at \in {"os", "desktop", "dotenv"} => SettingsFit({wizard.want})
        /\ wizard.at \in {"desktop", "dotenv"} /\ (torn => wizard.want # Home) =>
               OsFits({wizard.want})
        /\ wizard.at = "dotenv" => DesktopFits({wizard.want})

(* What the wizard has cleared so far, and that it goes on as it began.     *)
Clearing ==
    /\ wizard.at # "idle" => wizard.whole
    /\ wizard.at = "auth" => Fits(wizard.was)
    /\ wizard.at \in {"clearDesktop", "clearLocal", "clearGlobal"} => os.end = Nowhere
    /\ wizard.at \in {"clearLocal", "clearGlobal"} =>
           desktop \in {Absent, Claude!Nothing}
    /\ wizard.at = "clearGlobal" => Claude!Says(local) = Claude!Nothing

(* What holds as long as no choice is torn: every place leads to what may   *)
(* be served, the settings unless one file of two is written.               *)
Sound ==
    /\ ~Claude!BetweenFiles => SettingsFit(expect)
    /\ OsFits(expect) /\ DesktopFits(expect) /\ DotenvFits(expect)
    /\ Dotenvs /\ OsBacked /\ Clearing

(* The inductive invariant of the configuration.                            *)
ClaudeInv == ClaudeGround /\ Progress /\ (~torn => Sound)

(***************************************************************************)
(* Of the places that name an endpoint the first one counts.               *)
(***************************************************************************)
LEMMA FirstIs ==
    ASSUME NEW routes, NEW n \in {3, 5}, DOMAIN routes = 1 .. n, NEW S, Nowhere \notin S
    PROVE  \/ Claude!FirstEnd(routes, S) = Nowhere /\
                  \A i \in 1 .. n : routes[i].end \notin S
           \/ \E i \in 1 .. n : /\ Claude!FirstEnd(routes, S) = routes[i].end /\
                                       routes[i].end \in S
                                /\ \A j \in 1 .. n : j < i => routes[j].end \notin S
<1> DEFINE those == {i \in DOMAIN routes : routes[i].end \in S}
<1>1. CASE those = {}
  BY <1>1 DEF Claude!FirstEnd
<1>2. CASE those # {}
  <2>1. \E i \in those : \A j \in those : i <= j
    <3>1. n = 3 \/ n = 5
      OBVIOUS
    <3>2. \A i \in those : i \in {1, 2, 3, 4, 5}
      BY <3>1
    <3>3. CASE 1 \in those  BY <3>2, <3>3
    <3>4. CASE 1 \notin those /\ 2 \in those  BY <3>2, <3>4
    <3>5. CASE 1 \notin those /\ 2 \notin those /\ 3 \in those  BY <3>2, <3>5
    <3>6. CASE 1 \notin those /\ 2 \notin those /\ 3 \notin those /\
        4 \in those  BY <3>2, <3>6
    <3>7. CASE 1 \notin those /\ 2 \notin those /\ 3 \notin those /\ 4 \notin those
      BY <3>2, <3>7, <1>2
    <3> QED
      BY <3>3, <3>4, <3>5, <3>6, <3>7
  <2> DEFINE first == CHOOSE i \in those : \A j \in those : i <= j
  <2>2. first \in those /\ \A j \in those : first <= j
    BY <2>1
  <2>3. Claude!FirstEnd(routes, S) = routes[first].end
    BY <1>2 DEF Claude!FirstEnd
  <2>4. first \in 1 .. n /\ routes[first].end \in S
    BY <2>2
  <2>5. \A j \in 1 .. n : j < first => routes[j].end \notin S
    BY <2>2, <2>4
  <2> HIDE DEF first
  <2> QED
    BY <2>3, <2>4, <2>5
<1> QED
  BY <1>1, <1>2

(* What a settings file says is a route.                                    *)
LEMMA SaysIs ==
    ASSUME ClaudeTyped
    PROVE  /\ Claude!Says(local) \in Claude!Route /\
                  Claude!Says(global) \in Claude!Route
           /\ Claude!DotenvRead \in Claude!Route /\ Claude!Nothing \in Claude!Route
           /\ Claude!Ours[1] = Claude!Says(local) /\
                  Claude!Ours[2] = Claude!Says(global)
<1>1. Claude!Nothing \in Claude!Route
  BY DEF Claude!Nothing, Claude!Route
<1> QED
  BY <1>1 DEF ClaudeTyped, Claude!Says, Claude!Readable, Claude!DotenvRead, Claude!Ours

(* A route names an endpoint or none.                                       *)
LEMMA EndsAre ==
    ASSUME NEW r \in Claude!Route
    PROVE  /\ r.end \in Near \cup {Nowhere} /\ r.ce \in BOOLEAN
           /\ r # Absent /\ r # Broken
           /\ r.end \in Near <=> r.end # Nowhere
BY Assumed DEF Claude!Route, Claude!BackendAssumption

(* If every place fits the choices then so does what a launch makes of      *)
(* them.                                                                    *)
LEMMA ServedFits ==
    ASSUME ClaudeTyped, Fits(expect), NEW process \in Claude!Hosts
    PROVE  Claude!Served(process) \in expect \/ Claude!LeftInDotenv
<1> DEFINE all == Claude!Ours \o <<process, os, Claude!DotenvRead>>
           end == Claude!FirstEnd(all, Near)
<1>0. ClaudeTyped /\ Fits(expect)
  OBVIOUS
<1>1. process \in Claude!Route /\ (process = Claude!Nothing \/ (process = desktop /\
    desktop # Absent))
  BY <1>0, SaysIs DEF Claude!Hosts, ClaudeTyped
<1>2. /\ DOMAIN all = 1 .. 5 /\ all[1] = Claude!Says(local) /\
             all[2] = Claude!Says(global)
      /\ all[3] = process /\ all[4] = os /\ all[5] = Claude!DotenvRead
  BY DEF Claude!Ours
<1>3. Nowhere \notin Near
  BY Assumed DEF Claude!BackendAssumption
<1>4. \A i \in 1 .. 5 : all[i].end \in Near <=> all[i].end # Nowhere
  <2>1. all[1] \in Claude!Route /\ all[2] \in Claude!Route /\
      all[3] \in Claude!Route /\ all[4] \in Claude!Route
        /\ all[5] \in Claude!Route
    BY <1>0, <1>1, <1>2, SaysIs DEF ClaudeTyped
  <2> HIDE DEF all
  <2> QED
    BY <2>1, EndsAre
<1> HIDE DEF all
<1>5. Claude!Served(process) = IF end # Nowhere THEN end
                        ELSE IF process.ce \/ Claude!DotenvRead.ce \/
                            \E i \in {1, 2} : Claude!Ours[i].ce
                             THEN Home ELSE Cloud
  BY DEF Claude!Served, Claude!Hydrated, all, end
<1>6. Claude!Ours[1] = Claude!Says(local) /\ Claude!Ours[2] = Claude!Says(global)
  BY DEF Claude!Ours
<1>7. CASE end = Nowhere /\ \A i \in 1 .. 5 : all[i].end \notin Near
  <2>1. /\ Claude!Says(local).end = Nowhere /\ Claude!Says(global).end = Nowhere /\
               process.end = Nowhere
        /\ os.end = Nowhere /\ Claude!DotenvRead.end = Nowhere
    BY <1>2, <1>4, <1>7
  <2>2. ~Named
    BY <2>1, <1>6 DEF Named
  <2>3. CASE \E i \in {1, 2} : Claude!Ours[i].ce
    BY <2>2, <2>3, <1>0, <1>5, <1>7 DEF Fits, SettingsFit
  <2>4. CASE Claude!DotenvRead.ce /\ ~\E i \in {1, 2} : Claude!Ours[i].ce
    <3>1. Cloud \in expect /\ Claude!DotenvRead # Claude!Nothing
      BY <2>4, <1>0 DEF Fits, SettingsFit, Claude!Nothing
    <3> QED
      BY <3>1 DEF Claude!LeftInDotenv
  <2>5. CASE process.ce
    BY <2>1, <2>5, <1>0, <1>1, <1>5, <1>7 DEF Fits, DesktopFits, Claude!Nothing
  <2>6. CASE ~process.ce /\ ~Claude!DotenvRead.ce /\
      ~\E i \in {1, 2} : Claude!Ours[i].ce
    BY <2>6, <1>0, <1>5, <1>7 DEF Fits, SettingsFit
  <2> QED
    BY <2>3, <2>4, <2>5, <2>6
<1>8. ASSUME NEW i \in 1 .. 5, end = all[i].end, all[i].end \in Near,
             \A j \in 1 .. 5 : j < i => all[j].end \notin Near
      PROVE  Claude!Served(process) \in expect \/ Claude!LeftInDotenv
  <2>0. end # Nowhere /\ Claude!Served(process) = end
    BY <1>3, <1>5, <1>8
  <2>1. CASE i = 1
    BY <2>0, <2>1, <1>8, <1>2, <1>0 DEF Fits, SettingsFit
  <2>2. CASE i = 2
    BY <2>0, <2>2, <1>8, <1>2, <1>4, <1>0 DEF Fits, SettingsFit
  <2>3. CASE i = 3
    BY <2>0, <2>3, <1>8, <1>2, <1>1, <1>0 DEF Fits, DesktopFits, Claude!Nothing
  <2>4. CASE i = 4
    BY <2>0, <2>4, <1>8, <1>2, <1>0 DEF Fits, OsFits
  <2>5. CASE i = 5
    <3>1. Claude!DotenvRead.end # Nowhere /\ Claude!DotenvRead.end = end
      BY <2>0, <2>5, <1>8, <1>2
    <3>2. Claude!DotenvRead # Claude!Nothing
      BY <3>1 DEF Claude!Nothing
    <3> QED
      BY <2>0, <3>1, <3>2, <1>0 DEF Fits, DotenvFits, Claude!LeftInDotenv
  <2> QED
    BY <2>1, <2>2, <2>3, <2>4, <2>5
<1> QED
  <2>1. \/ end = Nowhere /\ \A i \in 1 .. 5 : all[i].end \notin Near
        \/ \E i \in 1 .. 5 : /\ end = all[i].end /\ all[i].end \in Near
                             /\ \A j \in 1 .. 5 : j < i => all[j].end \notin Near
    BY <1>2, <1>3, FirstIs
  <2> QED
    BY <2>1, <1>7, <1>8

(* A launch serves what was chosen or named at some time.                   *)
LEMMA ServedChosen ==
    ASSUME ClaudeGround, NEW process \in Claude!Hosts
    PROVE  Claude!Served(process) \in ever
<1> DEFINE all == Claude!Ours \o <<process, os, Claude!DotenvRead>>
           end == Claude!FirstEnd(all, Near)
<1>0. ClaudeTyped /\ AllChosen
  BY DEF ClaudeGround
<1>1. Chosen(Claude!Nothing)
  BY DEF Chosen, Claude!Nothing
<1>2. /\ Chosen(Claude!Says(local)) /\ Chosen(Claude!Says(global))
      /\ Chosen(process) /\ Chosen(Claude!DotenvRead)
  BY <1>0, <1>1 DEF AllChosen, Claude!Says, Claude!Readable, Claude!Hosts,
     Claude!DotenvRead
<1>3. /\ DOMAIN all = 1 .. 5 /\ all[1] = Claude!Says(local) /\
             all[2] = Claude!Says(global)
      /\ all[3] = process /\ all[4] = os /\ all[5] = Claude!DotenvRead
  BY DEF Claude!Ours
<1>4. Nowhere \notin Near
  BY Assumed DEF Claude!BackendAssumption
<1>5. process \in Claude!Route
  BY <1>0, SaysIs DEF Claude!Hosts, ClaudeTyped
<1>6. \A i \in 1 .. 5 : /\ all[i].end \in Near <=> all[i].end # Nowhere
                        /\ all[i].end \in ever \cup {Nowhere}
  <2>1. all[1] \in Claude!Route /\ all[2] \in Claude!Route /\
      all[3] \in Claude!Route /\ all[4] \in Claude!Route
        /\ all[5] \in Claude!Route
    BY <1>0, <1>3, <1>5, SaysIs DEF ClaudeTyped
  <2>2. all[1].end \in ever \cup {Nowhere} /\ all[2].end \in ever \cup {Nowhere}
        /\ all[3].end \in ever \cup {Nowhere} /\ all[4].end \in ever \cup {Nowhere}
        /\ all[5].end \in ever \cup {Nowhere}
    BY <1>0, <1>2, <1>3 DEF AllChosen, Chosen
  <2> HIDE DEF all
  <2> QED
    BY <2>1, <2>2, EndsAre
<1> HIDE DEF all
<1>7. Claude!Served(process) = IF end # Nowhere THEN end
                        ELSE IF process.ce \/ Claude!DotenvRead.ce \/
                            \E i \in {1, 2} : Claude!Ours[i].ce
                             THEN Home ELSE Cloud
  BY DEF Claude!Served, Claude!Hydrated, all, end
<1>8. CASE end = Nowhere /\ \A i \in 1 .. 5 : all[i].end \notin Near
  <2>1. /\ Claude!Says(local).end = Nowhere /\ Claude!Says(global).end = Nowhere
        /\ process.end = Nowhere /\ Claude!DotenvRead.end = Nowhere
    BY <1>3, <1>6, <1>8
  <2>2. (\E i \in {1, 2} : Claude!Ours[i].ce) =>
            Claude!Says(local).ce \/ Claude!Says(global).ce
    BY DEF Claude!Ours
  <2> QED
    BY <1>0, <1>2, <1>7, <1>8, <2>1, <2>2 DEF AllChosen, Chosen
<1>9. ASSUME NEW i \in 1 .. 5, end = all[i].end, all[i].end \in Near
      PROVE  Claude!Served(process) \in ever
  BY <1>4, <1>6, <1>7, <1>9
<1> QED
  <2>1. \/ end = Nowhere /\ \A i \in 1 .. 5 : all[i].end \notin Near
        \/ \E i \in 1 .. 5 : end = all[i].end /\ all[i].end \in Near
    BY <1>3, <1>4, FirstIs
  <2> QED
    BY <2>1, <1>8, <1>9

(* The invariant says that the choice is served.                            *)
LEMMA ClaudeIsGood == ClaudeInv => Claude!SelectionIsServed
<1> SUFFICES ASSUME ClaudeInv, NEW process \in Claude!Hosts
             PROVE  /\ torn \/ Claude!BetweenFiles \/ Claude!LeftInDotenv
                           \/ Claude!Served(process) \in expect
                    /\ Claude!Served(process) \in ever
  BY DEF Claude!SelectionIsServed
<1>1. ~torn /\ ~Claude!BetweenFiles => Fits(expect)
  BY DEF ClaudeInv, Sound, Fits
<1> QED
  BY <1>1, ServedFits, ServedChosen DEF ClaudeInv, ClaudeGround

(* What leads to some of the choices leads to more of them.                 *)
LEMMA FitsGrows ==
    ASSUME NEW X, NEW Y, X \subseteq Y
    PROVE  /\ SettingsFit(X) => SettingsFit(Y)
           /\ OsFits(X) => OsFits(Y)
           /\ DesktopFits(X) => DesktopFits(Y)
           /\ DotenvFits(X) => DotenvFits(Y)
           /\ Fits(X) => Fits(Y)
<1>1. SettingsFit(X) => SettingsFit(Y)
  BY DEF SettingsFit
<1>2. (OsFits(X) => OsFits(Y)) /\ (DesktopFits(X) => DesktopFits(Y))
  BY DEF OsFits, DesktopFits
<1>3. DotenvFits(X) => DotenvFits(Y)
  BY DEF DotenvFits
<1> QED
  BY <1>1, <1>2, <1>3 DEF Fits

(* Kumiho Cloud is what is served at first.                                 *)
LEMMA ClaudeInit == Claude!Init => ClaudeInv
<1> SUFFICES ASSUME Claude!Init PROVE ClaudeInv
  OBVIOUS
<1>0. wizard.at = "idle" /\ wizard = Claude!Idle
  BY DEF Claude!Init, Claude!Idle
<1>1. ClaudeTyped
  <2>1. Claude!Nothing \in Claude!Route
    BY DEF Claude!Nothing, Claude!Route
  <2> QED
    BY <2>1 DEF Claude!Init, ClaudeTyped, Claude!Outcome
<1>2. Claude!Says(local) = Claude!Nothing /\ Claude!Says(global) = Claude!Nothing /\
    Claude!DotenvRead = Claude!Nothing
  BY DEF Claude!Init, Claude!Says, Claude!Readable, Claude!DotenvRead
<1>3. Fits(expect)
  BY <1>2 DEF Claude!Init, Fits, SettingsFit, OsFits, DesktopFits, DotenvFits,
     Claude!Ours, Named, Claude!Nothing
<1>4. AllChosen
  BY <1>0 DEF Claude!Init, AllChosen, Chosen, Claude!Nothing
<1>5. Sound
  BY <1>0, <1>3 DEF Claude!Init, Sound, Fits, Dotenvs, OsBacked, Clearing, Claude!Nothing
<1> QED
  BY <1>0, <1>1, <1>4, <1>5 DEF ClaudeInv, ClaudeGround, WantFits, Progress, CeSteps,
     CloudSteps

(***************************************************************************)
(* The steps                                                               *)
(***************************************************************************)
LEMMA WizardIs ==
    ASSUME ClaudeTyped, wizard.at # "idle"
    PROVE  wizard \in Wizards
BY DEF ClaudeTyped, Claude!Idle

(* The wizard goes on, or passes over a write that was refused.             *)
LEMMA GoesOn ==
    ASSUME ClaudeTyped, NEW step \in Claude!Steps, wizard.at # "idle",
           Claude!Goto(step) \/ Claude!PassOver(step)
    PROVE  /\ wizard' \in Wizards /\ wizard'.at = step /\ wizard'.want = wizard.want
           /\ wizard'.env = wizard.env /\ wizard'.was = wizard.was
           /\ torn' \in BOOLEAN /\ step # "idle"
           /\ \/ torn' = torn /\ wizard'.whole = wizard.whole
              \/ torn' = TRUE /\ wizard'.whole = FALSE
           /\ Claude!Goto(step) => torn' = torn /\ wizard'.whole = wizard.whole
           /\ Claude!PassOver(step) => torn' = TRUE /\ wizard'.whole = FALSE
<1>1. wizard \in Wizards /\ torn \in BOOLEAN
  BY WizardIs DEF ClaudeTyped
<1>2. step # "idle"
  BY DEF Claude!Steps
<1>3. CASE Claude!Goto(step)
  <2>1. wizard' = [wizard EXCEPT !.at = step] /\ torn' = torn
    BY <1>3 DEF Claude!Goto
  <2>2. /\ wizard' \in Wizards /\ wizard'.at = step /\ wizard'.want = wizard.want
        /\ wizard'.env = wizard.env /\ wizard'.was = wizard.was
        /\ wizard'.whole = wizard.whole
    BY <1>1, <2>1 DEF Wizards
  <2>3. Claude!PassOver(step) => torn' = TRUE /\ wizard'.whole = FALSE
    BY <1>1 DEF Claude!PassOver, Claude!Refuse, Wizards
  <2> QED
    BY <1>1, <1>2, <2>1, <2>2, <2>3
<1>4. CASE Claude!PassOver(step)
  <2>1. wizard' = [wizard EXCEPT !.at = step, !.whole = FALSE] /\ torn' = TRUE
    BY <1>4 DEF Claude!PassOver, Claude!Refuse
  <2>2. /\ wizard' \in Wizards /\ wizard'.at = step /\ wizard'.want = wizard.want
        /\ wizard'.env = wizard.env /\ wizard'.was = wizard.was
        /\ wizard'.whole = FALSE
    BY <1>1, <2>1 DEF Wizards
  <2>3. Claude!Goto(step) => torn' = torn /\ wizard'.whole = wizard.whole
    BY <1>1 DEF Claude!Goto, Wizards
  <2> QED
    BY <1>1, <1>2, <2>1, <2>2, <2>3
<1> QED
  BY <1>3, <1>4

(* What the wizard writes names the endpoint that was chosen.               *)
LEMMA PairsAre ==
    ASSUME ClaudeTyped, wizard.at # "idle", wizard.want \in Claude!Endpoint
    PROVE  /\ Claude!Pairs \in Claude!Route /\ Claude!Pairs.ce = TRUE
           /\ Claude!Pairs.end = IF wizard.want = Home THEN Nowhere ELSE wizard.want
           /\ Claude!Pairs.end \in {wizard.want, Nowhere}
           /\ Claude!Pairs.end = Nowhere <=> wizard.want = Home
           /\ Claude!Pairs \notin {Absent, Broken}
           /\ wizard.want \in ever => Chosen(Claude!Pairs)
<1>1. wizard.want # Nowhere
  BY Assumed DEF Claude!BackendAssumption, Claude!Endpoint
<1>2. wizard.want \in Near \cup {Home}
  BY DEF Claude!Endpoint
<1>3. TRUE \in BOOLEAN /\ (IF wizard.want = Home THEN Nowhere ELSE
    wizard.want) \in Near \cup {Nowhere}
  BY <1>2
<1>4. Claude!Pairs \in Claude!Route
  BY <1>3 DEF Claude!Pairs, Claude!Route
<1>5. wizard.want \in ever => Chosen(Claude!Pairs)
  BY <1>1 DEF Chosen, Claude!Pairs
<1> QED
  BY <1>1, <1>4, <1>5, EndsAre DEF Claude!Pairs

(* Removing what is stale leaves a file what it is, without its endpoint if *)
(* the default one was chosen.                                              *)
LEMMA CleanedIs ==
    ASSUME ClaudeTyped, wizard.at # "idle", wizard.want \in Claude!Endpoint,
           wizard.want \in ever, NEW f \in Claude!Route \cup {Absent, Broken}
    PROVE  /\ f \in {Absent, Broken} => Claude!Cleaned(f) = f
           /\ f \in Claude!Route =>
                  /\ Claude!Cleaned(f) \in Claude!Route
                  /\ Claude!Cleaned(f).end \in {f.end, Nowhere}
                  /\ Claude!Cleaned(f).ce = f.ce
                  /\ Chosen(f) => Chosen(Claude!Cleaned(f))
           /\ Claude!Pairs.end = Nowhere =>
                  Claude!Says(Claude!Cleaned(f)).end = Nowhere
<1>1. CASE f \in {Absent, Broken}
  BY <1>1 DEF Claude!Cleaned, Claude!Readable, Claude!Says, Claude!Nothing, Claude!Route
<1>2. CASE f \in Claude!Route /\ Claude!Pairs.end = Nowhere
  <2>1. Claude!Readable(f) /\ f \notin {Absent, Broken}
    BY <1>2, EndsAre DEF Claude!Readable
  <2>2. Claude!Cleaned(f) = [f EXCEPT !.end = Nowhere]
    BY <1>2, <2>1 DEF Claude!Cleaned
  <2>3. /\ Claude!Cleaned(f) \in Claude!Route /\ Claude!Cleaned(f).end = Nowhere
        /\ Claude!Cleaned(f).ce = f.ce
    BY <1>2, <2>2 DEF Claude!Route
  <2>4. wizard.want = Home
    BY <1>2, PairsAre
  <2>5. Claude!Says(Claude!Cleaned(f)).end = Nowhere
    BY <2>3, EndsAre DEF Claude!Says, Claude!Readable
  <2> QED
    BY <2>1, <2>3, <2>4, <2>5 DEF Chosen
<1>3. CASE f \in Claude!Route /\ Claude!Pairs.end # Nowhere
  BY <1>3, EndsAre DEF Claude!Cleaned, Claude!Readable
<1> QED
  BY <1>1, <1>2, <1>3

(* What is written is of its type and was chosen or named at some time, so  *)
(* the ground is kept.                                                      *)
LEMMA GroundKept ==
    ASSUME ClaudeGround, WantFits', wizard' = Claude!Idle \/ wizard' \in Wizards,
           torn' \in BOOLEAN, expect' \subseteq Claude!Outcome, ever' = ever,
           wizard'.at # "idle" => wizard'.want \in ever,
           \/ local' \in {local, Absent, Broken}
           \/ local' \in Claude!Route /\ Chosen(local'),
           \/ global' \in {global, Absent, Broken}
           \/ global' \in Claude!Route /\ Chosen(global'),
           os' = os \/ (os' \in Claude!Route /\ os'.end \in {os.end, Nowhere} \cup ever),
           \/ desktop' \in {desktop, Absent}
           \/ (desktop' \in Claude!Route /\ Chosen(desktop')),
           dotenv' \in {dotenv, Absent} \/ (dotenv' \in Claude!Route /\ Chosen(dotenv')),
           fallback' = fallback \/ (fallback' \in Claude!Route /\ Chosen(fallback'))
    PROVE  ClaudeGround'
<1>1. ClaudeTyped'
  BY DEF ClaudeGround, ClaudeTyped
<1>2. AllChosen'
  <2>1. \A r : Chosen(r)' <=> Chosen(r)
    BY DEF Chosen
  <2>2. /\ local' \notin {Absent, Broken} => Chosen(local')
        /\ global' \notin {Absent, Broken} => Chosen(global')
        /\ desktop' # Absent => Chosen(desktop')
        /\ dotenv' # Absent => Chosen(dotenv')
        /\ fallback' # Absent => Chosen(fallback')
    BY DEF ClaudeGround, AllChosen
  <2>3. os'.end \in ever \cup {Nowhere} /\ Cloud \in ever
    BY DEF ClaudeGround, AllChosen
  <2> QED
    BY <2>2, <2>3 DEF AllChosen, Chosen
<1> QED
  BY <1>1, <1>2 DEF ClaudeGround

(* The wizard's next step is one of the same edition.                       *)
LEMMA WantMoves ==
    ASSUME ClaudeGround, NEW step \in Claude!Steps, wizard.at # "idle",
           Claude!Goto(step) \/ Claude!PassOver(step), UNCHANGED expect,
           step \in CeSteps => wizard.at \in CeSteps,
           step \in CloudSteps => wizard.at \in CloudSteps
    PROVE  WantFits' /\ wizard'.want \in ever
<1>1. wizard'.at = step /\ wizard'.want = wizard.want
  BY GoesOn DEF ClaudeGround
<1> QED
  BY <1>1 DEF ClaudeGround, WantFits, AllChosen

(* What stays as it was fits as before.                                     *)
LEMMA Unmoved ==
    /\ UNCHANGED <<local, global, expect>> =>
           (SettingsFit(expect)' <=> SettingsFit(expect))
    /\ UNCHANGED <<local, global>> => (Named' <=> Named)
    /\ UNCHANGED <<os, expect>> => (OsFits(expect)' <=> OsFits(expect))
    /\ UNCHANGED <<desktop, expect>> => (DesktopFits(expect)' <=> DesktopFits(expect))
    /\ UNCHANGED <<dotenv, fallback, expect>> =>
           (DotenvFits(expect)' <=> DotenvFits(expect))
    /\ UNCHANGED <<dotenv, fallback, writable>> => (Dotenvs' <=> Dotenvs)
BY DEF SettingsFit, OsFits, DesktopFits, DotenvFits, Named, Claude!Ours,
   Claude!DotenvRead, Claude!Says, Dotenvs

(* The same of the choice that the wizard carries out.                      *)
LEMMA WantUnmoved ==
    ASSUME wizard'.want = wizard.want
    PROVE  /\ UNCHANGED <<local, global>> =>
                  (SettingsFit({wizard.want})' <=> SettingsFit({wizard.want}))
           /\ UNCHANGED os => (OsFits({wizard.want})' <=> OsFits({wizard.want}))
BY DEF SettingsFit, OsFits, Named, Claude!Ours, Claude!Says

(* A write that was refused keeps the invariant, which claims little then.  *)
LEMMA RefusedKeeps ==
    ASSUME ClaudeGround', torn' = TRUE, wizard'.at = "idle" \/ wizard'.whole = FALSE
    PROVE  ClaudeInv'
BY DEF ClaudeInv, Progress

(* A wizard begins.                                                         *)
LEMMA StartStep ==
    ASSUME ClaudeInv, NEW want \in Claude!Outcome, Claude!Start(want)
    PROVE ClaudeInv'
<1>1. /\ wizard = Claude!Idle /\ UNCHANGED Claude!files /\ UNCHANGED <<writable, torn>>
      /\ expect' = expect \cup {want} /\ ever' = ever \cup {want}
      /\ wizard' = [at |-> IF want = Cloud THEN "auth" ELSE "local",
                    want |-> want, env |-> Claude!WizardEnv, was |-> expect,
                    whole |-> TRUE]
  BY DEF Claude!Start
<1>0. UNCHANGED <<local, global, os, desktop, dotenv, fallback>>
  BY <1>1 DEF Claude!files
<1>2. ClaudeTyped /\ AllChosen
  BY DEF ClaudeInv, ClaudeGround
<1>3. Nowhere \notin Near /\ Cloud \notin Claude!Endpoint
  BY Assumed DEF Claude!BackendAssumption, Claude!Endpoint
<1>4. ~torn /\ os.end # Nowhere => Claude!WizardEnv.end # Nowhere /\ Named
  <2> SUFFICES ASSUME ~torn, os.end # Nowhere PROVE Claude!WizardEnv.end # Nowhere /\ Named
    OBVIOUS
  <2>1. Named
    BY <1>1 DEF ClaudeInv, Sound, OsBacked, Claude!Idle
  <2> DEFINE all == Claude!Ours \o <<project>>
  <2>2. /\ DOMAIN all = 1 .. 3 /\ all[1] = Claude!Ours[1] /\ all[2] = Claude!Ours[2]
    BY DEF Claude!Ours
  <2>3. Claude!Ours[1] \in Claude!Route /\ Claude!Ours[2] \in Claude!Route
    BY <1>2, SaysIs
  <2> HIDE DEF all
  <2>4. \E i \in 1 .. 3 : all[i].end \in Near
    BY <2>1, <2>2, <2>3, EndsAre DEF Named
  <2>5. Claude!FirstEnd(all, Near) # Nowhere
    BY <1>3, <2>2, <2>4, FirstIs
  <2> QED
    BY <2>1, <2>5 DEF Claude!WizardEnv, all
<1>5. Claude!WizardEnv \in Claude!Route
  <2> DEFINE all == Claude!Ours \o <<project>>
             ce == \E i \in {1, 2} : Claude!Ours[i].ce
  <2>1. DOMAIN all = 1 .. 3
    BY DEF Claude!Ours
  <2> HIDE DEF all
  <2>2. Claude!FirstEnd(all, Near) \in Near \cup {Nowhere}
    BY <1>3, <2>1, FirstIs
  <2>3. ce \in BOOLEAN
    BY Zenon
  <2>4. Claude!WizardEnv = [ce |-> ce, end |-> Claude!FirstEnd(all, Near)]
    BY DEF Claude!WizardEnv, all
  <2> HIDE DEF ce
  <2> QED
    BY <2>2, <2>3, <2>4 DEF Claude!Route
<1>6. /\ wizard' \in Wizards /\ wizard'.at \in {"auth", "local"} /\ wizard'.was = expect
      /\ wizard'.want = want /\ wizard'.env = Claude!WizardEnv /\ wizard'.whole = TRUE
      /\ (wizard'.at = "auth" <=> want = Cloud)
  BY <1>1, <1>2, <1>5 DEF Wizards, Claude!Steps, ClaudeTyped
<1>7. ClaudeTyped'
  BY <1>0, <1>1, <1>2, <1>6 DEF ClaudeTyped
<1>8. AllChosen'
  <2>1. \A r : Chosen(r) => Chosen(r)'
    BY <1>1 DEF Chosen
  <2>2. wizard'.want \in ever' /\ Cloud \in ever' /\ os'.end \in ever' \cup {Nowhere}
    BY <1>0, <1>1, <1>2, <1>6 DEF AllChosen
  <2>3. /\ local' \notin {Absent, Broken} => Chosen(local)
        /\ global' \notin {Absent, Broken} => Chosen(global)
        /\ desktop' # Absent => Chosen(desktop)
        /\ dotenv' # Absent => Chosen(dotenv)
        /\ fallback' # Absent => Chosen(fallback)
    BY <1>0, <1>2 DEF AllChosen
  <2> QED
    BY <1>0, <1>1, <2>2, <2>3 DEF AllChosen, Chosen
<1>9. WantFits'
  BY <1>1, <1>6 DEF WantFits, CeSteps, CloudSteps, Claude!Outcome
<1>10. Progress'
  BY <1>6 DEF Progress
<1>11. ~torn => Sound'
  <2> SUFFICES ASSUME ~torn PROVE Sound'
    OBVIOUS
  <2>1. Fits(expect) /\ Fits(expect') /\ Dotenvs
    BY <1>1, FitsGrows DEF ClaudeInv, Sound, Fits, Claude!BetweenFiles, Claude!Idle
  <2>2. Fits(expect)' /\ (Fits(wizard.was))'
    BY <1>0, <1>1, <1>6, <2>1 DEF Fits, SettingsFit, OsFits, DesktopFits,
       DotenvFits, Named, Claude!Ours, Claude!DotenvRead, Claude!Says
  <2>3. OsBacked'
    BY <1>0, <1>4, <1>6, Unmoved DEF OsBacked
  <2>4. Clearing'
    BY <1>6, <2>2 DEF Clearing
  <2>5. Dotenvs'
    BY <1>0, <1>1, <2>1, Unmoved
  <2> QED
    BY <2>2, <2>3, <2>4, <2>5 DEF Sound, Fits
<1> QED
  BY <1>1, <1>7, <1>8, <1>9, <1>10, <1>11 DEF ClaudeInv, ClaudeGround

(* The sign-in for Kumiho Cloud works out or fails.                         *)
LEMMA SignInStep ==
    ASSUME ClaudeInv, Claude!SignIn \/ Claude!SignInFails
    PROVE ClaudeInv'
<1>0. /\ wizard.at = "auth" /\ UNCHANGED <<writable, ever, torn>>
      /\ UNCHANGED <<local, global, os, desktop, dotenv, fallback>>
  BY DEF Claude!SignIn, Claude!SignInFails, Claude!At, Claude!files, Claude!Goto
<1>t. ClaudeTyped /\ ClaudeGround /\ torn \in BOOLEAN /\ wizard.was \subseteq Claude!Outcome
  BY <1>0, WizardIs DEF ClaudeInv, ClaudeGround, ClaudeTyped, Wizards
<1>1. CASE Claude!SignIn
  <2>1. /\ wizard' \in Wizards /\ wizard'.at = "clearOs" /\ wizard'.want = wizard.want
        /\ wizard'.env = wizard.env /\ wizard'.whole = wizard.whole /\ UNCHANGED expect
        /\ Claude!Goto("clearOs")
    BY <1>0, <1>1, <1>t, GoesOn DEF Claude!SignIn, Claude!Steps
  <2>2. WantFits' /\ wizard'.want \in ever
    BY <1>0, <1>t, <2>1, WantMoves DEF CeSteps, CloudSteps, Claude!Steps
  <2>3. ClaudeGround'
    BY <1>0, <1>t, <2>1, <2>2, GroundKept DEF ClaudeTyped
  <2>4. Progress'
    BY <2>1 DEF Progress
  <2>5. ~torn => Sound'
    <3> SUFFICES ASSUME ~torn PROVE Sound'
      OBVIOUS
    <3>1. SettingsFit(expect)' /\ OsFits(expect)' /\ DesktopFits(expect)' /\
        DotenvFits(expect)' /\ Dotenvs'
      BY <1>0, <2>1, Unmoved DEF ClaudeInv, Sound, Claude!BetweenFiles
    <3>2. OsBacked' /\ Clearing'
      BY <1>0, <2>1, Unmoved DEF ClaudeInv, Sound, OsBacked, Clearing
    <3> QED
      BY <3>1, <3>2 DEF Sound
  <2> QED
    BY <1>0, <2>3, <2>4, <2>5 DEF ClaudeInv
<1>2. CASE Claude!SignInFails
  <2>1. wizard' = Claude!Idle /\ wizard'.at = "idle" /\ expect' = wizard.was
    BY <1>2 DEF Claude!SignInFails, Claude!Idle
  <2>2. WantFits'
    BY <2>1 DEF WantFits, CeSteps, CloudSteps
  <2>3. ClaudeGround'
    BY <1>0, <1>t, <2>1, <2>2, GroundKept DEF ClaudeTyped
  <2>4. Progress'
    BY <2>1 DEF Progress
  <2>5. ~torn => Sound'
    <3> SUFFICES ASSUME ~torn PROVE Sound'
      OBVIOUS
    <3>1. Fits(wizard.was)
      BY <1>0 DEF ClaudeInv, Sound, Clearing
    <3>2. Fits(expect)'
      BY <1>0, <2>1, <3>1 DEF Fits, SettingsFit, OsFits, DesktopFits, DotenvFits, Named,
         Claude!Ours, Claude!DotenvRead, Claude!Says
    <3>3. Dotenvs' /\ OsBacked' /\ Clearing'
      BY <1>0, <2>1, Unmoved DEF ClaudeInv, Sound, OsBacked, Clearing
    <3> QED
      BY <3>2, <3>3 DEF Sound, Fits
  <2> QED
    BY <1>0, <2>3, <2>4, <2>5 DEF ClaudeInv
<1> QED
  BY <1>1, <1>2

(* The wizard is interrupted.                                               *)
LEMMA CancelStep == ASSUME ClaudeInv, Claude!Cancel PROVE ClaudeInv'
<1>1. /\ UNCHANGED <<local, global, os, dotenv, fallback, writable, expect, ever>>
      /\ wizard' = Claude!Idle /\ wizard'.at = "idle" /\ wizard.at # "idle"
      /\ torn' = (torn \/ wizard.at \in Claude!Tearing)
      /\ desktop' = desktop \/ (wizard.at = "desktop" /\ desktop' = Claude!Cleaned(desktop))
  BY Assumed DEF Claude!Cancel, Claude!Idle, Claude!At, Claude!BackendAssumption,
     Claude!Steps
<1>t. ClaudeTyped /\ ClaudeGround /\ AllChosen /\ WantFits
  BY DEF ClaudeInv, ClaudeGround
<1>2. \/ desktop' = desktop
      \/ /\ wizard.at = "desktop" /\ desktop # Absent /\ desktop' \in Claude!Route
         /\ Chosen(desktop') /\ desktop'.end \in {desktop.end, Nowhere}
         /\ desktop'.ce = desktop.ce
         /\ desktop'.end = desktop.end \/ wizard.want = Home
  <2>1. SUFFICES ASSUME wizard.at = "desktop", desktop' = Claude!Cleaned(desktop),
                        desktop' # desktop
                 PROVE  /\ desktop # Absent /\ desktop' \in Claude!Route
                        /\ Chosen(desktop') /\ desktop'.end \in {desktop.end, Nowhere}
                        /\ desktop'.ce = desktop.ce
                        /\ desktop'.end = desktop.end \/ wizard.want = Home
    BY <1>1
  <2>2. wizard.want \in Claude!Endpoint /\ wizard.want \in ever
    BY <1>t, <2>1 DEF WantFits, AllChosen, CeSteps
  <2>3. desktop \in Claude!Route /\ desktop # Absent
    BY <1>t, <2>1, <2>2, CleanedIs DEF ClaudeTyped
  <2>4. Chosen(desktop)
    BY <1>t, <2>3 DEF AllChosen
  <2>5. Claude!Pairs.end = Nowhere
    BY <2>1 DEF Claude!Cleaned
  <2>6. wizard.want = Home
    BY <1>t, <2>1, <2>2, <2>5, PairsAre
  <2> QED
    BY <1>t, <2>1, <2>2, <2>3, <2>4, <2>6, CleanedIs
<1>3. WantFits'
  BY <1>1 DEF WantFits, CeSteps, CloudSteps
<1>4. ClaudeGround'
  BY <1>1, <1>2, <1>3, <1>t, GroundKept DEF ClaudeTyped
<1>5. Progress'
  BY <1>1 DEF Progress
<1>6. ~torn' => Sound'
  <2> SUFFICES ASSUME ~torn' PROVE Sound'
    OBVIOUS
  <2>1. ~torn /\ wizard.at \notin {"global", "os", "clearGlobal"}
    BY <1>1 DEF Claude!Tearing
  <2>2. SettingsFit(expect)' /\ OsFits(expect)' /\ DotenvFits(expect)' /\ Dotenvs'
    BY <1>1, <2>1, Unmoved DEF ClaudeInv, Sound, Claude!BetweenFiles
  <2>3. DesktopFits(expect)'
    <3>1. DesktopFits(expect)
      BY <2>1 DEF ClaudeInv, Sound
    <3> QED
      BY <1>1, <1>2, <1>t, <3>1 DEF DesktopFits, WantFits
  <2>4. OsBacked' /\ Clearing'
    BY <1>1, <2>1, Unmoved DEF ClaudeInv, Sound, OsBacked, Clearing
  <2> QED
    BY <2>2, <2>3, <2>4 DEF Sound
<1> QED
  BY <1>4, <1>5, <1>6 DEF ClaudeInv

(* The first settings file is written, or its write is refused.             *)
LEMMA WriteLocalStep == ASSUME ClaudeInv, Claude!WriteLocal PROVE ClaudeInv'
<1>t. ClaudeTyped /\ ClaudeGround /\ AllChosen /\ WantFits
  BY DEF ClaudeInv, ClaudeGround
<1>0. /\ wizard.at = "local" /\ wizard.want \in Claude!Endpoint /\ wizard.want \in ever
      /\ Claude!Goto("global") \/ Claude!PassOver("global")
      /\ UNCHANGED <<global, os, desktop, dotenv, fallback, writable, expect, ever>>
      /\ local' \in {Claude!NewLocal, local, Broken}
  BY <1>t DEF Claude!WriteLocal, Claude!At, WantFits, AllChosen, CeSteps
<1>1. /\ wizard' \in Wizards /\ wizard'.at = "global" /\ wizard'.want = wizard.want
      /\ wizard'.env = wizard.env /\ torn' \in BOOLEAN
      /\ Claude!Goto("global") => torn' = torn /\ wizard'.whole = wizard.whole
      /\ Claude!PassOver("global") => torn' = TRUE /\ wizard'.whole = FALSE
  BY <1>0, <1>t, GoesOn DEF Claude!Steps
<1>2. /\ Claude!Pairs \in Claude!Route /\ Chosen(Claude!Pairs)
      /\ Claude!NewLocal \in {Claude!Pairs, local}
      /\ Claude!NewLocal \in {Claude!Pairs, Absent, Broken}
  BY <1>0, <1>t, PairsAre DEF Claude!NewLocal, Claude!Readable
<1>3. WantFits' /\ wizard'.want \in ever
  BY <1>0, <1>t, WantMoves DEF CeSteps, CloudSteps, Claude!Steps
<1>4. ClaudeGround'
  BY <1>0, <1>1, <1>2, <1>3, <1>t, GroundKept DEF ClaudeTyped
<1>5. CASE local' = Claude!NewLocal /\ Claude!Goto("global")
  <2>1. Claude!Pairs' = Claude!Pairs
    BY <1>1 DEF Claude!Pairs
  <2>2. Progress'
    BY <1>1, <1>2, <1>5, <2>1 DEF Progress
  <2>3. ~torn => Sound'
    <3> SUFFICES ASSUME ~torn PROVE Sound'
      OBVIOUS
    <3>1. OsFits(expect)' /\ DesktopFits(expect)' /\ DotenvFits(expect)' /\ Dotenvs'
      BY <1>0, Unmoved DEF ClaudeInv, Sound
    <3>2. OsBacked' /\ Clearing'
      BY <1>0, <1>1, <1>5 DEF ClaudeInv, Sound, OsBacked, Clearing
    <3> QED
      BY <1>1, <3>1, <3>2 DEF Sound, Claude!BetweenFiles
  <2> QED
    BY <1>1, <1>4, <1>5, <2>2, <2>3 DEF ClaudeInv
<1>6. CASE Claude!PassOver("global")
  BY <1>1, <1>4, <1>6, RefusedKeeps
<1> QED
  BY <1>5, <1>6 DEF Claude!WriteLocal

(* The second settings file is written: now the settings lead to the        *)
(* choice, unless a write was refused.                                      *)
LEMMA WriteGlobalStep == ASSUME ClaudeInv, Claude!WriteGlobal PROVE ClaudeInv'
<1>t. ClaudeTyped /\ ClaudeGround /\ AllChosen /\ WantFits
  BY DEF ClaudeInv, ClaudeGround
<1>0. /\ wizard.at = "global" /\ wizard.want \in Claude!Endpoint /\ wizard.want \in ever
      /\ wizard.want \in expect
      /\ Claude!Goto("os") \/ Claude!PassOver("os")
      /\ UNCHANGED <<local, os, desktop, dotenv, fallback, writable, expect, ever>>
      /\ global' \in {Claude!NewGlobal, global, Broken}
  BY <1>t DEF Claude!WriteGlobal, Claude!At, WantFits, AllChosen, CeSteps
<1>1. /\ wizard' \in Wizards /\ wizard'.at = "os" /\ wizard'.want = wizard.want
      /\ wizard'.env = wizard.env /\ torn' \in BOOLEAN
      /\ Claude!Goto("os") => torn' = torn /\ wizard'.whole = wizard.whole
      /\ Claude!PassOver("os") => torn' = TRUE /\ wizard'.whole = FALSE
  BY <1>0, <1>t, GoesOn DEF Claude!Steps
<1>2. /\ Claude!Pairs \in Claude!Route /\ Claude!Pairs.ce = TRUE /\ Chosen(Claude!Pairs)
      /\ Claude!Pairs.end \in {wizard.want, Nowhere}
      /\ (Claude!Pairs.end = Nowhere <=> wizard.want = Home)
      /\ Claude!Pairs \notin {Absent, Broken}
  BY <1>0, <1>t, PairsAre
<1>3. /\ global \in {Absent, Broken} => Claude!Cleaned(global) = global
      /\ global \in Claude!Route =>
             Claude!Cleaned(global) \in Claude!Route /\
             (Chosen(global) => Chosen(Claude!Cleaned(global)))
      /\ Claude!Pairs.end = Nowhere =>
             Claude!Says(Claude!Cleaned(global)).end = Nowhere
  BY <1>0, <1>t, CleanedIs DEF ClaudeTyped
<1>4. global' \in {global, Broken} \/ (global' \in Claude!Route /\ Chosen(global'))
  <2>1. CASE global' = Claude!NewGlobal /\ Claude!LocalIsTarget
    <3>1. global' = Claude!Cleaned(global)
      BY <2>1 DEF Claude!NewGlobal
    <3>2. global \in {Absent, Broken} \/ (global \in Claude!Route /\ Chosen(global))
      BY <1>t DEF ClaudeTyped, AllChosen
    <3> QED
      BY <1>3, <3>1, <3>2
  <2>2. CASE global' = Claude!NewGlobal /\ ~Claude!LocalIsTarget
    BY <1>2, <2>2 DEF Claude!NewGlobal
  <2> QED
    BY <1>0, <2>1, <2>2
<1>5. WantFits' /\ wizard'.want \in ever
  BY <1>0, <1>t, WantMoves DEF CeSteps, CloudSteps, Claude!Steps
<1>6. ClaudeGround'
  BY <1>0, <1>1, <1>4, <1>5, <1>t, GroundKept DEF ClaudeTyped
<1>7. CASE global' = Claude!NewGlobal /\ Claude!Goto("os")
  <2>1. ASSUME wizard.whole
        PROVE  SettingsFit({wizard.want})'
    <3>1. local \in {Absent, Broken, Claude!Pairs}
      BY <1>0, <2>1 DEF ClaudeInv, Progress
    <3>2. \/ /\ Claude!Says(local) = Claude!Pairs
             /\ Claude!Pairs.end = Nowhere => Claude!Says(global').end = Nowhere
          \/ Claude!Says(local) = Claude!Nothing /\ Claude!Says(global') = Claude!Pairs
      <4>1. CASE local = Claude!Pairs
        BY <1>2, <1>3, <1>7, <2>1, <4>1
           DEF Claude!NewGlobal, Claude!LocalIsTarget, Claude!Readable, Claude!Says
      <4>2. CASE local \in {Absent, Broken}
        BY <1>2, <1>7, <2>1, <4>2
           DEF Claude!NewGlobal, Claude!LocalIsTarget, Claude!Readable, Claude!Says
      <4> QED
        BY <3>1, <4>1, <4>2
    <3>3. /\ Claude!Ours'[1] = Claude!Says(local) /\ Claude!Ours'[2] = Claude!Says(global')
          /\ Claude!Says(local)' = Claude!Says(local)
          /\ Claude!Says(global)' = Claude!Says(global')
      BY <1>0 DEF Claude!Ours, Claude!Says, Claude!Readable
    <3>4. Cloud # wizard.want
      BY <1>0, Assumed DEF Claude!Endpoint, Claude!BackendAssumption
    <3>5. /\ Claude!Says(local).end \in {wizard.want, Nowhere}
          /\ Claude!Says(global').end \in {wizard.want, Nowhere} \/
                 Claude!Says(local).end # Nowhere
      BY <1>2, <3>2 DEF Claude!Nothing
    <3>6. \E i \in {1, 2} : Claude!Ours'[i].ce
      BY <1>2, <3>2, <3>3
    <3>7. wizard.want # Home => Named'
      BY <1>2, <3>2, <3>3 DEF Named
    <3> QED
      BY <1>1, <3>3, <3>4, <3>5, <3>6, <3>7 DEF SettingsFit
  <2>2. Progress'
    BY <1>1, <1>7, <2>1 DEF Progress
  <2>3. ~torn => Sound'
    <3> SUFFICES ASSUME ~torn PROVE Sound'
      OBVIOUS
    <3>0. wizard.whole
      BY <1>0 DEF ClaudeInv, Sound, Clearing
    <3>1. OsFits(expect)' /\ DesktopFits(expect)' /\ DotenvFits(expect)' /\ Dotenvs'
      BY <1>0, Unmoved DEF ClaudeInv, Sound
    <3>2. OsBacked' /\ Clearing'
      BY <1>0, <1>1, <1>7, <3>0 DEF ClaudeInv, Sound, OsBacked, Clearing
    <3>3. SettingsFit(expect)'
      <4>1. SettingsFit({wizard.want})'
        BY <2>1, <3>0
      <4> QED
        BY <1>0, <1>1, <4>1 DEF SettingsFit
    <3> QED
      BY <3>1, <3>2, <3>3 DEF Sound
  <2> QED
    BY <1>1, <1>6, <1>7, <2>2, <2>3 DEF ClaudeInv
<1>8. CASE Claude!PassOver("os")
  BY <1>1, <1>6, <1>8, RefusedKeeps
<1> QED
  BY <1>7, <1>8 DEF Claude!WriteGlobal

(* The persisted environment is written.                                    *)
LEMMA WriteOsStep == ASSUME ClaudeInv, Claude!WriteOs PROVE ClaudeInv'
<1>t. ClaudeTyped /\ ClaudeGround /\ AllChosen /\ WantFits
  BY DEF ClaudeInv, ClaudeGround
<1>0. /\ wizard.at = "os" /\ wizard.want \in Claude!Endpoint /\ wizard.want \in ever
      /\ wizard.want \in expect
      /\ Claude!Goto("desktop") \/ Claude!PassOver("desktop")
      /\ UNCHANGED <<local, global, desktop, dotenv, fallback, writable, expect, ever>>
      /\ os' \in {Claude!NewOs, os}
  BY <1>t DEF Claude!WriteOs, Claude!At, WantFits, AllChosen, CeSteps
<1>1. /\ wizard' \in Wizards /\ wizard'.at = "desktop" /\ wizard'.want = wizard.want
      /\ wizard'.env = wizard.env /\ torn' \in BOOLEAN
      /\ Claude!Goto("desktop") => torn' = torn /\ wizard'.whole = wizard.whole
      /\ Claude!PassOver("desktop") => torn' = TRUE /\ wizard'.whole = FALSE
  BY <1>0, <1>t, GoesOn DEF Claude!Steps
<1>2. /\ Claude!Pairs.end \in {wizard.want, Nowhere} /\
             Claude!Pairs.end \in Near \cup {Nowhere}
      /\ (Claude!Pairs.end = Nowhere <=> wizard.want = Home)
  BY <1>0, <1>t, PairsAre, EndsAre
<1>3. /\ Claude!NewOs \in Claude!Route
      /\ Claude!NewOs.end \in {Claude!Pairs.end, os.end, Nowhere}
      /\ Claude!Pairs.end # Nowhere => Claude!NewOs.end = Claude!Pairs.end
      /\ Claude!NewOs.end # Claude!Pairs.end => os.end # Nowhere /\ wizard.env.end = Nowhere
  <2> DEFINE end == IF Claude!Pairs.end # Nowhere THEN Claude!Pairs.end
                    ELSE IF wizard.env.end # Nowhere THEN Nowhere ELSE os.end
  <2>1. Claude!NewOs = [ce |-> TRUE, end |-> end]
    BY DEF Claude!NewOs
  <2>2. end \in Near \cup {Nowhere}
    BY <1>2, <1>t, EndsAre DEF ClaudeTyped
  <2>3. Claude!NewOs \in Claude!Route /\ Claude!NewOs.end = end
    BY <2>1, <2>2 DEF Claude!Route
  <2> QED
    BY <2>3
<1>4. WantFits' /\ wizard'.want \in ever
  BY <1>0, <1>t, WantMoves DEF CeSteps, CloudSteps, Claude!Steps
<1>5. ClaudeGround'
  <2>1. os' = os \/ (os' \in Claude!Route /\ os'.end \in {os.end, Nowhere} \cup ever)
    BY <1>0, <1>2, <1>3
  <2> QED
    BY <1>0, <1>1, <1>4, <1>t, <2>1, GroundKept DEF ClaudeTyped
<1>6. CASE os' = Claude!NewOs /\ Claude!Goto("desktop")
  <2>1. wizard.whole => SettingsFit({wizard.want})'
    BY <1>0, <1>1, WantUnmoved DEF ClaudeInv, Progress
  <2>2. ~torn \/ wizard.want # Home => os'.end = Claude!Pairs.end
    <3>1. CASE wizard.want # Home
      BY <1>2, <1>3, <1>6, <3>1
    <3>2. CASE ~torn
      <4>1. os.end # Nowhere => wizard.env.end # Nowhere
        BY <1>0, <3>2 DEF ClaudeInv, Sound, OsBacked
      <4> QED
        BY <1>3, <1>6, <4>1
    <3> QED
      BY <3>1, <3>2
  <2>3. ~torn \/ wizard.want # Home => OsFits({wizard.want})'
    BY <1>1, <1>2, <2>2 DEF OsFits
  <2>4. Progress'
    <3>1. /\ wizard'.at = "desktop" /\ wizard'.want = wizard.want
          /\ wizard'.whole => SettingsFit({wizard.want})'
      BY <1>1, <1>6, <2>1
    <3>2. (torn' => wizard.want # Home) => OsFits({wizard.want})'
      <4>1. torn' <=> torn
        BY <1>1, <1>6
      <4> QED
        BY <2>3, <4>1, Zenon
    <3> QED
      BY <3>1, <3>2 DEF Progress
  <2>5. ~torn => Sound'
    <3> SUFFICES ASSUME ~torn PROVE Sound'
      OBVIOUS
    <3>0. wizard.whole
      BY <1>0 DEF ClaudeInv, Sound, Clearing
    <3>1. SettingsFit(expect)' /\ DesktopFits(expect)' /\ DotenvFits(expect)' /\ Dotenvs'
      BY <1>0, Unmoved DEF ClaudeInv, Sound, Claude!BetweenFiles
    <3>2. OsFits(expect)'
      BY <1>0, <1>1, <2>3 DEF OsFits
    <3>3. os'.end # Nowhere => Named'
      <4>1. os'.end # Nowhere => wizard.want # Home
        BY <1>2, <2>2
      <4>2. wizard.want # Cloud
        BY <1>0, Assumed DEF Claude!Endpoint, Claude!BackendAssumption
      <4> QED
        BY <1>1, <2>1, <3>0, <4>1, <4>2 DEF SettingsFit
    <3>4. OsBacked' /\ Clearing'
      BY <1>1, <1>6, <3>0, <3>3 DEF OsBacked, Clearing
    <3> QED
      BY <3>1, <3>2, <3>4 DEF Sound
  <2> QED
    BY <1>1, <1>5, <1>6, <2>4, <2>5 DEF ClaudeInv
<1>7. CASE Claude!PassOver("desktop")
  BY <1>1, <1>5, <1>7, RefusedKeeps
<1> QED
  BY <1>6, <1>7 DEF Claude!WriteOs

(* The entry of Claude Desktop is written.                                  *)
LEMMA WriteDesktopStep == ASSUME ClaudeInv, Claude!WriteDesktop PROVE ClaudeInv'
<1>t. ClaudeTyped /\ ClaudeGround /\ AllChosen /\ WantFits
  BY DEF ClaudeInv, ClaudeGround
<1>0. /\ wizard.at = "desktop" /\ wizard.want \in Claude!Endpoint /\ wizard.want \in ever
      /\ wizard.want \in expect
      /\ Claude!Goto("dotenv") \/ Claude!PassOver("dotenv")
      /\ UNCHANGED <<local, global, os, dotenv, fallback, writable, expect, ever>>
      /\ desktop' \in {Claude!NewDesktop} \cup Claude!HalfDesktop
  BY <1>t DEF Claude!WriteDesktop, Claude!At, WantFits, AllChosen, CeSteps
<1>1. /\ wizard' \in Wizards /\ wizard'.at = "dotenv" /\ wizard'.want = wizard.want
      /\ wizard'.env = wizard.env /\ torn' \in BOOLEAN
      /\ Claude!Goto("dotenv") => torn' = torn /\ wizard'.whole = wizard.whole
      /\ Claude!PassOver("dotenv") => torn' = TRUE /\ wizard'.whole = FALSE
  BY <1>0, <1>t, GoesOn DEF Claude!Steps
<1>2. /\ Claude!Pairs \in Claude!Route /\ Claude!Pairs.end \in {wizard.want, Nowhere}
      /\ (Claude!Pairs.end = Nowhere <=> wizard.want = Home) /\ Chosen(Claude!Pairs)
  BY <1>0, <1>t, PairsAre
<1>3. \/ desktop' \in {desktop, Absent}
      \/ desktop' \in Claude!Route /\ Chosen(desktop')
  <2>1. CASE desktop' = Claude!NewDesktop
    BY <1>2, <2>1 DEF Claude!NewDesktop
  <2>2. CASE desktop' \in Claude!HalfDesktop /\ desktop' # desktop
    <3>1. /\ desktop \in Claude!Route /\ wizard.want = Home /\ Chosen(desktop)
          /\ desktop' \in {Claude!Cleaned(desktop), [desktop EXCEPT !.ce = TRUE]}
      BY <1>2, <1>t, <2>2 DEF Claude!HalfDesktop, ClaudeTyped, AllChosen
    <3>2. CASE desktop' = Claude!Cleaned(desktop)
      BY <1>0, <1>t, <3>1, <3>2, CleanedIs
    <3>3. CASE desktop' = [desktop EXCEPT !.ce = TRUE]
      <4>1. /\ desktop' \in Claude!Route /\ desktop'.end = desktop.end
        BY <3>1, <3>3 DEF Claude!Route
      <4> QED
        BY <1>0, <3>1, <4>1 DEF Chosen
    <3> QED
      BY <3>1, <3>2, <3>3
  <2> QED
    BY <1>0, <2>1, <2>2
<1>4. WantFits' /\ wizard'.want \in ever
  BY <1>0, <1>t, WantMoves DEF CeSteps, CloudSteps, Claude!Steps
<1>5. ClaudeGround'
  BY <1>0, <1>1, <1>3, <1>4, <1>t, GroundKept DEF ClaudeTyped
<1>6. CASE desktop' = Claude!NewDesktop /\ Claude!Goto("dotenv")
  <2>1. DesktopFits({wizard.want})'
    BY <1>1, <1>2, <1>6 DEF DesktopFits, Claude!NewDesktop
  <2>2. /\ wizard.whole => SettingsFit({wizard.want})'
        /\ wizard.whole /\ (torn => wizard.want # Home) => OsFits({wizard.want})'
    BY <1>0, <1>1, WantUnmoved DEF ClaudeInv, Progress
  <2>3. Progress'
    BY <1>1, <1>6, <2>1, <2>2 DEF Progress
  <2>4. ~torn => Sound'
    <3> SUFFICES ASSUME ~torn PROVE Sound'
      OBVIOUS
    <3>1. SettingsFit(expect)' /\ OsFits(expect)' /\ DotenvFits(expect)' /\ Dotenvs'
      BY <1>0, Unmoved DEF ClaudeInv, Sound, Claude!BetweenFiles
    <3>2. DesktopFits(expect)'
      BY <1>0, <1>1, <2>1 DEF DesktopFits
    <3>3. OsBacked' /\ Clearing'
      BY <1>0, <1>1, <1>6, Unmoved DEF ClaudeInv, Sound, OsBacked, Clearing
    <3> QED
      BY <3>1, <3>2, <3>3 DEF Sound
  <2> QED
    BY <1>1, <1>5, <1>6, <2>3, <2>4 DEF ClaudeInv
<1>7. CASE Claude!PassOver("dotenv")
  BY <1>1, <1>5, <1>7, RefusedKeeps
<1> QED
  BY <1>6, <1>7 DEF Claude!WriteDesktop

(* The last place is written, and the choice stands.                        *)
LEMMA WriteDotenvStep == ASSUME ClaudeInv, Claude!WriteDotenv PROVE ClaudeInv'
<1>t. ClaudeTyped /\ ClaudeGround /\ AllChosen /\ WantFits
  BY DEF ClaudeInv, ClaudeGround
<1>0. /\ wizard.at = "dotenv" /\ wizard.want \in Claude!Endpoint /\ wizard.want \in ever
      /\ wizard' = Claude!Idle /\ wizard'.at = "idle" /\ expect' = {wizard.want}
      /\ UNCHANGED <<local, global, os, desktop, writable, ever>>
  BY <1>t DEF Claude!WriteDotenv, Claude!At, Claude!Idle, WantFits, AllChosen, CeSteps
<1>1. /\ Claude!Pairs \in Claude!Route /\ Claude!Pairs.end \in {wizard.want, Nowhere}
      /\ Claude!Pairs # Absent /\ Chosen(Claude!Pairs)
  BY <1>0, <1>t, PairsAre
<1>2. /\ dotenv' \in {dotenv, Claude!Pairs} /\ fallback' \in {fallback, Claude!Pairs}
      /\ torn' \in BOOLEAN
  <2>1. dotenv' \in {dotenv, Claude!Pairs} /\ fallback' \in {fallback, Claude!Pairs}
    BY DEF Claude!WriteDotenv
  <2>2. torn' \in BOOLEAN
    BY Zenon DEF Claude!WriteDotenv, Claude!Refuse
  <2> QED
    BY <2>1, <2>2
<1>3. WantFits'
  BY <1>0 DEF WantFits, CeSteps, CloudSteps
<1>4. ClaudeGround'
  BY <1>0, <1>1, <1>2, <1>3, <1>t, GroundKept DEF ClaudeTyped, Claude!Outcome
<1>5. CASE Claude!Refuse
  BY <1>0, <1>4, <1>5, RefusedKeeps DEF Claude!Refuse
<1>6. CASE /\ dotenv' = IF writable THEN Claude!Pairs ELSE dotenv
           /\ fallback' = IF writable THEN fallback ELSE Claude!Pairs
           /\ torn' = (torn /\ ~(/\ wizard.whole /\ wizard.want # Home
                                 /\ Absent \in {dotenv', fallback'}))
  <2>1. Progress'
    BY <1>0 DEF Progress
  <2>2. ~torn' => Sound'
    <3> SUFFICES ASSUME ~torn' PROVE Sound'
      OBVIOUS
    <3>1. /\ wizard.whole /\ (torn => wizard.want # Home)
          /\ torn => Absent \in {dotenv', fallback'}
      <4>1. torn => wizard.whole /\ wizard.want # Home /\ Absent \in {dotenv', fallback'}
        BY <1>6, Zenon
      <4>2. ~torn => wizard.whole
        BY <1>0 DEF ClaudeInv, Sound, Clearing
      <4> QED
        BY <4>1, <4>2, Zenon
    <3>2. SettingsFit({wizard.want}) /\ OsFits({wizard.want}) /\ DesktopFits({wizard.want})
      BY <1>0, <3>1 DEF ClaudeInv, Progress
    <3>3. SettingsFit(expect)' /\ OsFits(expect)' /\ DesktopFits(expect)' /\ (Named' <=> Named)
      BY <1>0, <3>2 DEF SettingsFit, OsFits, DesktopFits, Named, Claude!Ours, Claude!Says
    <3>4. ~torn => Dotenvs
      BY DEF ClaudeInv, Sound
    <3>5. Claude!DotenvRead' = Claude!Pairs /\ Dotenvs'
      <4>1. CASE writable
        BY <1>0, <1>1, <1>6, <3>1, <3>4, <4>1 DEF Dotenvs, Claude!DotenvRead
      <4>2. CASE ~writable
        BY <1>0, <1>1, <1>6, <3>1, <3>4, <4>2 DEF Dotenvs, Claude!DotenvRead
      <4> QED
        BY <4>1, <4>2
    <3>6. DotenvFits(expect)'
      BY <1>0, <1>1, <3>5 DEF DotenvFits
    <3>7. os'.end # Nowhere => Named'
      <4>1. CASE torn
        <5>1. Cloud # wizard.want /\ wizard.want # Home
          BY <1>0, <3>1, <4>1, Assumed DEF Claude!Endpoint, Claude!BackendAssumption
        <5> QED
          BY <3>2, <3>3, <5>1 DEF SettingsFit
      <4>2. CASE ~torn
        BY <1>0, <3>3, <4>2 DEF ClaudeInv, Sound, OsBacked
      <4> QED
        BY <4>1, <4>2
    <3>8. OsBacked' /\ Clearing'
      BY <1>0, <3>7 DEF OsBacked, Clearing
    <3> QED
      BY <3>3, <3>5, <3>6, <3>8 DEF Sound
  <2> QED
    BY <1>4, <2>1, <2>2 DEF ClaudeInv
<1> QED
  BY <1>5, <1>6 DEF Claude!WriteDotenv

(* A write for Kumiho Cloud, or one that was refused, is followed by the    *)
(* next step.                                                               *)
LEMMA ClearMoves ==
    ASSUME ClaudeInv, NEW step \in {"clearDesktop", "clearLocal", "clearGlobal"},
           wizard.at \in CloudSteps, Claude!Goto(step) \/ Claude!PassOver(step),
           UNCHANGED <<dotenv, fallback, writable, expect, ever>>,
           local' \in {local, Broken, Claude!Nothing}, global' = global,
           os' = os \/ (os' \in Claude!Route /\ os'.end \in {os.end, Nowhere}),
           desktop' \in {desktop, Claude!Nothing}
    PROVE  /\ ClaudeGround' /\ Progress'
           /\ wizard'.at = step /\ wizard'.env = wizard.env
           /\ Claude!Goto(step) => torn' = torn /\ wizard'.whole = wizard.whole
           /\ Claude!PassOver(step) => ClaudeInv'
<1>t. ClaudeTyped /\ ClaudeGround /\ AllChosen /\ WantFits
  BY DEF ClaudeInv, ClaudeGround
<1>0. step \in Claude!Steps /\ step \in CloudSteps /\ step \notin CeSteps
      /\ wizard.at # "idle"
  BY DEF Claude!Steps, CloudSteps, CeSteps
<1>1. /\ wizard' \in Wizards /\ wizard'.at = step /\ wizard'.want = wizard.want
      /\ wizard'.env = wizard.env /\ torn' \in BOOLEAN
      /\ Claude!Goto(step) => torn' = torn /\ wizard'.whole = wizard.whole
      /\ Claude!PassOver(step) => torn' = TRUE /\ wizard'.whole = FALSE
  BY <1>0, <1>t, GoesOn
<1>2. WantFits' /\ wizard'.want \in ever
  BY <1>0, <1>t, WantMoves
<1>3. Claude!Nothing \in Claude!Route /\ Chosen(Claude!Nothing)
  BY DEF Claude!Nothing, Claude!Route, Chosen
<1>4. os' = os \/ (os' \in Claude!Route /\ os'.end \in {os.end, Nowhere} \cup ever)
  OBVIOUS
<1>5. ClaudeGround'
  BY <1>1, <1>2, <1>3, <1>4, <1>t, GroundKept DEF ClaudeTyped
<1>6. Progress'
  BY <1>1 DEF Progress
<1> QED
  BY <1>1, <1>5, <1>6, RefusedKeeps

(* The persisted environment is cleared.                                    *)
LEMMA ClearOsStep == ASSUME ClaudeInv, Claude!ClearOs PROVE ClaudeInv'
<1>0. /\ wizard.at = "clearOs" /\ wizard.at \in CloudSteps /\ ClaudeTyped
      /\ wizard.env \in Claude!Route
      /\ Claude!Goto("clearDesktop") \/ Claude!PassOver("clearDesktop")
      /\ UNCHANGED <<local, global, desktop, dotenv, fallback, writable, expect, ever>>
  BY WizardIs DEF Claude!ClearOs, Claude!At, ClaudeInv, ClaudeGround, CloudSteps, Wizards
<1>1. /\ Claude!ClearedOs \in Claude!Route /\ Claude!ClearedOs.end \in {os.end, Nowhere}
      /\ wizard.env.end # Nowhere => Claude!ClearedOs.end = Nowhere
  <2> DEFINE end == IF wizard.env.end # Nowhere THEN Nowhere ELSE os.end
             ce == os.ce /\ ~wizard.env.ce
  <2>1. ce \in BOOLEAN
    BY Zenon
  <2>2. end \in Near \cup {Nowhere}
    BY <1>0, EndsAre DEF ClaudeTyped
  <2>3. Claude!ClearedOs = [ce |-> ce, end |-> end]
    BY DEF Claude!ClearedOs
  <2>4. end \in {os.end, Nowhere} /\ (wizard.env.end # Nowhere => end = Nowhere)
    OBVIOUS
  <2> HIDE DEF end, ce
  <2> QED
    BY <2>1, <2>2, <2>3, <2>4 DEF Claude!Route
<1>2. os' = os \/ (os' \in Claude!Route /\ os'.end \in {os.end, Nowhere})
  BY <1>1 DEF Claude!ClearOs
<1>3. /\ ClaudeGround' /\ Progress' /\ wizard'.at = "clearDesktop"
      /\ Claude!Goto("clearDesktop") => torn' = torn /\ wizard'.whole = wizard.whole
      /\ Claude!PassOver("clearDesktop") => ClaudeInv'
  BY <1>0, <1>2, ClearMoves
<1>4. CASE os' = Claude!ClearedOs /\ Claude!Goto("clearDesktop")
  <2>1. ~torn => Sound'
    <3> SUFFICES ASSUME ~torn PROVE Sound'
      OBVIOUS
    <3>1. os'.end = Nowhere
      <4>1. os.end # Nowhere => wizard.env.end # Nowhere
        BY <1>0 DEF ClaudeInv, Sound, OsBacked
      <4> QED
        BY <1>1, <1>4, <4>1
    <3>2. SettingsFit(expect)' /\ DesktopFits(expect)' /\ DotenvFits(expect)' /\ Dotenvs'
      BY <1>0, Unmoved DEF ClaudeInv, Sound, Claude!BetweenFiles
    <3>3. OsFits(expect)' /\ OsBacked' /\ Clearing'
      BY <1>0, <1>3, <1>4, <3>1 DEF ClaudeInv, Sound, OsFits, OsBacked, Clearing
    <3> QED
      BY <3>2, <3>3 DEF Sound
  <2> QED
    BY <1>3, <1>4, <2>1 DEF ClaudeInv
<1> QED
  BY <1>3, <1>4 DEF Claude!ClearOs

(* The entry of Claude Desktop is cleared.                                  *)
LEMMA ClearDesktopStep == ASSUME ClaudeInv, Claude!ClearDesktop PROVE ClaudeInv'
<1>0. /\ wizard.at = "clearDesktop" /\ wizard.at \in CloudSteps /\ ClaudeTyped
      /\ Claude!Goto("clearLocal") \/ Claude!PassOver("clearLocal")
      /\ UNCHANGED <<local, global, os, dotenv, fallback, writable, expect, ever>>
  BY DEF Claude!ClearDesktop, Claude!At, ClaudeInv, ClaudeGround, CloudSteps
<1>1. Claude!Cleared(desktop) \in {Absent, Claude!Nothing}
      /\ Claude!Cleared(desktop) \in {desktop, Claude!Nothing}
  BY <1>0, EndsAre DEF ClaudeTyped, Claude!Cleared, Claude!Readable
<1>2. desktop' \in {desktop, Claude!Nothing}
  BY <1>1 DEF Claude!ClearDesktop
<1>3. /\ ClaudeGround' /\ Progress' /\ wizard'.at = "clearLocal"
      /\ Claude!Goto("clearLocal") => torn' = torn /\ wizard'.whole = wizard.whole
      /\ Claude!PassOver("clearLocal") => ClaudeInv'
  BY <1>0, <1>2, ClearMoves
<1>4. CASE desktop' = Claude!Cleared(desktop) /\ Claude!Goto("clearLocal")
  <2>1. ~torn => Sound'
    <3> SUFFICES ASSUME ~torn PROVE Sound'
      OBVIOUS
    <3>1. os.end = Nowhere /\ desktop' \in {Absent, Claude!Nothing}
      BY <1>0, <1>1, <1>4 DEF ClaudeInv, Sound, Clearing
    <3>2. SettingsFit(expect)' /\ OsFits(expect)' /\ DotenvFits(expect)' /\ Dotenvs'
      BY <1>0, Unmoved DEF ClaudeInv, Sound, Claude!BetweenFiles
    <3>3. DesktopFits(expect)'
      BY <3>1 DEF DesktopFits, Claude!Nothing
    <3>4. OsBacked' /\ Clearing'
      <4>1. Claude!Nothing' = Claude!Nothing
        BY DEF Claude!Nothing
      <4> QED
        BY <1>0, <1>3, <1>4, <3>1, <4>1 DEF ClaudeInv, Sound, OsBacked, Clearing
    <3> QED
      BY <3>2, <3>3, <3>4 DEF Sound
  <2> QED
    BY <1>3, <1>4, <2>1 DEF ClaudeInv
<1> QED
  BY <1>3, <1>4 DEF Claude!ClearDesktop

(* The first settings file is cleared.                                      *)
LEMMA ClearLocalStep == ASSUME ClaudeInv, Claude!ClearLocal PROVE ClaudeInv'
<1>0. /\ wizard.at = "clearLocal" /\ wizard.at \in CloudSteps /\ ClaudeTyped
      /\ Claude!Goto("clearGlobal") \/ Claude!PassOver("clearGlobal")
      /\ UNCHANGED <<global, os, desktop, dotenv, fallback, writable, expect, ever>>
  BY DEF Claude!ClearLocal, Claude!At, ClaudeInv, ClaudeGround, CloudSteps
<1>1. /\ Claude!Cleared(local) \in {local, Claude!Nothing}
      /\ Claude!Says(Claude!Cleared(local)) = Claude!Nothing
  <2>1. CASE local \in {Absent, Broken}
    BY <2>1 DEF Claude!Cleared, Claude!Says, Claude!Readable
  <2>2. CASE local \notin {Absent, Broken}
    BY <2>2 DEF Claude!Cleared, Claude!Says, Claude!Readable
  <2> QED
    BY <2>1, <2>2
<1>2. local' \in {local, Broken, Claude!Nothing}
  BY <1>1 DEF Claude!ClearLocal
<1>3. /\ ClaudeGround' /\ Progress' /\ wizard'.at = "clearGlobal"
      /\ Claude!Goto("clearGlobal") => torn' = torn /\ wizard'.whole = wizard.whole
      /\ Claude!PassOver("clearGlobal") => ClaudeInv'
  BY <1>0, <1>2, ClearMoves
<1>4. CASE local' = Claude!Cleared(local) /\ Claude!Goto("clearGlobal")
  <2>1. ~torn => Sound'
    <3> SUFFICES ASSUME ~torn PROVE Sound'
      OBVIOUS
    <3>1. /\ os.end = Nowhere /\ desktop \in {Absent, Claude!Nothing} /\ wizard.whole
      BY <1>0 DEF ClaudeInv, Sound, Clearing
    <3>2. OsFits(expect)' /\ DesktopFits(expect)' /\ DotenvFits(expect)' /\ Dotenvs'
      BY <1>0, Unmoved DEF ClaudeInv, Sound
    <3>3. (Claude!Says(local))' = Claude!Nothing /\ Claude!Nothing' = Claude!Nothing
      BY <1>1, <1>4 DEF Claude!Says, Claude!Readable, Claude!Nothing
    <3>4. OsBacked' /\ Clearing'
      BY <1>0, <1>3, <1>4, <3>1, <3>3 DEF OsBacked, Clearing
    <3> QED
      BY <1>3, <3>2, <3>4 DEF Sound, Claude!BetweenFiles
  <2> QED
    BY <1>3, <1>4, <2>1 DEF ClaudeInv
<1> QED
  BY <1>3, <1>4 DEF Claude!ClearLocal

(* The last place is cleared, and the choice stands.                        *)
LEMMA ClearGlobalStep == ASSUME ClaudeInv, Claude!ClearGlobal PROVE ClaudeInv'
<1>t. ClaudeTyped /\ ClaudeGround /\ torn \in BOOLEAN
  BY DEF ClaudeInv, ClaudeGround, ClaudeTyped
<1>0. /\ wizard.at = "clearGlobal" /\ wizard' = Claude!Idle /\ wizard'.at = "idle"
      /\ expect' = {Cloud}
      /\ UNCHANGED <<local, os, desktop, dotenv, fallback, writable, ever>>
      /\ torn' \in {torn, TRUE}
      /\ global' \in {global, Broken, Claude!Cleared(global)}
  BY DEF Claude!ClearGlobal, Claude!At, Claude!Idle, Claude!Refuse
<1>1. /\ Claude!Cleared(global) \in {global, Claude!Nothing}
      /\ Claude!Says(Claude!Cleared(global)) = Claude!Nothing
  <2>1. CASE global \in {Absent, Broken}
    BY <2>1 DEF Claude!Cleared, Claude!Says, Claude!Readable
  <2>2. CASE global \notin {Absent, Broken}
    BY <2>2 DEF Claude!Cleared, Claude!Says, Claude!Readable
  <2> QED
    BY <2>1, <2>2
<1>2. WantFits'
  BY <1>0 DEF WantFits, CeSteps, CloudSteps
<1>3. Claude!Nothing \in Claude!Route /\ Chosen(Claude!Nothing)
  BY DEF Claude!Nothing, Claude!Route, Chosen
<1>4. ClaudeGround'
  <2>1. global' \in {global, Absent, Broken} \/ (global' \in Claude!Route /\ Chosen(global'))
    BY <1>0, <1>1, <1>3
  <2> QED
    BY <1>0, <1>2, <1>t, <2>1, GroundKept DEF Claude!Outcome
<1>5. CASE Claude!Refuse
  BY <1>0, <1>4, <1>5, RefusedKeeps DEF Claude!Refuse
<1>6. CASE global' = Claude!Cleared(global) /\ torn' = torn
  <2>1. Progress'
    BY <1>0 DEF Progress
  <2>2. ~torn => Sound'
    <3> SUFFICES ASSUME ~torn PROVE Sound'
      OBVIOUS
    <3>1. /\ os.end = Nowhere /\ desktop \in {Absent, Claude!Nothing}
          /\ Claude!Says(local) = Claude!Nothing
      BY <1>0 DEF ClaudeInv, Sound, Clearing
    <3>2. (Claude!Says(local))' = Claude!Nothing /\ (Claude!Says(global))' = Claude!Nothing
      BY <1>0, <1>1, <1>6, <3>1 DEF Claude!Says, Claude!Readable
    <3>3. Claude!Ours'[1] = Claude!Nothing /\ Claude!Ours'[2] = Claude!Nothing
      BY <3>2 DEF Claude!Ours
    <3>4. SettingsFit(expect)'
      BY <1>0, <3>2, <3>3 DEF SettingsFit, Claude!Nothing, Named
    <3>5. OsFits(expect)' /\ DesktopFits(expect)' /\ DotenvFits(expect)' /\ Dotenvs'
      BY <1>0, <3>1, Unmoved DEF ClaudeInv, Sound, OsFits, DesktopFits, DotenvFits,
         Claude!Nothing
    <3>6. OsBacked' /\ Clearing'
      BY <1>0, <3>1 DEF OsBacked, Clearing
    <3> QED
      BY <3>4, <3>5, <3>6 DEF Sound
  <2> QED
    BY <1>4, <1>6, <2>1, <2>2 DEF ClaudeInv
<1> QED
  BY <1>5, <1>6 DEF Claude!ClearGlobal

(* The rest of the machine moves while no wizard runs.                      *)
LEMMA IdleEnough ==
    ASSUME ClaudeInv,
           Claude!At("idle"), wizard' = wizard, ClaudeGround', os' = os,
           ~torn' => ~torn /\ Fits(expect)' /\ Dotenvs' /\ (os.end # Nowhere => Named')
    PROVE  ClaudeInv'
<1>1. wizard'.at = "idle" /\ Progress'
  BY DEF Claude!At, Progress
<1>2. ~torn' => Sound'
  BY <1>1 DEF Sound, Fits, OsBacked, Clearing
<1> QED
  BY <1>1, <1>2 DEF ClaudeInv

(* What holds while no wizard runs and no choice is torn.                   *)
LEMMA IdleIsSound ==
    ASSUME ClaudeInv, Claude!At("idle"), ~torn
    PROVE  Fits(expect) /\ Dotenvs /\ (os.end # Nowhere => Named)
BY DEF ClaudeInv, Sound, Fits, OsBacked, Claude!At, Claude!BetweenFiles

(* The user begins a second settings file.                                  *)
LEMMA AddLocalStep == ASSUME ClaudeInv, Claude!AddLocal PROVE ClaudeInv'
<1>t. ClaudeTyped /\ ClaudeGround /\ WantFits /\ AllChosen
  BY DEF ClaudeInv, ClaudeGround
<1>1. /\ Claude!At("idle") /\ wizard' = wizard /\ local = Absent /\ local' = Claude!Nothing
      /\ UNCHANGED <<global, os, desktop, dotenv, fallback, writable, expect, ever, torn>>
  BY DEF Claude!AddLocal, Claude!Edit, Claude!ghosts
<1>2. Claude!Nothing \in Claude!Route /\ Chosen(Claude!Nothing)
  BY DEF Claude!Nothing, Claude!Route, Chosen
<1>3. WantFits' /\ (wizard'.at # "idle" => wizard'.want \in ever)
  BY <1>1, <1>t DEF WantFits, Claude!At
<1>4. ClaudeGround'
  BY <1>1, <1>2, <1>3, <1>t, GroundKept DEF ClaudeTyped
<1>5. Claude!Says(local') = Claude!Says(local)
  BY <1>1 DEF Claude!Says, Claude!Readable
<1>6. /\ Claude!Ours' = Claude!Ours
      /\ Claude!Says(local)' = Claude!Says(local) /\
             Claude!Says(global)' = Claude!Says(global)
  BY <1>1, <1>5 DEF Claude!Ours, Claude!Says, Claude!Readable
<1>7. (Named' <=> Named) /\ (SettingsFit(expect)' <=> SettingsFit(expect))
  BY <1>1, <1>6 DEF Named, SettingsFit
<1>8. ~torn => Fits(expect)' /\ Dotenvs' /\ (os.end # Nowhere => Named')
  BY <1>1, <1>7, IdleIsSound, Unmoved DEF Fits
<1> QED
  BY <1>1, <1>4, <1>8, IdleEnough

(* The user names an endpoint by hand.                                      *)
LEMMA NameStep ==
    ASSUME ClaudeInv, NEW e \in Near, Claude!NameEndpoint(e)
    PROVE ClaudeInv'
<1>t. ClaudeTyped /\ ClaudeGround /\ WantFits /\ AllChosen
  BY DEF ClaudeInv, ClaudeGround
<1>1. /\ Claude!At("idle") /\ wizard' = wizard /\ Claude!Readable(global)
      /\ global' = [global EXCEPT !.end = e] /\ expect' = expect \cup {e}
      /\ ever' = ever \cup {e}
      /\ UNCHANGED <<local, os, desktop, dotenv, fallback, writable, torn>>
  BY DEF Claude!NameEndpoint, Claude!Edit
<1>2. global \in Claude!Route /\ global' \in Claude!Route /\ global'.end = e /\
    global'.ce = global.ce
  BY <1>1, <1>t DEF ClaudeTyped, Claude!Readable, Claude!Route
<1>4. Claude!Says(global) = global /\ Claude!Says(global') = global' /\ e # Nowhere
  BY <1>1, <1>2, EndsAre DEF Claude!Says, Claude!Readable
<1>3. ClaudeGround'
  <2>1. ClaudeTyped'
    BY <1>1, <1>2, <1>t DEF ClaudeTyped, Claude!Outcome, Claude!Endpoint
  <2>2. WantFits'
    BY <1>1, <1>t DEF WantFits, Claude!At
  <2>3. \A r : Chosen(r) => Chosen(r)'
    BY <1>1 DEF Chosen
  <2>4. Chosen(global)'
    BY <1>1, <1>2, <1>4 DEF Chosen
  <2>5. /\ local' \notin {Absent, Broken} => Chosen(local)
        /\ desktop' # Absent => Chosen(desktop)
        /\ dotenv' # Absent => Chosen(dotenv)
        /\ fallback' # Absent => Chosen(fallback)
        /\ os'.end \in ever' \cup {Nowhere} /\ Cloud \in ever'
        /\ wizard'.at = "idle"
    BY <1>1, <1>t DEF AllChosen, Claude!At
  <2>6. AllChosen'
    BY <1>1, <2>4, <2>5 DEF AllChosen, Chosen
  <2> QED
    BY <2>1, <2>2, <2>6 DEF ClaudeGround
<1>5. Claude!Ours[1] = Claude!Says(local) /\ Claude!Ours[2] = global /\
    Claude!Ours'[1] = Claude!Says(local) /\ Claude!Ours'[2] = global'
      /\ Claude!Says(local)' = Claude!Says(local) /\ Claude!Says(global)' = global'
  BY <1>1, <1>4 DEF Claude!Ours, Claude!Says
<1>6. Named'
  BY <1>2, <1>4, <1>5 DEF Named
<1>7. ASSUME ~torn PROVE SettingsFit(expect)'
  <2>1. Claude!Says(local).end \in expect \cup {Nowhere}
        /\ (Cloud \notin expect => \E i \in {1, 2} : Claude!Ours[i].ce)
    BY <1>1, <1>7, IdleIsSound DEF Fits, SettingsFit
  <2>2. (\E i \in {1, 2} : Claude!Ours[i].ce) => \E i \in {1, 2} : Claude!Ours'[i].ce
    BY <1>2, <1>5
  <2> QED
    BY <1>1, <1>2, <1>5, <1>6, <2>1, <2>2 DEF SettingsFit
<1>8. ~torn => OsFits(expect)' /\ DesktopFits(expect)' /\ DotenvFits(expect)' /\ Dotenvs'
  BY <1>1, IdleIsSound DEF Fits, OsFits, DesktopFits, DotenvFits, Claude!DotenvRead, Dotenvs
<1>9. ~torn => Fits(expect)' /\ Dotenvs'
  BY <1>7, <1>8 DEF Fits
<1> QED
  BY <1>1, <1>3, <1>6, <1>9, IdleEnough

(* The plugin is updated.                                                   *)
LEMMA UpdateStep == ASSUME ClaudeInv, Claude!UpdatePlugin PROVE ClaudeInv'
<1>t. ClaudeTyped /\ ClaudeGround /\ WantFits /\ AllChosen
  BY DEF ClaudeInv, ClaudeGround
<1>1. /\ Claude!At("idle") /\ wizard' = wizard /\ dotenv' = Absent
      /\ torn' = (torn \/ (writable' /\ fallback # Absent))
      /\ UNCHANGED <<local, global, os, desktop, fallback, expect, ever>>
  BY DEF Claude!UpdatePlugin, Claude!Edit
<1>2. torn' \in BOOLEAN /\ (~torn' => ~torn /\ (writable' => fallback = Absent))
  BY <1>1, Zenon
<1>3. WantFits' /\ (wizard'.at # "idle" => wizard'.want \in ever)
  BY <1>1, <1>t DEF WantFits, Claude!At
<1>4. ClaudeGround'
  BY <1>1, <1>2, <1>3, <1>t, GroundKept DEF ClaudeTyped
<1>5. ASSUME ~torn' PROVE Fits(expect)' /\ Dotenvs' /\ (os.end # Nowhere => Named')
  <2>1. ~torn /\ Fits(expect) /\ Dotenvs /\ (os.end # Nowhere => Named)
    BY <1>1, <1>2, <1>5, IdleIsSound
  <2>2. Dotenvs'
    BY <1>1, <1>2, <1>5 DEF Dotenvs
  <2>3. DotenvFits(expect)'
    BY <1>1, <2>1 DEF Fits, DotenvFits, Dotenvs, Claude!DotenvRead, Claude!Nothing
  <2> QED
    BY <1>1, <2>1, <2>2, <2>3, Unmoved DEF Fits
<1> QED
  BY <1>1, <1>2, <1>4, <1>5, IdleEnough

(* Another project is opened, or nothing happens.                           *)
LEMMA OpenStep ==
    ASSUME ClaudeInv,
           \/ \E r \in Claude!ProjectRoute : Claude!OpenProject(r)
           \/ UNCHANGED Claude!vars
    PROVE ClaudeInv'
<1>1. UNCHANGED <<local, global, os, desktop, dotenv, fallback, writable, expect, ever,
                  torn, wizard>>
  BY DEF Claude!OpenProject, Claude!files, Claude!ghosts, Claude!vars
<1>2. ClaudeGround'
  BY <1>1 DEF ClaudeInv, ClaudeGround, ClaudeTyped, AllChosen, Chosen, WantFits
<1>3. (Named' <=> Named) /\ (Dotenvs' <=> Dotenvs)
  BY <1>1, Unmoved
<1>4. \A X : (SettingsFit(X)' <=> SettingsFit(X)) /\ (OsFits(X)' <=> OsFits(X))
             /\ (DesktopFits(X)' <=> DesktopFits(X)) /\ (DotenvFits(X)' <=> DotenvFits(X))
  BY <1>1 DEF SettingsFit, OsFits, DesktopFits, DotenvFits, Named, Claude!Ours,
     Claude!DotenvRead, Claude!Says
<1>5. Progress'
  BY <1>1 DEF ClaudeInv, Progress, SettingsFit, OsFits, DesktopFits, Named,
     Claude!Ours, Claude!Says, Claude!Pairs
<1>6. ASSUME ~torn PROVE Sound'
  <2>1. Sound
    BY <1>6 DEF ClaudeInv
  <2>2. wizard.at = "auth" => (Fits(wizard.was))'
    BY <1>1, <2>1 DEF Sound, Clearing, Fits, SettingsFit, OsFits, DesktopFits, DotenvFits,
       Named, Claude!Ours, Claude!DotenvRead, Claude!Says
  <2>3. Clearing'
    BY <1>1, <2>1, <2>2 DEF Sound, Clearing, Claude!Says, Claude!Nothing
  <2>4. OsBacked'
    BY <1>1, <1>3, <2>1 DEF Sound, OsBacked
  <2>5. /\ ~Claude!BetweenFiles' => SettingsFit(expect)'
        /\ OsFits(expect)' /\ DesktopFits(expect)' /\ DotenvFits(expect)'
    BY <1>1, <2>1, Unmoved DEF Sound, Claude!BetweenFiles
  <2> QED
    BY <1>3, <2>1, <2>3, <2>4, <2>5 DEF Sound
<1> QED
  BY <1>1, <1>2, <1>5, <1>6 DEF ClaudeInv

(* A launch adds the entry Claude Desktop lacks.                            *)
LEMMA AddEntryStep == ASSUME ClaudeInv, Claude!AddDesktopEntry PROVE ClaudeInv'
<1>t. ClaudeTyped /\ ClaudeGround /\ WantFits /\ AllChosen
  BY DEF ClaudeInv, ClaudeGround
<1>1. /\ Claude!At("idle") /\ wizard' = wizard /\ desktop' = Claude!Nothing
      /\ UNCHANGED <<local, global, os, dotenv, fallback, writable, expect, ever, torn>>
  BY DEF Claude!AddDesktopEntry, Claude!Edit, Claude!ghosts
<1>2. Claude!Nothing \in Claude!Route /\ Chosen(Claude!Nothing)
  BY DEF Claude!Nothing, Claude!Route, Chosen
<1>3. WantFits' /\ (wizard'.at # "idle" => wizard'.want \in ever)
  BY <1>1, <1>t DEF WantFits, Claude!At
<1>4. ClaudeGround'
  BY <1>1, <1>2, <1>3, <1>t, GroundKept DEF ClaudeTyped
<1>5. DesktopFits(expect)'
  BY <1>1 DEF DesktopFits, Claude!Nothing
<1>6. ~torn => Fits(expect)' /\ Dotenvs' /\ (os.end # Nowhere => Named')
  BY <1>1, <1>5, IdleIsSound, Unmoved DEF Fits
<1> QED
  BY <1>1, <1>4, <1>6, IdleEnough

(* Every step keeps the invariant.                                          *)
LEMMA ClaudeStepKeeps == ClaudeInv /\ [Claude!Next]_(Claude!vars) => ClaudeInv'
<1> SUFFICES ASSUME ClaudeInv, [Claude!Next]_(Claude!vars) PROVE ClaudeInv'
  OBVIOUS
<1>1. CASE Claude!Choose \/ Claude!Yes
  <2>1. \E want \in Claude!Outcome : Claude!Start(want)
    BY <1>1 DEF Claude!Choose, Claude!Yes, Claude!ChosenByYes, Claude!Outcome,
       Claude!Endpoint
  <2> QED
    BY <2>1, StartStep
<1>2. CASE Claude!SignIn \/ Claude!SignInFails
  BY <1>2, SignInStep
<1>3. CASE Claude!WriteLocal \/ Claude!WriteGlobal \/ Claude!WriteOs \/
    Claude!WriteDesktop \/ Claude!WriteDotenv
  BY <1>3, WriteLocalStep, WriteGlobalStep, WriteOsStep, WriteDesktopStep, WriteDotenvStep
<1>4. CASE Claude!ClearOs \/ Claude!ClearDesktop \/ Claude!ClearLocal \/
    Claude!ClearGlobal
  BY <1>4, ClearOsStep, ClearDesktopStep, ClearLocalStep, ClearGlobalStep
<1>5. CASE Claude!Cancel
  BY <1>5, CancelStep
<1>6. CASE Claude!AddLocal \/ Claude!UpdatePlugin \/ Claude!AddDesktopEntry \/
    \E e \in Near : Claude!NameEndpoint(e)
  BY <1>6, AddLocalStep, UpdateStep, AddEntryStep, NameStep
<1>7. CASE (\E r \in Claude!ProjectRoute : Claude!OpenProject(r)) \/
    UNCHANGED Claude!vars
  BY <1>7, OpenStep
<1> QED
  BY <1>1, <1>2, <1>3, <1>4, <1>5, <1>6, <1>7 DEF Claude!Next

(***************************************************************************)
(* The accounting of turns                                                 *)
(***************************************************************************)
(* A turn in the file, and the file.                                       *)
TurnRec == [kind : Turns!Kinds, reflect : BOOLEAN, consolidate : BOOLEAN,
            retries : {0, 1}, asked : BOOLEAN, counted : BOOLEAN]
Tables(S) == UNION {[D -> S] : D \in SUBSET Turns!Ids}
FileRec == [count : Nat, watermark : Nat, turns : Tables(TurnRec),
            aliases : Tables(Turns!Ids), target : 0..MaxIds]

TurnTyped ==
    /\ file \in FileRec /\ id \in 0..MaxIds /\ user \in 0..id
    /\ hostAt \in {"idle", "running", "blocked"} /\ lost \in Nat
    /\ hostAt # "idle" => user # 0 /\ id # 0
    /\ kindOf \in [Turns!Ids -> Turns!Kinds \cup {"none"}]
    /\ blocks \in [Turns!Ids -> Nat]
    /\ ended \subseteq Turns!Ids

(* Turns and aliases are of the past, and what the host is at, under any   *)
(* id, is the user's turn.                                                 *)
Follows ==
    /\ \A i \in DOMAIN file.turns : i <= id /\ file.turns[i].kind = kindOf[i]
    /\ \A i \in DOMAIN file.aliases : i <= id
    /\ id \in DOMAIN file.aliases => file.aliases[id] = user
    /\ hostAt = "blocked" => file.target = user
    /\ \A i \in Turns!Ids : i > user =>
           kindOf[i] = "none" /\ blocks[i] = 0 /\ i \notin ended
    /\ id # 0 => user # 0

(* A refusal is one of two for a plain turn, and is marked as long as the  *)
(* file knows the turn.                                                    *)
Nags ==
    /\ \A i \in Turns!Ids : blocks[i] <= IF kindOf[i] = "plain" THEN 2 ELSE 0
    /\ \A i \in DOMAIN file.turns :
          blocks[i] <= file.turns[i].retries + (IF file.turns[i].asked THEN 1 ELSE 0)

(* C is what was counted.                                                  *)
Public == {u \in ended : kindOf[u] # "private"}
Left == {u \in Turns!Ids \ ended : blocks[u] > 0}
Counts(C) ==
    /\ file.count = Cardinality(C) /\ Public \subseteq C /\ C \subseteq Public \cup Left
    /\ \A i \in DOMAIN file.turns : file.turns[i].counted <=> i \in C

(* While nothing was lost, the file knows the turn.                        *)
Knows ==
    lost = 0 =>
        /\ id # 0 => user \in DOMAIN file.turns /\ Turns!Original(id) = user
        /\ \E C \in SUBSET Turns!Ids : Counts(C)

TurnsInv == TurnTyped /\ Follows /\ Nags /\ Knows

(* The bounds are numbers, and a file keeps something.                     *)
LEMMA BoundsAre ==
    /\ Every \in Nat /\ Keep \in Nat /\ MaxIds \in Nat /\ MaxLost \in Nat
    /\ Keep >= 1
BY Assumed DEF Turns!LifecycleAssumption

(* Before the first prompt nothing is known and nothing was counted.       *)
LEMMA TurnsInit == Turns!Init => TurnsInv
<1> SUFFICES ASSUME Turns!Init PROVE TurnsInv
  OBVIOUS
<1>1. /\ Turns!Untold \in Tables(TurnRec) /\ Turns!Untold \in Tables(Turns!Ids)
      /\ DOMAIN Turns!Untold = {}
  <2>1. /\ Turns!Untold \in [{} -> TurnRec] /\ Turns!Untold \in [{} -> Turns!Ids]
        /\ DOMAIN Turns!Untold = {}
    BY DEF Turns!Untold
  <2>2. {} \in SUBSET Turns!Ids
    OBVIOUS
  <2> QED
    BY <2>1, <2>2 DEF Tables
<1> HIDE DEF Turns!Untold
<1>2. TurnTyped
  BY <1>1, BoundsAre DEF Turns!Init, TurnTyped, FileRec, Turns!Kinds
<1>3. Follows /\ Nags
  BY <1>1, BoundsAre DEF Turns!Init, Follows, Nags, Turns!Ids
<1>4. Counts({})
  BY <1>1, FS_EmptySet DEF Turns!Init, Counts, Public, Left
<1> QED
  BY <1>2, <1>3, <1>4, <1>1 DEF Turns!Init, Knows, TurnsInv

LEMMA TableIs ==
    ASSUME NEW S, NEW t \in Tables(S)
    PROVE  /\ DOMAIN t \in SUBSET Turns!Ids /\ t \in [DOMAIN t -> S]
           /\ \A i \in DOMAIN t : t[i] \in S
BY DEF Tables

(* A function on some ids is a table.                                      *)
LEMMA IsTable ==
    ASSUME NEW S, NEW D \in SUBSET Turns!Ids, NEW t \in [D -> S]
    PROVE  t \in Tables(S)
BY DEF Tables

(* A table with an entry more.                                             *)
LEMMA WithTable ==
    ASSUME NEW S, NEW t \in Tables(S), NEW i \in Turns!Ids, NEW e \in S
    PROVE  Turns!With(t, i, e) \in Tables(S)
<1>1. DOMAIN t \in SUBSET Turns!Ids /\ \A j \in DOMAIN t : t[j] \in S
  BY TableIs
<1>2. Turns!With(t, i, e) \in [DOMAIN t \cup {i} -> S]
  BY <1>1 DEF Turns!With
<1> QED
  BY <1>1, <1>2, IsTable

(* What is kept of a table: the last entry at least, and none is changed.  *)
LEMMA NewestIs ==
    ASSUME NEW S, NEW t \in Tables(S)
    PROVE  /\ Turns!Newest(t) \in Tables(S) /\ DOMAIN Turns!Newest(t) \subseteq DOMAIN t
           /\ \A j \in DOMAIN Turns!Newest(t) : Turns!Newest(t)[j] = t[j]
           /\ \A j \in DOMAIN t : (\A k \in DOMAIN t : k <= j) =>
                  j \in DOMAIN Turns!Newest(t)
<1> DEFINE D == {j \in DOMAIN t : Turns!Cardinality({k \in DOMAIN t : k > j}) < Keep}
<1>1. D \subseteq DOMAIN t /\ Turns!Newest(t) = [j \in D |-> t[j]]
  BY DEF Turns!Newest
<1>2. DOMAIN t \in SUBSET Turns!Ids /\ \A j \in DOMAIN t : t[j] \in S
  BY TableIs
<1>3. ASSUME NEW j \in DOMAIN t, \A k \in DOMAIN t : k <= j
      PROVE  j \in D
  <2>1. {k \in DOMAIN t : k > j} = {}
    BY <1>2, <1>3 DEF Turns!Ids
  <2>2. Cardinality({}) = 0
    BY FS_EmptySet
  <2>3. Turns!Cardinality({}) = 0
    BY <2>2 DEF Turns!Cardinality, Cardinality
  <2> QED
    BY <2>1, <2>3, BoundsAre
<1> HIDE DEF D
<1>4. Turns!Newest(t) \in [D -> S] /\ D \in SUBSET Turns!Ids
  BY <1>1, <1>2
<1> QED
  BY <1>1, <1>3, <1>4, IsTable

(* What a step of the file does to the turn that it is about.              *)
Same(f, g, o) ==
    /\ g \in FileRec /\ DOMAIN g.turns = DOMAIN f.turns /\ g.aliases = f.aliases
    /\ \A j \in DOMAIN f.turns \ {o} : g.turns[j] = f.turns[j]
    /\ o \in DOMAIN f.turns => g.turns[o].kind = f.turns[o].kind

CountsOne(f, g, o) ==
    /\ g.turns[o].counted = TRUE
    /\ g.count = IF f.turns[o].counted THEN f.count ELSE f.count + 1

(* A table with an entry changed.                                          *)
LEMMA TurnTable ==
    ASSUME NEW t \in Tables(TurnRec), NEW o \in DOMAIN t, NEW e \in TurnRec
    PROVE  [t EXCEPT ![o] = e] \in Tables(TurnRec)
<1>1. DOMAIN t \in SUBSET Turns!Ids /\ t \in [DOMAIN t -> TurnRec]
  BY TableIs
<1>2. [t EXCEPT ![o] = e] \in [DOMAIN t -> TurnRec]
  BY <1>1
<1> QED
  BY <1>1, <1>2, IsTable

(* A file with a turn changed.                                             *)
LEMMA TurnChanged ==
    ASSUME NEW f \in FileRec, NEW o \in DOMAIN f.turns, NEW e \in TurnRec,
           e.kind = f.turns[o].kind, NEW g \in FileRec,
           g.turns = [f.turns EXCEPT ![o] = e], g.aliases = f.aliases
    PROVE  Same(f, g, o) /\ g.turns[o] = e
<1>1. DOMAIN f.turns \in SUBSET Turns!Ids /\ f.turns \in [DOMAIN f.turns -> TurnRec]
  BY TableIs DEF FileRec
<1> QED
  BY <1>1 DEF Same

(* The end of turn o: refused for its reflect or for the consolidation, or *)
(* not at all; and counted unless it is the first.                         *)
Verdict(f, g, o, refused) ==
    /\ Same(f, g, o)
    /\ \/ /\ refused = TRUE /\ f.turns[o].kind = "plain" /\ g.target = o
          /\ f.turns[o].retries = 0 /\ g.turns[o].retries = 1
          /\ g.turns[o].asked = f.turns[o].asked
          /\ g.turns[o].counted = f.turns[o].counted /\ g.count = f.count
       \/ /\ refused = TRUE /\ f.turns[o].kind = "plain" /\ g.target = o
          /\ f.turns[o].asked = FALSE /\ g.turns[o].asked = TRUE
          /\ g.turns[o].retries = f.turns[o].retries /\ CountsOne(f, g, o)
       \/ /\ refused = FALSE /\ g.target = f.target
          /\ g.turns[o].asked = f.turns[o].asked
          /\ g.turns[o].retries = f.turns[o].retries /\ CountsOne(f, g, o)

(* A turn is counted once.                                                 *)
LEMMA CountedIs ==
    ASSUME NEW f \in FileRec, NEW o \in DOMAIN f.turns
    PROVE  /\ Same(f, Turns!Counted(f, o), o) /\ CountsOne(f, Turns!Counted(f, o), o)
           /\ Turns!Counted(f, o).target = f.target
           /\ Turns!Counted(f, o).watermark = f.watermark
           /\ Turns!Counted(f, o).turns[o] = [f.turns[o] EXCEPT !.counted = TRUE]
<1>1. /\ f.turns[o] \in TurnRec /\ f.count \in Nat /\ f.watermark \in Nat
      /\ f.target \in 0..MaxIds
  BY TableIs DEF FileRec
<1>2. CASE f.turns[o].counted
  <2>1. Turns!Counted(f, o) = f
    BY <1>2 DEF Turns!Counted
  <2>2. f.turns[o].counted = TRUE
    BY <1>1, <1>2 DEF TurnRec
  <2>3. [f.turns[o] EXCEPT !.counted = TRUE] = f.turns[o]
    BY <1>1, <2>2 DEF TurnRec
  <2> QED
    BY <1>2, <2>1, <2>2, <2>3 DEF Same, CountsOne
<1>3. CASE ~f.turns[o].counted
  <2> DEFINE e == [f.turns[o] EXCEPT !.counted = TRUE]
  <2>1. e \in TurnRec /\ e.counted = TRUE /\ e.kind = f.turns[o].kind
    BY <1>1 DEF TurnRec
  <2>2. Turns!Counted(f, o) = [f EXCEPT !.turns = [f.turns EXCEPT ![o] = e],
      !.count = f.count + 1]
    BY <1>3 DEF Turns!Counted
  <2> HIDE DEF e
  <2> DEFINE t == [f.turns EXCEPT ![o] = e]
             g == Turns!Counted(f, o)
  <2>3. t \in Tables(TurnRec)
    BY <2>1, TurnTable DEF FileRec
  <2>4. g = [f EXCEPT !.turns = t, !.count = f.count + 1]
    BY <2>2
  <2> HIDE DEF t, g
  <2>5. /\ g \in FileRec /\ g.turns = t /\ g.aliases = f.aliases /\ g.count = f.count + 1
        /\ g.target = f.target /\ g.watermark = f.watermark
    <3>1. f.count + 1 \in Nat
      BY <1>1
    <3> QED
      BY <2>3, <2>4, <3>1 DEF FileRec
  <2>6. Same(f, g, o) /\ g.turns[o] = e
    BY <2>1, <2>5, TurnChanged DEF t
  <2> QED
    BY <1>3, <2>1, <2>5, <2>6 DEF CountsOne, e, g
<1> QED
  BY <1>2, <1>3

(* The reply to the end of a turn is one of the verdicts.                  *)
LEMMA StoppedIs ==
    ASSUME file \in FileRec, NEW i \in Turns!Ids
    PROVE  LET v == Turns!Stopped(i)
           IN  IF Turns!Known(i) THEN Verdict(file, v.file, Turns!Original(i), v.refused)
               ELSE v.file = file /\ v.refused = FALSE
<1> DEFINE o == Turns!Original(i)
           turn == file.turns[o]
           counted == Turns!Counted(file, o)
           due == counted.count - counted.watermark >= Every
           v == Turns!Stopped(i)
<1>1. CASE ~Turns!Known(i)
  BY <1>1 DEF Turns!Stopped
<1>2. CASE Turns!Known(i)
  <2>1. o \in DOMAIN file.turns /\ turn.kind # "private"
    BY <1>2 DEF Turns!Known
  <2>2. turn \in TurnRec /\ DOMAIN file.turns \in SUBSET Turns!Ids
    BY <2>1, TableIs DEF FileRec
  <2>3. o \in 0..MaxIds /\ file.count \in Nat /\ file.watermark \in Nat
    BY <2>1, <2>2, BoundsAre DEF FileRec, Turns!Ids
  <2>4. /\ Same(file, counted, o) /\ CountsOne(file, counted, o)
        /\ counted.target = file.target /\ counted.watermark = file.watermark
        /\ counted.turns[o] = [turn EXCEPT !.counted = TRUE]
    BY <2>1, CountedIs
  <2>5. /\ counted.turns[o].asked = turn.asked /\ counted.turns[o].retries = turn.retries
        /\ counted.turns[o].kind = turn.kind /\ counted.turns[o] \in TurnRec
        /\ counted.turns[o].counted = TRUE
    BY <2>2, <2>4 DEF TurnRec
  <2>6. /\ counted \in FileRec /\ counted.count \in Nat /\ counted.target \in 0..MaxIds
        /\ o \in DOMAIN counted.turns
    BY <2>1, <2>4 DEF Same, FileRec
  <2>7. v = IF turn.kind = "no_write" THEN [file |-> counted, refused |-> FALSE]
            ELSE IF ~turn.reflect /\ turn.retries = 0 /\ ~active
            THEN [file |-> [file EXCEPT !.turns[o].retries = 1, !.target = o],
                  refused |-> TRUE]
            ELSE IF due /\ turn.consolidate
            THEN [file |-> [counted EXCEPT !.watermark = counted.count],
                refused |-> FALSE]
            ELSE IF due /\ ~turn.asked /\ ~active
            THEN [file |-> [counted EXCEPT !.turns[o].asked = TRUE, !.target = o],
                  refused |-> TRUE]
            ELSE [file |-> counted, refused |-> FALSE]
    BY <1>2 DEF Turns!Stopped
  <2> HIDE DEF o, counted, due, v
  <2>8. ASSUME v = [file |-> counted, refused |-> FALSE]
        PROVE  Verdict(file, v.file, o, v.refused)
    <3>1. v.file = counted /\ v.refused = FALSE
      BY <2>8
    <3> QED
      BY <3>1, <2>4, <2>5 DEF Verdict
  <2>9. ASSUME turn.kind = "plain", turn.retries = 0,
               v = [file |-> [file EXCEPT !.turns[o].retries = 1, !.target = o],
                    refused |-> TRUE]
        PROVE  Verdict(file, v.file, o, v.refused)
    <3> DEFINE e == [turn EXCEPT !.retries = 1]
               g == v.file
    <3>1. /\ e \in TurnRec /\ e.kind = turn.kind /\ e.retries = 1 /\ e.asked = turn.asked
          /\ e.counted = turn.counted
      BY <2>2 DEF TurnRec
    <3>2. /\ g = [file EXCEPT !.turns = [file.turns EXCEPT ![o] = e], !.target = o]
          /\ v.refused = TRUE
      BY <2>9
    <3> HIDE DEF e, g
    <3> DEFINE t == [file.turns EXCEPT ![o] = e]
    <3>3. t \in Tables(TurnRec)
      BY <2>1, <3>1, TurnTable DEF FileRec
    <3>4. g = [file EXCEPT !.turns = t, !.target = o]
      BY <3>2
    <3> HIDE DEF t
    <3>5. /\ g \in FileRec /\ g.turns = t /\ g.aliases = file.aliases
          /\ g.count = file.count
          /\ g.target = o
      BY <2>3, <3>3, <3>4 DEF FileRec
    <3>6. Same(file, g, o) /\ g.turns[o] = e
      BY <2>1, <3>1, <3>5, TurnChanged DEF t
    <3>7. Verdict(file, g, o, v.refused)
      BY <2>9, <3>1, <3>2, <3>5, <3>6 DEF Verdict
    <3> QED
      BY <3>7 DEF g
  <2>10. ASSUME turn.kind = "plain", ~turn.asked,
                v = [file |-> [counted EXCEPT !.turns[o].asked = TRUE, !.target = o],
                     refused |-> TRUE]
        PROVE  Verdict(file, v.file, o, v.refused)
    <3> DEFINE e == [counted.turns[o] EXCEPT !.asked = TRUE]
               g == v.file
    <3>1. /\ e \in TurnRec /\ e.kind = turn.kind /\ e.retries = turn.retries
          /\ e.asked = TRUE /\ e.counted = TRUE
      BY <2>5 DEF TurnRec
    <3>2. /\ g = [counted EXCEPT !.turns = [counted.turns EXCEPT ![o] = e], !.target = o]
          /\ v.refused = TRUE
      BY <2>10
    <3> HIDE DEF e, g
    <3> DEFINE t == [counted.turns EXCEPT ![o] = e]
    <3>3. t \in Tables(TurnRec)
      BY <2>6, <3>1, TurnTable DEF FileRec
    <3>4. g = [counted EXCEPT !.turns = t, !.target = o]
      BY <3>2
    <3> HIDE DEF t
    <3>5. /\ g \in FileRec /\ g.turns = t /\ g.aliases = counted.aliases
          /\ g.count = counted.count /\ g.target = o
      BY <2>3, <2>6, <3>3, <3>4 DEF FileRec
    <3>6. Same(counted, g, o) /\ g.turns[o] = e
      BY <2>5, <2>6, <3>1, <3>5, TurnChanged DEF t
    <3>7. Same(file, g, o) /\ CountsOne(file, g, o)
      BY <2>4, <2>1, <3>1, <3>5, <3>6 DEF Same, CountsOne
    <3>8. Verdict(file, g, o, v.refused)
      BY <2>10, <3>1, <3>2, <3>5, <3>6, <3>7 DEF Verdict
    <3> QED
      BY <3>8 DEF g
  <2>11. ASSUME v = [file |-> [counted EXCEPT !.watermark = counted.count],
      refused |-> FALSE]
        PROVE  Verdict(file, v.file, o, v.refused)
    <3> DEFINE g == v.file
    <3>1. g = [counted EXCEPT !.watermark = counted.count] /\ v.refused = FALSE
      BY <2>11
    <3>2. /\ g \in FileRec /\ g.turns = counted.turns /\ g.count = counted.count
          /\ g.target = counted.target /\ g.aliases = counted.aliases
      BY <3>1, <2>6 DEF FileRec
    <3> HIDE DEF g
    <3>3. Same(file, g, o) /\ CountsOne(file, g, o)
      BY <2>4, <3>2 DEF Same, CountsOne
    <3>4. Verdict(file, g, o, v.refused)
      BY <3>1, <3>2, <3>3, <2>4, <2>5 DEF Verdict
    <3> QED
      BY <3>4 DEF g
  <2>12. turn.kind \in {"plain", "no_write"}
    BY <2>1, <2>2 DEF TurnRec, Turns!Kinds
  <2>13. Verdict(file, v.file, o, v.refused)
    BY <2>7, <2>8, <2>9, <2>10, <2>11, <2>12
  <2> QED
    BY <1>2, <2>13 DEF v, o
<1> QED
  BY <1>1, <1>2

(* A new turn of the user.                                                 *)
LEMMA PromptedIs ==
    ASSUME file \in FileRec, NEW i \in Turns!Ids, NEW kind \in Turns!Kinds,
           i \notin DOMAIN file.turns, i \notin DOMAIN file.aliases,
           \A j \in DOMAIN file.turns : j <= i
    PROVE  LET g == Turns!Prompted(i, kind)
           IN  /\ g \in FileRec /\ g.count = file.count /\ g.target = file.target
               /\ DOMAIN g.turns \subseteq DOMAIN file.turns \cup {i}
               /\ i \in DOMAIN g.turns /\ g.turns[i] = Turns!NewTurn(kind)
               /\ \A j \in DOMAIN g.turns \ {i} : g.turns[j] = file.turns[j]
               /\ DOMAIN g.aliases \subseteq DOMAIN file.aliases
               /\ \A j \in DOMAIN g.aliases : g.aliases[j] = file.aliases[j]
<1> DEFINE e == Turns!NewTurn(kind)
           w == Turns!With(file.turns, i, e)
           t == Turns!Newest(w)
           a == Turns!Newest(file.aliases)
           g == Turns!Prompted(i, kind)
<1>1. /\ file.turns \in Tables(TurnRec) /\ file.aliases \in Tables(Turns!Ids)
      /\ e \in TurnRec
  BY DEF FileRec, Turns!NewTurn, TurnRec
<1>2. g = [file EXCEPT !.turns = t, !.aliases = a]
  BY DEF Turns!Prompted
<1> HIDE DEF e
<1>3. /\ w \in Tables(TurnRec) /\ DOMAIN w = DOMAIN file.turns \cup {i}
      /\ w[i] = e /\ \A j \in DOMAIN file.turns \ {i} : w[j] = file.turns[j]
  <2>1. w \in Tables(TurnRec)
    BY <1>1, WithTable
  <2> QED
    BY <2>1 DEF Turns!With
<1> HIDE DEF w
<1>4. /\ t \in Tables(TurnRec) /\ DOMAIN t \subseteq DOMAIN w
      /\ \A j \in DOMAIN t : t[j] = w[j]
      /\ \A j \in DOMAIN w : (\A k \in DOMAIN w : k <= j) => j \in DOMAIN t
  BY <1>3, NewestIs
<1>5. /\ a \in Tables(Turns!Ids) /\ DOMAIN a \subseteq DOMAIN file.aliases
      /\ \A j \in DOMAIN a : a[j] = file.aliases[j]
  BY <1>1, NewestIs
<1> HIDE DEF t, a, g
<1>6. /\ g \in FileRec /\ g.turns = t /\ g.aliases = a /\ g.count = file.count
      /\ g.target = file.target
  BY <1>2, <1>4, <1>5 DEF FileRec
<1>7. i \in DOMAIN t
  <2>1. i <= i
    BY BoundsAre DEF Turns!Ids
  <2> QED
    BY <2>1, <1>3, <1>4
<1>8. /\ g \in FileRec /\ g.count = file.count /\ g.target = file.target
      /\ DOMAIN g.turns \subseteq DOMAIN file.turns \cup {i}
      /\ i \in DOMAIN g.turns /\ g.turns[i] = e
      /\ \A j \in DOMAIN g.turns \ {i} : g.turns[j] = file.turns[j]
      /\ DOMAIN g.aliases \subseteq DOMAIN file.aliases
      /\ \A j \in DOMAIN g.aliases : g.aliases[j] = file.aliases[j]
  BY <1>3, <1>4, <1>5, <1>6, <1>7
<1> QED
  BY <1>8 DEF g, e

(* The prompt that a refusal asked for.                                    *)
LEMMA ContinuedIs ==
    ASSUME file \in FileRec, NEW i \in Turns!Ids
    PROVE  LET g == Turns!Continued(i)
           IN  /\ g \in FileRec /\ g.count = file.count /\ g.turns = file.turns
               /\ IF file.target \in DOMAIN file.turns /\ i # file.target
                  THEN /\ DOMAIN g.aliases = DOMAIN file.aliases \cup {i}
                       /\ g.aliases[i] = file.target
                       /\ \A j \in DOMAIN file.aliases \ {i} : g.aliases[j] = file.aliases[j]
                  ELSE g.aliases = file.aliases
<1> DEFINE g == Turns!Continued(i)
           w == Turns!With(file.aliases, i, file.target)
<1>0. 0 \in 0..MaxIds
  BY BoundsAre
<1>1. file.turns \in Tables(TurnRec) /\ file.aliases \in Tables(Turns!Ids)
  BY DEF FileRec
<1>2. CASE file.target \in DOMAIN file.turns /\ i # file.target
  <2>1. file.target \in Turns!Ids
    BY <1>1, <1>2, TableIs
  <2>2. /\ w \in Tables(Turns!Ids) /\ DOMAIN w = DOMAIN file.aliases \cup {i}
        /\ w[i] = file.target
        /\ \A j \in DOMAIN file.aliases \ {i} : w[j] = file.aliases[j]
    <3>1. w \in Tables(Turns!Ids)
      BY <1>1, <2>1, WithTable
    <3> QED
      BY <3>1 DEF Turns!With
  <2>3. g = [file EXCEPT !.target = 0, !.aliases = w]
    BY <1>2 DEF Turns!Continued
  <2> HIDE DEF w, g
  <2>4. /\ g \in FileRec /\ g.count = file.count /\ g.turns = file.turns /\ g.aliases = w
    BY <1>0, <2>2, <2>3 DEF FileRec
  <2> QED
    BY <1>2, <2>2, <2>4 DEF g
<1>3. CASE ~(file.target \in DOMAIN file.turns /\ i # file.target)
  <2>1. g = [file EXCEPT !.target = 0, !.aliases = file.aliases]
    BY <1>3 DEF Turns!Continued
  <2> HIDE DEF g
  <2>2. /\ g \in FileRec /\ g.count = file.count /\ g.turns = file.turns
        /\ g.aliases = file.aliases
    BY <1>0, <2>1 DEF FileRec
  <2> QED
    BY <1>3, <2>2 DEF g
<1> QED
  BY <1>2, <1>3

(* A receipt.                                                              *)
Alike(f, g) ==
    /\ g \in FileRec /\ DOMAIN g.turns = DOMAIN f.turns /\ g.aliases = f.aliases
    /\ g.count = f.count /\ g.target = f.target
    /\ \A j \in DOMAIN f.turns :
          /\ g.turns[j].kind = f.turns[j].kind /\ g.turns[j].retries = f.turns[j].retries
          /\ g.turns[j].asked = f.turns[j].asked
          /\ g.turns[j].counted = f.turns[j].counted

(* A receipt of a tool changes neither the turns that are known nor the    *)
(* count.                                                                  *)
LEMMA ReceivedIs ==
    ASSUME file \in FileRec, NEW i, NEW what \in {"reflect", "consolidate"}
    PROVE  Alike(file, Turns!Received(i, what))
<1> DEFINE o == Turns!Original(i)
           g == Turns!Received(i, what)
<1>1. CASE ~Turns!Known(i)
  BY <1>1 DEF Turns!Received, Alike
<1>2. ASSUME Turns!Known(i), NEW e \in TurnRec, e.kind = file.turns[o].kind,
             e.retries = file.turns[o].retries, e.asked = file.turns[o].asked,
             e.counted = file.turns[o].counted,
             g = [file EXCEPT !.turns = [file.turns EXCEPT ![o] = e]]
      PROVE  Alike(file, g)
  <2>1. o \in DOMAIN file.turns
    BY <1>2 DEF Turns!Known
  <2> DEFINE t == [file.turns EXCEPT ![o] = e]
  <2>2. t \in Tables(TurnRec)
    BY <2>1, TurnTable DEF FileRec
  <2>3. g = [file EXCEPT !.turns = t]
    BY <1>2
  <2> HIDE DEF t, g, o
  <2>4. /\ g \in FileRec /\ g.turns = t /\ g.aliases = file.aliases
        /\ g.count = file.count
        /\ g.target = file.target
    BY <2>2, <2>3 DEF FileRec
  <2>5. /\ g.turns = [file.turns EXCEPT ![o] = e]
        /\ e.kind = file.turns[o].kind /\ e \in TurnRec
    BY <2>4, <1>2 DEF t
  <2>6. Same(file, g, o) /\ g.turns[o] = e
    BY <2>1, <2>4, <2>5, TurnChanged
  <2> QED
    BY <2>4, <2>6, <1>2 DEF Alike, Same
<1>3. CASE Turns!Known(i)
  <2>1. o \in DOMAIN file.turns /\ file.turns[o] \in TurnRec
    BY <1>3, TableIs DEF Turns!Known, FileRec
  <2>2. CASE what = "reflect"
    <3> DEFINE e == [file.turns[o] EXCEPT !.reflect = TRUE]
    <3>1. /\ e \in TurnRec /\ e.kind = file.turns[o].kind
          /\ e.retries = file.turns[o].retries
          /\ e.asked = file.turns[o].asked /\ e.counted = file.turns[o].counted
      BY <2>1 DEF TurnRec
    <3>2. g = [file EXCEPT !.turns = [file.turns EXCEPT ![o] = e]]
      BY <1>3, <2>2 DEF Turns!Received
    <3> HIDE DEF e, g, o
    <3> QED
      BY <1>2, <1>3, <3>1, <3>2 DEF g
  <2>3. CASE what = "consolidate"
    <3> DEFINE e == [file.turns[o] EXCEPT !.consolidate = TRUE]
    <3>1. /\ e \in TurnRec /\ e.kind = file.turns[o].kind
          /\ e.retries = file.turns[o].retries
          /\ e.asked = file.turns[o].asked /\ e.counted = file.turns[o].counted
      BY <2>1 DEF TurnRec
    <3>2. g = [file EXCEPT !.turns = [file.turns EXCEPT ![o] = e]]
      BY <1>3, <2>3 DEF Turns!Received
    <3> HIDE DEF e, g, o
    <3> QED
      BY <1>2, <1>3, <3>1, <3>2 DEF g
  <2> QED
    BY <2>2, <2>3
<1> QED
  BY <1>1, <1>3

(* What was counted is of the past.                                        *)
LEMMA CountedArePast ==
    ASSUME TurnsInv, NEW C \in SUBSET Turns!Ids, Counts(C)
    PROVE  \A i \in C : i <= user
<1>1. \A i \in Turns!Ids : blocks[i] \in Nat /\ i \in Nat /\ user \in Nat
  BY BoundsAre DEF TurnsInv, TurnTyped, Turns!Ids
<1> QED
  BY <1>1 DEF TurnsInv, Follows, Counts, Public, Left

(* A prompt of the user begins a turn.                                     *)
LEMMA StepUserPrompt ==
    ASSUME TurnsInv, NEW kind \in Turns!Kinds, Turns!UserPrompt(kind)
    PROVE  TurnsInv'
<1> DEFINE i == id + 1
           g == Turns!Prompted(i, kind)
<1>1. /\ file \in FileRec /\ id \in 0..MaxIds /\ user \in 0..id /\ id \in Nat
      /\ user \in Nat
      /\ lost \in Nat /\ DOMAIN file.turns \subseteq Turns!Ids
      /\ DOMAIN file.aliases \subseteq Turns!Ids
  BY BoundsAre, TableIs DEF TurnsInv, TurnTyped, FileRec
<1>2. /\ id < MaxIds /\ id' = i /\ user' = i /\ hostAt' = "running"
      /\ kindOf' = [kindOf EXCEPT ![i] = kind] /\ UNCHANGED <<blocks, ended>>
      /\ (file' = g /\ lost' = lost) \/ (file' = file /\ lost' = lost + 1)
  BY DEF Turns!UserPrompt, Turns!Event, Turns!Lose
<1>3. i \in Turns!Ids /\ i \in Nat /\ i > id /\ i > user /\ i # 0
  BY <1>1, <1>2, BoundsAre DEF Turns!Ids
<1>4. i \notin DOMAIN file.turns /\ i \notin DOMAIN file.aliases
      /\ \A j \in DOMAIN file.turns : j <= i
  BY <1>1, <1>3, BoundsAre DEF TurnsInv, Follows, Turns!Ids
<1>5. /\ g \in FileRec /\ g.count = file.count /\ g.target = file.target
      /\ DOMAIN g.turns \subseteq DOMAIN file.turns \cup {i}
      /\ i \in DOMAIN g.turns /\ g.turns[i] = Turns!NewTurn(kind)
      /\ \A j \in DOMAIN g.turns \ {i} : g.turns[j] = file.turns[j]
      /\ DOMAIN g.aliases \subseteq DOMAIN file.aliases
      /\ \A j \in DOMAIN g.aliases : g.aliases[j] = file.aliases[j]
  BY <1>1, <1>3, <1>4, PromptedIs
<1>6. /\ Turns!NewTurn(kind).kind = kind /\ Turns!NewTurn(kind).retries = 0
      /\ Turns!NewTurn(kind).asked = FALSE /\ Turns!NewTurn(kind).counted = FALSE
  BY DEF Turns!NewTurn
<1> HIDE DEF g, i
<1>7. /\ kindOf' \in [Turns!Ids -> Turns!Kinds \cup {"none"}] /\ kindOf'[i] = kind
      /\ \A j \in Turns!Ids \ {i} : kindOf'[j] = kindOf[j]
      /\ blocks \in [Turns!Ids -> Nat] /\ blocks[i] = 0 /\ i \notin ended
      /\ ended \subseteq Turns!Ids
  BY <1>1, <1>2, <1>3 DEF TurnsInv, TurnTyped, Follows
<1>8. /\ file' \in FileRec /\ lost' \in Nat
      /\ DOMAIN file'.turns \subseteq DOMAIN file.turns \cup {i}
      /\ DOMAIN file'.aliases \subseteq DOMAIN file.aliases
      /\ \A j \in DOMAIN file'.turns \ {i} : file'.turns[j] = file.turns[j]
      /\ i \in DOMAIN file'.turns => file'.turns[i] = Turns!NewTurn(kind)
  BY <1>1, <1>2, <1>4, <1>5
<1>9. TurnTyped'
  BY <1>1, <1>2, <1>3, <1>7, <1>8 DEF TurnTyped, Turns!Ids
<1>10. Follows'
  <2>1. \A j \in Turns!Ids : j \in Nat
    BY BoundsAre DEF Turns!Ids
  <2>2. \A j \in DOMAIN file'.turns : j <= id' /\ file'.turns[j].kind = kindOf'[j]
    <3>1. ASSUME NEW j \in DOMAIN file'.turns, j # i
          PROVE  j <= id' /\ file'.turns[j].kind = kindOf'[j]
      <4>1. /\ j \in DOMAIN file.turns /\ j \in Turns!Ids /\ j <= id
            /\ file.turns[j].kind = kindOf[j]
        BY <1>1, <1>8, <3>1 DEF TurnsInv, Follows
      <4> QED
        BY <4>1, <3>1, <1>1, <1>2, <1>3, <1>7, <1>8, <2>1
    <3>2. i \in DOMAIN file'.turns => i <= id' /\ file'.turns[i].kind = kindOf'[i]
      BY <1>2, <1>3, <1>6, <1>7, <1>8
    <3> QED
      BY <3>1, <3>2
  <2>3. ASSUME NEW j \in DOMAIN file'.aliases PROVE j <= id' /\ j # id'
    <3>1. j \in Nat /\ j <= id
      BY <1>1, <1>8, <2>1 DEF TurnsInv, Follows
    <3> QED
      BY <3>1, <1>1, <1>2, <1>3
  <2>4. ASSUME NEW j \in Turns!Ids, j > user'
        PROVE  kindOf'[j] = "none" /\ blocks'[j] = 0 /\ j \notin ended'
    <3>1. j > user /\ j # i
      BY <2>1, <2>4, <1>1, <1>2, <1>3
    <3> QED
      BY <3>1, <1>2, <1>7 DEF TurnsInv, Follows
  <2> QED
    BY <2>2, <2>3, <2>4, <1>2, <1>3 DEF Follows
<1>11. Nags'
  <2>1. \A j \in DOMAIN file'.turns : j # i => j \in DOMAIN file.turns
    BY <1>8
  <2>2. \A j \in Turns!Ids : blocks'[j] <= IF kindOf'[j] = "plain" THEN 2 ELSE 0
    BY <1>2, <1>7 DEF TurnsInv, Nags
  <2>3. \A j \in DOMAIN file'.turns :
           blocks'[j] <= file'.turns[j].retries + (IF file'.turns[j].asked THEN 1 ELSE 0)
    BY <2>1, <1>2, <1>6, <1>7, <1>8 DEF TurnsInv, Nags
  <2> QED
    BY <2>2, <2>3 DEF Nags
<1>12. ASSUME lost' = 0
       PROVE  /\ user' \in DOMAIN file'.turns /\ Turns!Original(id)' = user'
              /\ \E C \in SUBSET Turns!Ids : Counts(C)'
  <2>1. lost = 0 /\ file' = g
    BY <1>1, <1>2, <1>12
  <2>2. PICK C \in SUBSET Turns!Ids : Counts(C)
    BY <2>1 DEF TurnsInv, Knows
  <2>3. i \notin C
    BY <2>2, <1>1, <1>3, CountedArePast
  <2>4. Public' = Public /\ Left' = Left
    BY <1>2, <1>7 DEF Public, Left
  <2>5. \A j \in DOMAIN g.turns : g.turns[j].counted <=> j \in C
    <3>1. \A j \in DOMAIN g.turns \ {i} : g.turns[j].counted <=> j \in C
      BY <2>2, <1>5 DEF Counts
    <3>2. ~g.turns[i].counted
      BY <1>5, <1>6
    <3> QED
      BY <3>1, <3>2, <2>3
  <2>6. Counts(C)'
    BY <2>1, <2>2, <2>4, <2>5, <1>5 DEF Counts
  <2>7. user' \in DOMAIN file'.turns /\ Turns!Original(id)' = user'
    BY <1>2, <1>4, <1>5, <2>1 DEF Turns!Original
  <2> QED
    BY <2>6, <2>7
<1>13. Knows'
  BY <1>12 DEF Knows
<1> QED
  BY <1>9, <1>10, <1>11, <1>13 DEF TurnsInv

(* A refused turn goes on under another id.                                *)
LEMMA StepGoOnAnew == ASSUME TurnsInv, Turns!GoOnAnew PROVE TurnsInv'
<1> DEFINE i == id + 1
           g == Turns!Continued(i)
<1>1. /\ file \in FileRec /\ id \in Nat /\ user \in Nat /\ user <= id /\ user # 0
      /\ id # 0
      /\ lost \in Nat /\ DOMAIN file.turns \subseteq Turns!Ids
      /\ DOMAIN file.aliases \subseteq Turns!Ids
      /\ hostAt = "blocked" /\ file.target = user
  BY BoundsAre, TableIs DEF TurnsInv, TurnTyped, FileRec, Follows, Turns!GoOnAnew
<1>2. /\ id < MaxIds /\ id' = i /\ hostAt' = "running"
      /\ UNCHANGED <<user, kindOf, blocks, ended>>
      /\ (file' = g /\ lost' = lost) \/ (file' = file /\ lost' = lost + 1)
  BY DEF Turns!GoOnAnew, Turns!Event, Turns!Lose
<1>3. i \in Turns!Ids /\ i \in Nat /\ i > id /\ i # user /\ i # 0
  BY <1>1, <1>2, BoundsAre DEF Turns!Ids
<1>4. /\ g \in FileRec /\ g.count = file.count /\ g.turns = file.turns
      /\ IF file.target \in DOMAIN file.turns /\ i # file.target
         THEN /\ DOMAIN g.aliases = DOMAIN file.aliases \cup {i}
              /\ g.aliases[i] = file.target
              /\ \A j \in DOMAIN file.aliases \ {i} : g.aliases[j] = file.aliases[j]
         ELSE g.aliases = file.aliases
  BY <1>1, <1>3, ContinuedIs
<1>5. i \notin DOMAIN file.aliases /\ i \notin DOMAIN file.turns
      /\ \A j \in Turns!Ids : j \in Nat
  BY <1>1, <1>3, BoundsAre DEF TurnsInv, Follows, Turns!Ids
<1> HIDE DEF g, i
<1>6. /\ file' \in FileRec /\ file'.turns = file.turns /\ lost' \in Nat
      /\ DOMAIN file'.aliases \subseteq DOMAIN file.aliases \cup {i}
      /\ i \in DOMAIN file'.aliases => file'.aliases[i] = user
  BY <1>1, <1>2, <1>4, <1>5
<1>7. TurnTyped'
  BY <1>1, <1>2, <1>3, <1>6, BoundsAre DEF TurnsInv, TurnTyped, Turns!Ids
<1>8. Follows'
  <2>1. \A j \in DOMAIN file'.turns : j <= id' /\ file'.turns[j].kind = kindOf'[j]
    <3>1. ASSUME NEW j \in DOMAIN file'.turns
        PROVE j <= id' /\ file'.turns[j].kind = kindOf'[j]
      <4>1. /\ j \in DOMAIN file.turns /\ j \in Nat /\ j <= id
            /\ file.turns[j].kind = kindOf[j]
        BY <1>1, <1>5, <1>6 DEF TurnsInv, Follows
      <4> QED
        BY <4>1, <1>1, <1>2, <1>3, <1>6
    <3> QED
      BY <3>1
  <2>2. ASSUME NEW j \in DOMAIN file'.aliases PROVE j <= id'
    <3>1. CASE j = i
      BY <3>1, <1>2, <1>3
    <3>2. CASE j # i
      <4>1. j \in Nat /\ j <= id
        BY <3>2, <1>1, <1>5, <1>6 DEF TurnsInv, Follows
      <4> QED
        BY <4>1, <1>1, <1>2, <1>3
    <3> QED
      BY <3>1, <3>2
  <2> QED
    BY <2>1, <2>2, <1>1, <1>2, <1>6 DEF TurnsInv, Follows
<1>9. Nags'
  BY <1>2, <1>6 DEF TurnsInv, Nags
<1>10. ASSUME lost' = 0
       PROVE  /\ user' \in DOMAIN file'.turns /\ Turns!Original(id)' = user'
              /\ \E C \in SUBSET Turns!Ids : Counts(C)'
  <2>1. lost = 0 /\ file' = g
    BY <1>1, <1>2, <1>10
  <2>2. user \in DOMAIN file.turns
    BY <2>1, <1>1 DEF TurnsInv, Knows
  <2>3. PICK C \in SUBSET Turns!Ids : Counts(C)
    BY <2>1 DEF TurnsInv, Knows
  <2>4. Counts(C)'
    BY <2>1, <2>3, <1>2, <1>4 DEF Counts, Public, Left
  <2>5. Turns!Original(id)' = user'
    BY <2>1, <2>2, <1>1, <1>2, <1>3, <1>4 DEF Turns!Original
  <2> QED
    BY <2>2, <2>4, <2>5, <1>2, <1>6
<1>11. Knows'
  BY <1>10 DEF Knows
<1> QED
  BY <1>7, <1>8, <1>9, <1>11 DEF TurnsInv

(* A receipt of a tool, which may be lost.                                 *)
LEMMA StepReceipt ==
    ASSUME TurnsInv, NEW what \in {"reflect", "consolidate"}, Turns!Receipt(what)
    PROVE  TurnsInv'
<1>1. /\ file \in FileRec /\ lost \in Nat
      /\ UNCHANGED <<id, user, hostAt, active, kindOf, blocks, ended>>
      /\ \/ file' = Turns!Received(id, what) /\ lost' = lost
         \/ file' = file /\ lost' = lost + 1
  BY DEF TurnsInv, TurnTyped, Turns!Receipt, Turns!Event, Turns!Lose
<1>2. Alike(file, file') /\ lost' \in Nat /\ (lost' = 0 => lost = 0)
  <2>1. Alike(file, Turns!Received(id, what)) /\ Alike(file, file)
    BY <1>1, ReceivedIs DEF Alike
  <2> QED
    BY <1>1, <2>1
<1>3. TurnTyped'
  BY <1>1, <1>2 DEF TurnsInv, TurnTyped, Alike
<1>4. Follows'
  BY <1>1, <1>2 DEF TurnsInv, Follows, Alike
<1>5. Nags'
  BY <1>1, <1>2 DEF TurnsInv, Nags, Alike
<1>6. ASSUME NEW C \in SUBSET Turns!Ids, Counts(C) PROVE Counts(C)'
  BY <1>1, <1>2, <1>6 DEF Counts, Public, Left, Alike
<1>7. Turns!Original(id)' = Turns!Original(id)
  BY <1>1, <1>2 DEF Turns!Original, Alike
<1>8. Knows'
  BY <1>1, <1>2, <1>6, <1>7 DEF TurnsInv, Knows, Alike
<1> QED
  BY <1>3, <1>4, <1>5, <1>8 DEF TurnsInv

(* The turn that stops is the user's.                                      *)
LEMMA KnownIs ==
    ASSUME TurnsInv, id # 0, Turns!Known(id)
    PROVE  Turns!Original(id) = user /\ user \in DOMAIN file.turns
<1>1. Turns!Original(id) \in DOMAIN file.turns
  BY DEF Turns!Known
<1>2. CASE id \in DOMAIN file.aliases
  BY <1>1, <1>2 DEF TurnsInv, Follows, Turns!Original
<1>3. CASE id \notin DOMAIN file.aliases
  <2>1. Turns!Original(id) = id /\ id \in DOMAIN file.turns
    BY <1>1, <1>3 DEF Turns!Original
  <2>2. file.turns[id] \in TurnRec /\ id \in Turns!Ids
    BY <2>1, TableIs DEF TurnsInv, TurnTyped, FileRec
  <2>3. kindOf[id] # "none"
    BY <2>1, <2>2 DEF TurnsInv, Follows, TurnRec, Turns!Kinds
  <2>4. ~(id > user) /\ user <= id /\ user \in Nat /\ id \in Nat
    BY <2>2, <2>3, BoundsAre DEF TurnsInv, Follows, TurnTyped
  <2> QED
    BY <2>1, <2>4
<1> QED
  BY <1>2, <1>3

(* The end of a turn, which may be refused, and of which the event or the  *)
(* reply may be lost.                                                      *)
LEMMA StepStop == ASSUME TurnsInv, Turns!Stop PROVE TurnsInv'
<1> DEFINE v == Turns!Stopped(id)
<1>1. /\ file \in FileRec /\ lost \in Nat /\ id # 0 /\ user # 0 /\ id \in Nat
      /\ user \in Nat
      /\ user <= id /\ id \in Turns!Ids /\ user \in Turns!Ids
      /\ \A i \in Turns!Ids : blocks[i] \in Nat
      /\ kindOf \in [Turns!Ids -> Turns!Kinds \cup {"none"}]
      /\ blocks \in [Turns!Ids -> Nat] /\ ended \subseteq Turns!Ids
  BY BoundsAre DEF TurnsInv, TurnTyped, Follows, Turns!Stop, Turns!Ids
<1>2. /\ UNCHANGED <<id, user, active, kindOf>>
      /\ \/ /\ file' = v.file /\ hostAt' = IF v.refused THEN "blocked" ELSE "idle"
            /\ blocks' = [blocks EXCEPT ![user] =
                   IF v.refused THEN blocks[user] + 1 ELSE blocks[user]]
            /\ ended' = IF v.refused THEN ended ELSE ended \cup {user}
            /\ lost' = lost
         \/ /\ file' \in {file, v.file} /\ hostAt' = "idle" /\ lost' = lost + 1
            /\ UNCHANGED <<blocks, ended>>
  BY DEF Turns!Stop, Turns!Lose
<1>3. IF Turns!Known(id)
      THEN Verdict(file, v.file, user, v.refused) /\ user \in DOMAIN file.turns
      ELSE v.file = file /\ v.refused = FALSE
  BY <1>1, StoppedIs, KnownIs
<1> HIDE DEF v
<1>4. Same(file, v.file, user) /\ Same(file, file, user)
  BY <1>1, <1>3 DEF Verdict, Same
<1>5. Same(file, file', user) /\ lost' \in Nat /\ (lost' = 0 => lost = 0)
  BY <1>1, <1>2, <1>4
<1>6. v.refused \in BOOLEAN /\ (v.refused => v.file.target = user /\ Turns!Known(id))
  BY <1>3 DEF Verdict
<1>7. /\ blocks' \in [Turns!Ids -> Nat]
      /\ \A i \in Turns!Ids \ {user} : blocks'[i] = blocks[i]
      /\ ended' \subseteq ended \cup {user} /\ hostAt' \in {"idle", "blocked"}
      /\ hostAt' = "blocked" => file'.target = user
      /\ \/ blocks'[user] = blocks[user]
         \/ v.refused /\ blocks'[user] = blocks[user] + 1 /\ file' = v.file
  BY <1>1, <1>2, <1>6
<1>8. TurnTyped'
  BY <1>1, <1>2, <1>5, <1>7 DEF TurnsInv, TurnTyped, Same
<1>9. Follows'
  <2>1. \A j \in DOMAIN file'.turns : j <= id' /\ file'.turns[j].kind = kindOf'[j]
    <3>1. \A j \in DOMAIN file.turns : file'.turns[j].kind = file.turns[j].kind
      BY <1>5 DEF Same
    <3> QED
      BY <3>1, <1>2, <1>5 DEF TurnsInv, Follows, Same
  <2>2. \A i \in Turns!Ids : i > user => i # user
    BY <1>1, BoundsAre DEF Turns!Ids
  <2> QED
    BY <2>1, <2>2, <1>1, <1>2, <1>5, <1>7 DEF TurnsInv, Follows, Same
<1>10. user \in DOMAIN file.turns =>
          /\ file.turns[user] \in TurnRec /\ file'.turns[user] \in TurnRec
          /\ file.turns[user].kind = kindOf[user]
          /\ blocks[user] <= file.turns[user].retries
                              + (IF file.turns[user].asked THEN 1 ELSE 0)
  <2>1. user \in DOMAIN file.turns =>
      file.turns[user] \in TurnRec /\ file'.turns[user] \in TurnRec
    BY <1>1, <1>5, TableIs DEF FileRec, Same
  <2> QED
    BY <2>1 DEF TurnsInv, Follows, Nags
<1>11. Nags'
  <2>1. \A i \in Turns!Ids \ {user} : blocks'[i] <= IF kindOf'[i] = "plain" THEN 2 ELSE 0
    BY <1>2, <1>7 DEF TurnsInv, Nags
  <2>2. \A i \in DOMAIN file'.turns \ {user} :
           blocks'[i] <= file'.turns[i].retries + (IF file'.turns[i].asked THEN 1 ELSE 0)
    <3>1. \A i \in DOMAIN file'.turns \ {user} :
            i \in Turns!Ids /\ i \in DOMAIN file.turns /\ file'.turns[i] = file.turns[i]
      BY <1>1, <1>5, TableIs DEF Same, FileRec
    <3> QED
      BY <3>1, <1>7 DEF TurnsInv, Nags
  <2>3. /\ blocks'[user] <= IF kindOf[user] = "plain" THEN 2 ELSE 0
        /\ user \in DOMAIN file'.turns =>
              blocks'[user] <= file'.turns[user].retries
                               + (IF file'.turns[user].asked THEN 1 ELSE 0)
    <3>1. CASE Turns!Known(id) /\ v.refused = TRUE /\ file' = v.file
      <4>1. /\ kindOf[user] = "plain" /\ user \in DOMAIN file.turns
            /\ \/ /\ file.turns[user].retries = 0 /\ file'.turns[user].retries = 1
                  /\ file'.turns[user].asked = file.turns[user].asked
               \/ /\ file.turns[user].asked = FALSE /\ file'.turns[user].asked = TRUE
                  /\ file'.turns[user].retries = file.turns[user].retries
        BY <3>1, <1>3, <1>10 DEF Verdict
      <4>2. /\ blocks'[user] <= blocks[user] + 1 /\ blocks[user] \in Nat
            /\ blocks'[user] \in Nat
        BY <1>1, <1>7
      <4>3. file.turns[user].retries \in {0, 1} /\ file'.turns[user].retries \in {0, 1}
        BY <1>10, <4>1 DEF TurnRec
      <4>4. blocks'[user] <= file'.turns[user].retries
                             + (IF file'.turns[user].asked THEN 1 ELSE 0)
        BY <4>1, <4>2, <4>3, <1>10
      <4> QED
        BY <4>1, <4>2, <4>3, <4>4
    <3>2. CASE blocks'[user] = blocks[user]
      <4>1. blocks'[user] <= IF kindOf[user] = "plain" THEN 2 ELSE 0
        BY <3>2, <1>1 DEF TurnsInv, Nags
      <4>2. ASSUME user \in DOMAIN file'.turns
            PROVE  blocks'[user] <= file'.turns[user].retries
                                    + (IF file'.turns[user].asked THEN 1 ELSE 0)
        <5>1. user \in DOMAIN file.turns
          BY <4>2, <1>5 DEF Same
        <5>2. \/ /\ file'.turns[user].retries = file.turns[user].retries
                 /\ file'.turns[user].asked = file.turns[user].asked
              \/ /\ file.turns[user].retries = 0 /\ file'.turns[user].retries = 1
                 /\ file'.turns[user].asked = file.turns[user].asked
              \/ /\ file.turns[user].asked = FALSE /\ file'.turns[user].asked = TRUE
                 /\ file'.turns[user].retries = file.turns[user].retries
          BY <1>2, <1>3 DEF Verdict
        <5>3. /\ file.turns[user].retries \in {0, 1}
              /\ file'.turns[user].retries \in {0, 1}
              /\ blocks[user] \in Nat
          BY <1>1, <1>10, <5>1 DEF TurnRec
        <5> QED
          BY <5>1, <5>2, <5>3, <3>2, <1>10
      <4> QED
        BY <4>1, <4>2
    <3> QED
      BY <3>1, <3>2, <1>6, <1>7
  <2> QED
    BY <2>1, <2>2, <2>3, <1>2 DEF Nags
<1>12. ASSUME lost' = 0
       PROVE  /\ user' \in DOMAIN file'.turns /\ Turns!Original(id)' = user'
              /\ \E C \in SUBSET Turns!Ids : Counts(C)'
  <2>1. /\ lost = 0 /\ file' = v.file
        /\ blocks' = [blocks EXCEPT ![user] =
                 IF v.refused THEN blocks[user] + 1 ELSE blocks[user]]
        /\ ended' = IF v.refused THEN ended ELSE ended \cup {user}
    BY <1>1, <1>2, <1>12
  <2>2. user \in DOMAIN file.turns /\ Turns!Original(id) = user
    BY <2>1, <1>1 DEF TurnsInv, Knows
  <2>3. user' \in DOMAIN file'.turns /\ Turns!Original(id)' = user'
    BY <2>2, <1>2, <1>5 DEF Same, Turns!Original
  <2>4. PICK C \in SUBSET Turns!Ids : Counts(C)
    BY <2>1 DEF TurnsInv, Knows
  <2>5. /\ IsFiniteSet(C) /\ Cardinality(C) \in Nat
        /\ Cardinality(C \cup {user}) =
              IF user \in C THEN Cardinality(C) ELSE Cardinality(C) + 1
    <3>1. IsFiniteSet(Turns!Ids)
      BY BoundsAre, FS_Interval DEF Turns!Ids
    <3>2. IsFiniteSet(C)
      BY <3>1, FS_Subset
    <3> QED
      BY <3>2, FS_AddElement, FS_CardinalityType
  <2>6. file.turns[user].counted <=> user \in C
    BY <2>2, <2>4 DEF Counts
  <2>7. PICK D \in SUBSET Turns!Ids : D = C \cup {user}
    BY <1>1
  <2>8. CASE ~Turns!Known(id)
    <3>1. file' = file /\ blocks' = blocks /\ ended' = ended \cup {user}
      BY <2>1, <2>8, <1>1, <1>3
    <3>2. kindOf[user] = "private"
      BY <2>2, <2>8, <1>10 DEF Turns!Known
    <3>3. blocks[user] <= 0
      BY <3>2, <1>1 DEF TurnsInv, Nags
    <3>4. Public' = Public
      BY <3>1, <3>2, <1>2 DEF Public
    <3>5. Left' = Left
      BY <3>1, <3>3, <1>1 DEF Left
    <3>6. Counts(C)'
      BY <2>4, <3>1, <3>4, <3>5 DEF Counts
    <3> QED
      BY <2>3, <3>6
  <2>9. CASE Turns!Known(id) /\ v.refused = TRUE
    <3>1. /\ Verdict(file, file', user, v.refused) /\ kindOf[user] = "plain"
          /\ ended' = ended /\ blocks' = [blocks EXCEPT ![user] = blocks[user] + 1]
      BY <2>1, <2>9, <1>3, <1>10 DEF Verdict
    <3>2. Public' = Public /\ Left \subseteq Left' /\ (user \in Public' \/ user \in Left')
      <4>1. /\ user \in Turns!Ids /\ blocks'[user] > 0
            /\ \A i \in Turns!Ids : blocks[i] > 0 => blocks'[i] > 0
        BY <3>1, <1>1
      <4> QED
        BY <3>1, <4>1, <1>2 DEF Public, Left
    <3>3. CASE /\ file'.turns[user].counted = file.turns[user].counted
               /\ file'.count = file.count
      <4>1. \A i \in DOMAIN file'.turns : file'.turns[i].counted <=> i \in C
        <5>1. \A i \in DOMAIN file'.turns \ {user} :
                i \in DOMAIN file.turns /\ file'.turns[i] = file.turns[i]
          BY <1>5 DEF Same
        <5> QED
          BY <5>1, <2>4, <2>6, <3>3 DEF Counts
      <4>2. Counts(C)'
        BY <2>4, <3>2, <3>3, <4>1 DEF Counts
      <4> QED
        BY <2>3, <4>2
    <3>4. CASE CountsOne(file, file', user)
      <4>1. \A i \in DOMAIN file'.turns : file'.turns[i].counted <=> i \in D
        <5>1. \A i \in DOMAIN file'.turns \ {user} :
                i \in DOMAIN file.turns /\ file'.turns[i] = file.turns[i]
          BY <1>5 DEF Same
        <5>2. \A i \in DOMAIN file.turns : file.turns[i].counted <=> i \in C
          BY <2>4 DEF Counts
        <5>3. \A i \in DOMAIN file'.turns \ {user} : file'.turns[i].counted <=> i \in D
          BY <5>1, <5>2, <2>7
        <5> QED
          BY <5>3, <3>4, <2>7 DEF CountsOne
      <4>2. file'.count = Cardinality(D)
        BY <2>4, <2>5, <2>6, <2>7, <3>4 DEF Counts, CountsOne
      <4>3. Counts(D)'
        BY <2>4, <2>7, <3>2, <4>1, <4>2 DEF Counts
      <4> QED
        BY <2>3, <4>3
    <3> QED
      BY <3>1, <3>3, <3>4, <2>9 DEF Verdict
  <2>10. CASE Turns!Known(id) /\ v.refused = FALSE
    <3>1. /\ CountsOne(file, file', user) /\ ended' = ended \cup {user}
          /\ blocks' = blocks
          /\ kindOf[user] # "private"
      BY <2>1, <2>2, <2>10, <1>1, <1>3, <1>10 DEF Verdict, Turns!Known
    <3>2. Public' = Public \cup {user} /\ Left \subseteq Left' \cup {user}
      BY <3>1, <1>2 DEF Public, Left
    <3>3. \A i \in DOMAIN file'.turns : file'.turns[i].counted <=> i \in D
      <4>1. \A i \in DOMAIN file'.turns \ {user} :
              i \in DOMAIN file.turns /\ file'.turns[i] = file.turns[i]
        BY <1>5 DEF Same
      <4>2. \A i \in DOMAIN file.turns : file.turns[i].counted <=> i \in C
        BY <2>4 DEF Counts
      <4>3. \A i \in DOMAIN file'.turns \ {user} : file'.turns[i].counted <=> i \in D
        BY <4>1, <4>2, <2>7
      <4> QED
        BY <4>3, <3>1, <2>7 DEF CountsOne
    <3>4. file'.count = Cardinality(D)
      BY <2>4, <2>5, <2>6, <2>7, <3>1 DEF Counts, CountsOne
    <3>5. Counts(D)'
      BY <2>4, <2>7, <3>2, <3>3, <3>4 DEF Counts
    <3> QED
      BY <2>3, <3>5
  <2> QED
    BY <2>8, <2>9, <2>10, <1>6
<1>13. Knows'
  BY <1>12 DEF Knows
<1> QED
  BY <1>8, <1>9, <1>11, <1>13 DEF TurnsInv

(* Every step keeps the invariant.                                         *)
LEMMA TurnsStep == TurnsInv /\ [Turns!Next]_(Turns!vars) => TurnsInv'
<1> SUFFICES ASSUME TurnsInv, [Turns!Next]_(Turns!vars) PROVE TurnsInv'
  OBVIOUS
<1>1. CASE Turns!GoOn
  <2>1. UNCHANGED <<file, id, user, lost, kindOf, blocks, ended>> /\ hostAt = "blocked"
        /\ hostAt' = "running"
    BY <1>1 DEF Turns!GoOn
  <2>2. TurnTyped' /\ Follows' /\ Nags'
    BY <2>1 DEF TurnsInv, TurnTyped, Follows, Nags
  <2>3. Knows'
    BY <2>1 DEF TurnsInv, Knows, Turns!Original, Counts, Public, Left
  <2> QED
    BY <2>2, <2>3 DEF TurnsInv
<1>2. CASE UNCHANGED Turns!vars
  BY <1>2 DEF Turns!vars, TurnsInv, TurnTyped, Follows, Nags, Knows, Turns!Original,
     Counts, Public, Left
<1> QED
  BY <1>1, <1>2, StepUserPrompt, StepGoOnAnew, StepReceipt, StepStop DEF Turns!Next

(* The invariant says that the count is exact and the nags bounded.        *)
LEMMA TurnsFollow == TurnsInv => Turns!TurnsAreCounted
<1> SUFFICES ASSUME TurnsInv PROVE Turns!TurnsAreCounted
  OBVIOUS
<1>1. Turns!NagsAreBounded
  BY DEF TurnsInv, Nags, Turns!NagsAreBounded
<1>2. ASSUME lost = 0
      PROVE  file.count - Cardinality(Public) \in 0..Cardinality(Left)
  <2>1. PICK C \in SUBSET Turns!Ids : Counts(C)
    BY <1>2 DEF TurnsInv, Knows
  <2>2. IsFiniteSet(Turns!Ids) /\ Public \subseteq Turns!Ids /\ Left \subseteq Turns!Ids
    <3>1. IsFiniteSet(Turns!Ids)
      BY BoundsAre, FS_Interval DEF Turns!Ids
    <3> QED
      BY <3>1 DEF TurnsInv, TurnTyped, Public, Left
  <2>3. IsFiniteSet(Public) /\ IsFiniteSet(Left) /\ IsFiniteSet(C)
    BY <2>2, FS_Subset
  <2>4. IsFiniteSet(Public \cup Left) /\ Public \cap Left = {}
    BY <2>3, FS_Union DEF Public, Left
  <2>5. Cardinality(Public \cup Left) = Cardinality(Public) + Cardinality(Left)
    <3>1. Cardinality(Public \cup Left) = Cardinality(Public) + Cardinality(Left)
                                          - Cardinality(Public \cap Left)
      BY <2>3, FS_Union
    <3>2. Cardinality(Public \cap Left) = 0
      BY <2>4, FS_EmptySet
    <3> QED
      BY <3>1, <3>2, <2>3, FS_CardinalityType
  <2>6. Public \subseteq C /\ C \subseteq Public \cup Left /\ file.count = Cardinality(C)
    BY <2>1 DEF Counts
  <2>7. /\ Cardinality(Public) <= Cardinality(C)
        /\ Cardinality(C) <= Cardinality(Public \cup Left)
    BY <2>3, <2>4, <2>6, FS_Subset
  <2>8. Cardinality(Public) \in Nat /\ Cardinality(C) \in Nat /\ Cardinality(Left) \in Nat
    BY <2>3, FS_CardinalityType
  <2> QED
    BY <2>5, <2>6, <2>7, <2>8
<1>3. lost = 0 =>
         file.count - Turns!Cardinality(Public) \in 0..Turns!Cardinality(Left)
  BY <1>2 DEF Turns!Cardinality, Cardinality
<1>4. Turns!CountIsExact
  BY <1>3 DEF Turns!CountIsExact, Public, Left
<1> QED
  BY <1>1, <1>4 DEF Turns!TurnsAreCounted

(***************************************************************************)
(* The onboarding of Codex (CodexBackend), whose theorems are about its    *)
(* own specification                                                       *)
(***************************************************************************)

(* One run at a time: a user waits for an onboarding to end.                *)
OneRun == \A o, p \in Onboards : o = p

(* What was asked for stands in the file, unless the file is spoilt.        *)
FileOK == explicit # Missing => codexJson \in {explicit, Broken}

(* A run that was asked for nothing found what had been asked for ...       *)
FoundOK ==
    \A o \in Onboards :
        At(o, "resolve") /\ onboard[o].asked = Unasked /\ explicit # Missing =>
            onboard[o].found = explicit

(* ... and is about to write it again.                                      *)
TargetOK ==
    \A o \in Onboards :
        (At(o, "signIn") \/ At(o, "write")) /\ onboard[o].asked = Unasked
        /\ explicit # Missing => onboard[o].target = explicit

CodexInv == TypeOK /\ FileOK /\ FoundOK /\ TargetOK

(* Before the first run nothing was asked for.                              *)
LEMMA CodexInit == Init => CodexInv
BY CodexAssumption DEF CodexAssumption, Init, CodexInv, TypeOK, FileOK, FoundOK, TargetOK,
   At, Idle

(* The backend of a run is an endpoint or Cloud, and what was found if      *)
(* nothing was asked for and a backend was found.                           *)
LEMMA TargetIs ==
    ASSUME NEW r \in [at : {"look", "resolve", "signIn", "write"},
                      asked : Ends \cup {Unasked, AnyCe, Cloud},
                      found : Ends \cup {Cloud, Missing}, target : Ends \cup {Cloud}]
    PROVE  /\ Target(r) \in Ends \cup {Cloud}
           /\ r.asked = Unasked /\ r.found # Missing => Target(r) = r.found
BY CodexAssumption DEF CodexAssumption, Target, Ends

(* A step keeps the types.                                                  *)
LEMMA CodexTypeStep == TypeOK /\ [Next]_codexVars => TypeOK'
<1> SUFFICES ASSUME TypeOK, [Next]_codexVars PROVE TypeOK'
  OBVIOUS
<1> USE CodexAssumption DEF CodexAssumption, At, Goto, Leave, Idle
<1>1. ASSUME NEW o \in Onboards, Begin(o) PROVE TypeOK'
  BY <1>1 DEF Begin, TypeOK, Ends
<1>2. ASSUME NEW o \in Onboards, Look(o) PROVE TypeOK'
  BY <1>2 DEF Look, TypeOK
<1>3. ASSUME NEW o \in Onboards, Resolve(o) PROVE TypeOK'
  BY <1>3, TargetIs DEF Resolve, TypeOK
<1>4. ASSUME NEW o \in Onboards, SignIn(o) PROVE TypeOK'
  BY <1>4 DEF SignIn, TypeOK
<1>5. ASSUME NEW o \in Onboards, SignInFails(o) PROVE TypeOK'
  BY <1>5 DEF SignInFails, TypeOK
<1>6. ASSUME NEW o \in Onboards, Write(o) PROVE TypeOK'
  BY <1>6 DEF Write, TypeOK
<1>7. ASSUME NEW o \in Onboards, Kill(o) PROVE TypeOK'
  BY <1>7 DEF Kill, TypeOK
<1>8. ASSUME Spoil \/ Remove \/ CredentialEnds \/ ServerChanges PROVE TypeOK'
  <2>1. CASE Spoil
    BY <2>1 DEF Spoil, Change, TypeOK
  <2>2. CASE Remove
    BY <2>2 DEF Remove, Change, TypeOK
  <2>3. CASE CredentialEnds
    <3>1. signedIn' \in BOOLEAN
      BY <2>3 DEF CredentialEnds
    <3>2. changes' \in 0 .. MaxChanges
      BY <2>3 DEF CredentialEnds, Change, TypeOK
    <3> QED
      BY <2>3, <3>1, <3>2 DEF CredentialEnds, TypeOK
  <2>4. CASE ServerChanges
    <3>1. answering' \in BOOLEAN
      BY <2>4 DEF ServerChanges
    <3>2. changes' \in 0 .. MaxChanges
      BY <2>4 DEF ServerChanges, Change, TypeOK
    <3> QED
      BY <2>4, <3>1, <3>2 DEF ServerChanges, TypeOK
  <2> QED
    BY <1>8, <2>1, <2>2, <2>3, <2>4
<1>9. ASSUME NEW backend \in Ends \cup {Cloud}, Register(backend) PROVE TypeOK'
  BY <1>9 DEF Register, Change, TypeOK
<1>10. CASE UNCHANGED codexVars
  BY <1>10 DEF codexVars, TypeOK
<1> QED
  BY <1>1, <1>2, <1>3, <1>4, <1>5, <1>6, <1>7, <1>8, <1>9, <1>10 DEF Next

(* A step of a run, or around it, keeps the rest.                           *)
LEMMA ChoiceStep ==
    ASSUME OneRun, CodexInv, [Next]_codexVars
    PROVE  FileOK' /\ FoundOK' /\ TargetOK'
<1> USE CodexAssumption DEF CodexAssumption, At, Goto, Leave, Idle, FileOK, FoundOK, TargetOK
<1>t. TypeOK /\ FileOK /\ FoundOK /\ TargetOK
  BY DEF CodexInv
<1>1. ASSUME NEW o \in Onboards, Begin(o) PROVE FileOK' /\ FoundOK' /\ TargetOK'
  BY <1>t, <1>1 DEF Begin, TypeOK
<1>2. ASSUME NEW o \in Onboards, Look(o) PROVE FileOK' /\ FoundOK' /\ TargetOK'
  BY <1>t, <1>2 DEF Look, TypeOK
<1>3. ASSUME NEW o \in Onboards, Resolve(o) PROVE FileOK' /\ FoundOK' /\ TargetOK'
  BY <1>t, <1>3, TargetIs DEF Resolve, TypeOK
<1>4. ASSUME NEW o \in Onboards, SignIn(o) PROVE FileOK' /\ FoundOK' /\ TargetOK'
  BY <1>t, <1>4 DEF SignIn, TypeOK
<1>5. ASSUME NEW o \in Onboards, SignInFails(o) PROVE FileOK' /\ FoundOK' /\ TargetOK'
  BY <1>t, <1>5 DEF SignInFails, TypeOK
<1>6. ASSUME NEW o \in Onboards, Write(o) PROVE FileOK' /\ FoundOK' /\ TargetOK'
  BY <1>t, <1>6 DEF Write, TypeOK, OneRun
<1>7. ASSUME NEW o \in Onboards, Kill(o) PROVE FileOK' /\ FoundOK' /\ TargetOK'
  BY <1>t, <1>7 DEF Kill, TypeOK
<1>8. ASSUME Spoil \/ Remove \/ CredentialEnds \/ ServerChanges
      PROVE  FileOK' /\ FoundOK' /\ TargetOK'
  BY <1>t, <1>8 DEF Spoil, Remove, CredentialEnds, ServerChanges, Change, TypeOK
<1>9. ASSUME NEW backend \in Ends \cup {Cloud}, Register(backend)
      PROVE  FileOK' /\ FoundOK' /\ TargetOK'
  BY <1>t, <1>9 DEF Register, Change, TypeOK
<1>10. CASE UNCHANGED codexVars
  BY <1>t, <1>10 DEF codexVars, TypeOK
<1> QED
  BY <1>1, <1>2, <1>3, <1>4, <1>5, <1>6, <1>7, <1>8, <1>9, <1>10 DEF Next

(* What was asked for is what a launch serves, or it refuses to start.      *)
LEMMA FileServes == CodexInv => ExplicitIsServed
BY CodexAssumption DEF CodexAssumption, CodexInv, TypeOK, FileOK, ExplicitIsServed, Served

(* The types of the onboarding's state, for every value of the constants    *)
(* (onboard_kumiho.py, main; _backend.py).                                  *)
THEOREM CodexTyped == Spec => []TypeOK
<1>1. Init => TypeOK
  BY CodexInit DEF CodexInv
<1> QED
  BY <1>1, CodexTypeStep, PTL DEF Spec

(* When no two onboardings overlap, a launch never serves another backend   *)
(* than the one that was last asked for (onboard_kumiho.py, main;           *)
(* run_kumiho_mcp.py, _fail_closed_backend).                                *)
THEOREM ExplicitAlwaysServed ==
    ASSUME OneRun
    PROVE  Spec => []ExplicitIsServed
<1>1. CodexInv /\ [Next]_codexVars => CodexInv'
  BY CodexTypeStep, ChoiceStep DEF CodexInv
<1> QED
  BY CodexInit, <1>1, FileServes, PTL DEF Spec

(***************************************************************************)
(* The run                                                                 *)
(***************************************************************************)
(* A step of the run is a step of each component, or leaves it as it was.   *)
LEMMA EachMoves ==
    ASSUME [HostNext]_hostVars
    PROVE  /\ [Launch!Next]_(Launch!vars) /\ [Guard!Next]_(Guard!vars)
           /\ [Reflexes!Next]_(Reflexes!vars) /\ [Claude!Next]_(Claude!vars)
           /\ [Turns!Next]_(Turns!vars)
<1> USE DEF CodexStep, ClaudeStep, ReflexStep, TurnStep, GuardStep, CallStep, LaunchStep,
            claudeVars, reflexVars, guardVars, turnVars, launchVars, hostVars,
            Launch!vars, Guard!vars, Guard!ghosts, Reflexes!vars, Reflexes!hookVars,
            Reflexes!fetchVars, Claude!vars, Turns!vars
<1>1. CASE CodexStep(Next)
  BY <1>1
<1>2. CASE ClaudeStep(Claude!Next)
  BY <1>2
<1>3. CASE ReflexStep(Reflexes!Next)
  BY <1>3
<1>4. CASE TurnStep(Turns!Next)
  BY <1>4
<1>5. CASE GuardStep(Guard!Next)
  BY <1>5
<1>6. CASE CallStep(Bridge!Next)
  BY <1>6
<1>7. CASE LaunchStep(Launch!Next)
  BY <1>7
<1>8. CASE UNCHANGED hostVars
  BY <1>8
<1> QED
  BY <1>1, <1>2, <1>3, <1>4, <1>5, <1>6, <1>7, <1>8, SMTT(60) DEF HostNext

(* However a server is launched, and wherever its environment comes from, a *)
(* checkout sends nothing to another machine, the user's own settings win,  *)
(* the self-hosted edition keeps to this machine and Kumiho Cloud is        *)
(* reached with its own credentials (run_kumiho_mcp.py, main;               *)
(* run_kumiho_ce.py; run_kumiho_cloud.py).                                  *)
THEOREM LaunchesAreSafe == HostSpec => []LaunchIsSafe
<1>1. HostInit => LaunchInv
  BY LaunchInit DEF HostInit
<1>2. LaunchInv /\ [HostNext]_hostVars => LaunchInv'
  BY EachMoves, LaunchKept
<1>3. LaunchInv => LaunchIsSafe
  BY LaunchIsGood DEF LaunchIsSafe
<1> QED
  BY <1>1, <1>2, <1>3, PTL DEF HostSpec

(* An edit that is let through has had the rationale of every file it names *)
(* looked up in its turn, and each was told or known to be lost             *)
(* (codex_lifecycle.py, main).                                              *)
THEOREM EditsAlwaysInformed == HostSpec => []EditsAreInformed
<1>1. HostInit => GuardInv
  BY GuardInit DEF HostInit
<1>2. GuardInv /\ [HostNext]_hostVars => GuardInv'
  BY EachMoves, GuardKept
<1>3. GuardInv => EditsAreInformed
  BY DEF GuardInv, Shown, EditsAreInformed, Guard!EditsAreInformed
<1> QED
  BY <1>1, <1>2, <1>3, PTL DEF HostSpec

(* What the user marks as private is in no query, with any number of        *)
(* prompts and of workers, and wherever a hook or a worker is killed        *)
(* (memory-reflex.py; reflex_prefetch_worker.py).                           *)
THEOREM PrivateAlwaysStaysOut == HostSpec => []PrivateStaysOut
<1>1. HostInit => ReflexInv
  BY ReflexInit DEF HostInit
<1>2. ReflexInv /\ [HostNext]_hostVars => ReflexInv'
  BY EachMoves, ReflexKept
<1>3. ReflexInv => PrivateStaysOut
  BY DEF ReflexInv, PrivateStaysOut
<1> QED
  BY <1>1, <1>2, <1>3, PTL DEF HostSpec

(* An insight is only ever shown with the prompt that it was recalled for,  *)
(* nothing that was saved as said is said again before something else of    *)
(* its kind was, nudges keep their distance, and what is given stays within *)
(* the budget of the session, whichever hooks and workers are killed        *)
(* (memory-reflex.py, reflex_prefetch_worker.py).                           *)
THEOREM InsightsAlwaysRight == HostSpec => []InsightsAreRight
<1>1. HostInit => ReflexInv /\ SaidInv
  BY ReflexInit, SaidInit DEF HostInit
<1>2. ReflexInv /\ SaidInv /\ [HostNext]_hostVars => ReflexInv' /\ SaidInv'
  BY EachMoves, ReflexKept, SaidKept
<1>3. ReflexInv /\ SaidInv => InsightsAreRight
  BY SaidIsGood DEF ReflexInv, InsightsAreRight
<1> QED
  BY <1>1, <1>2, <1>3, PTL DEF HostSpec

(* However often the wizard is interrupted, whichever of its writes are     *)
(* refused and whatever the user and updates change around it, a launch     *)
(* serves a choice that was made or named at some time, and no mixture of   *)
(* two.  Until a choice is torn it serves that of the last onboarding that  *)
(* came to its end or what has begun to replace it, the moment between the  *)
(* two settings files and what a switch to Cloud leaves in .env.local       *)
(* excepted (setup.py, main; run_kumiho_mcp.py, _hydrate_environment).      *)
THEOREM SelectionAlwaysServed == HostSpec => []SelectionIsServed
<1>1. HostInit => ClaudeInv
  BY ClaudeInit DEF HostInit
<1>2. ClaudeInv /\ [HostNext]_hostVars => ClaudeInv'
  BY EachMoves, ClaudeStepKeeps
<1>3. ClaudeInv => SelectionIsServed
  BY ClaudeIsGood DEF SelectionIsServed
<1> QED
  BY <1>1, <1>2, <1>3, PTL DEF HostSpec

(* As long as no event and no reply is lost, the file has counted every     *)
(* turn that ended once, private ones aside, and at most the refused ones   *)
(* besides; and whatever is lost, a turn is refused twice at most           *)
(* (codex_lifecycle.py, dispatch).                                          *)
THEOREM TurnsAlwaysCounted == HostSpec => []TurnsAreCounted
<1>1. HostInit => TurnsInv
  BY TurnsInit DEF HostInit
<1>2. TurnsInv /\ [HostNext]_hostVars => TurnsInv'
  BY EachMoves, TurnsStep
<1>3. TurnsInv => TurnsAreCounted
  BY TurnsFollow DEF TurnsAreCounted
<1> QED
  BY <1>1, <1>2, <1>3, PTL DEF HostSpec
=============================================================================
