-------------------------- MODULE SharedRuntimeProofs --------------------------
(***************************************************************************)
(* What the marker and the attestation of the shared runtime say is true,  *)
(* for every set of hosts, launchers, package specs and versions, where    *)
(* pip dies with its killed launcher.                                      *)
(***************************************************************************)
EXTENDS SharedRuntime, TLAPS

(* Where a launcher holds the provisioning lock.                            *)
Holding == {"recheck", "assess", "aside", "create", "creating", "pip",
            "installing", "verify", "leave"} \cup Committed

(* The lock is the holder's: two launchers never work at once.              *)
LockOK == \A a \in Actor : pc[a] \in Holding => lock = a

(* Every pip has its launcher waiting for it.                               *)
PipOK == \A p \in pip : p[2] /\ pc[p[1]] = "installing"

(* A half-built python is one whose files changed since the attestation.    *)
PythonOK ==
    /\ \A a \in Actor : pc[a] = "creating" => python = "broken"
    /\ python = "broken" => changed # {}

(* From pip to its verification the venv works, and then pip has installed  *)
(* what satisfies the spec: setup.py checks no more than that it imports.   *)
PipWorks ==
    \A a \in Actor :
        /\ pc[a] \in {"pip", "installing", "verify"} => python = "works"
        /\ pc[a] = "verify" => Satisfied(TextOf[a])

(* Only a server reserves the lock for its child.                           *)
RoleOK == \A a \in Actor : pc[a] = "reserve" => Role(a) = "server"

IInv == TypeOK /\ RoleOK /\ LockOK /\ PipOK /\ PythonOK /\ PipWorks /\ RecordsAreTrue

(* pip does not outlive its killed launcher: it is in the launcher's job     *)
(* object, as on Windows.                                                   *)
PipDies == Orphans = FALSE

(* A fresh home, or the venv of an older release, has no records to be true. *)
LEMMA InitIInv ==
    ASSUME Init
    PROVE  IInv
<1>1. TypeOK
  <2>1. installed \in Version \cup {0} /\ python \in {"absent", "broken", "works"} /\ spent \in 0..MaxEvents
    BY ConstantsOK DEF Init, ConstantsOK
  <2>. QED BY <2>1 DEF Init, TypeOK, PC
<1>2. LockOK /\ PipOK /\ PythonOK /\ PipWorks /\ RoleOK
  BY DEF Init, RoleOK, LockOK, PipOK, PythonOK, PipWorks, Holding, Committed
<1>3. RecordsAreTrue
  BY ConstantsOK DEF Init, RecordsAreTrue, ReadyIsSatisfied, AttestedIsSatisfied, Attested,
     Committed, ConstantsOK
<1>. QED BY <1>1, <1>2, <1>3 DEF IInv

(* A step of a alone, outside the committed states, that leaves the runtime *)
(* and the pips as they are, needs only to take the lock honestly.          *)
LEMMA IdleMove ==
    ASSUME IInv, NEW a \in Actor, NEW s \in PC \ {"creating"}, Become(a, s),
           pc[a] # "installing", UNCHANGED <<runtime, pip>>,
           s \in Holding => lock' = a,
           s \in Committed \cup {"verify"} => Satisfied(TextOf[a]),
           s \in {"pip", "installing"} => python = "works",
           \A b \in Actor \ {a} : lock = b => lock' = b
    PROVE  (LockOK /\ PipOK /\ PythonOK /\ PipWorks /\ RecordsAreTrue)'
<1>1. pc' = [pc EXCEPT ![a] = s] /\ pc \in [Actor -> PC]
  BY DEF Become, IInv, TypeOK
<1>2. LockOK'
  BY <1>1 DEF LockOK, IInv
<1>3. PipOK'
  BY <1>1 DEF PipOK, IInv, TypeOK
<1>4. PythonOK'
  BY <1>1 DEF PythonOK, IInv, runtime
<1>6. PipWorks'
  BY <1>1 DEF PipWorks, IInv, runtime, Satisfied
<1>5. RecordsAreTrue'
  BY <1>1, <1>2 DEF RecordsAreTrue, ReadyIsSatisfied, AttestedIsSatisfied, Attested, Satisfied,
     IInv, runtime, LockOK, Holding
<1>. QED BY <1>2, <1>3, <1>4, <1>5, <1>6

(* Every variable of the runtime keeps its type.                            *)
LEMMA TypeNext ==
    ASSUME IInv, Next
    PROVE  (TypeOK /\ RoleOK)'
<1>. USE ConstantsOK DEF IInv, TypeOK, RoleOK, vars, runtime, alias, Become, Spend
<1>0. Version \subseteq Nat \ {0} /\ MaxEvents \in Nat /\ spent \in 0..MaxEvents
  BY DEF ConstantsOK
<1>1. ASSUME NEW a \in Actor, Look(a) \/ SkipProbe(a) \/ GiveUp(a) \/ AcquireReady(a) \/ Take(a)
      PROVE  (TypeOK /\ RoleOK)'
  BY <1>1, ZenonT(60) DEF Look, SkipProbe, GiveUp, AcquireReady, Take, PC
<1>14. ASSUME NEW a \in Actor, Recheck(a) PROVE (TypeOK /\ RoleOK)'
  BY <1>14 DEF Recheck, PC
<1>2. ASSUME NEW a \in Actor, Probe(a) PROVE (TypeOK /\ RoleOK)'
  BY <1>2 DEF Probe, PC
<1>3. ASSUME NEW a \in Actor, Reserve(a) PROVE (TypeOK /\ RoleOK)'
  <2>1. Child(a) \in Actor
    BY <1>3 DEF Reserve, Role, Child, ConstantsOK
  <2>. QED BY <1>3, <2>1 DEF Reserve, PC
<1>4. ASSUME NEW a \in Actor, Assess(a) \/ SetupAssess(a) \/ SetAside(a) \/ CreateVenv(a)
                              \/ VenvCreated(a) \/ Verify(a)
      PROVE  (TypeOK /\ RoleOK)'
  BY <1>4 DEF Assess, SetupAssess, SetAside, CreateVenv, VenvCreated, Verify, PC
<1>5. ASSUME NEW a \in Actor, PipStarts(a) PROVE (TypeOK /\ RoleOK)'
  <2>1. installed' \in Version \cup {0} /\ changed' \subseteq {"python", "site", "marker"}
    BY <1>5 DEF PipStarts
  <2>2. <<a, TRUE>> \in Actor \X BOOLEAN
    OBVIOUS
  <2>3. pip' \subseteq Actor \X BOOLEAN
    BY <1>5, <2>2 DEF PipStarts
  <2>4. pc' \in [Actor -> PC] /\ RoleOK'
    BY <1>5 DEF PipStarts, PC
  <2>. QED BY <1>5, <2>1, <2>3, <2>4 DEF PipStarts
<1>6. ASSUME NEW a \in Actor, WriteMarker(a) \/ WriteAttestation(a) PROVE (TypeOK /\ RoleOK)'
  <2>1. TextOf[a] \in Text
    BY DEF ConstantsOK
  <2>2. marker' \in Text \cup {NoOne} /\ attest' \in Text \cup {NoOne}
    BY <1>6, <2>1 DEF WriteMarker, WriteAttestation
  <2>3. changed' \subseteq {"python", "site", "marker"}
    BY <1>6 DEF WriteMarker, WriteAttestation
  <2>4. pc' \in [Actor -> PC] /\ RoleOK'
    BY <1>6 DEF WriteMarker, WriteAttestation, PC
  <2>. QED BY <1>6, <2>2, <2>3, <2>4 DEF WriteMarker, WriteAttestation
<1>7. ASSUME NEW a \in Actor, KeepAlias(a) \/ MakeAlias(a) \/ StageAlias(a)
                              \/ MoveLegacy(a) \/ InstallAlias(a)
      PROVE  (TypeOK /\ RoleOK)'
  BY <1>7, ZenonT(60) DEF KeepAlias, MakeAlias, StageAlias, MoveLegacy, InstallAlias, PC
<1>8. ASSUME NEW a \in Actor, VenvFails(a) \/ SetupVenvFails(a) \/ SetupVerify(a) \/ DeferAlias(a)
                              \/ RestoreLegacy(a) \/ StartWizard(a) \/ StartSetup(a)
      PROVE  (TypeOK /\ RoleOK)'
  <2>1. spent' \in 0..MaxEvents
    BY <1>0, <1>8 DEF VenvFails, SetupVenvFails, SetupVerify, DeferAlias, RestoreLegacy, StartWizard,
       StartSetup
  <2>2. PICK s \in PC \ {"reserve"} : Become(a, s)
    BY <1>8 DEF VenvFails, SetupVenvFails, SetupVerify, DeferAlias, RestoreLegacy, StartWizard,
       StartSetup, PC
  <2>3. pc' \in [Actor -> PC] /\ RoleOK'
    BY <2>2
  <2>. QED BY <1>8, <2>1, <2>3 DEF VenvFails, SetupVenvFails, SetupVerify, DeferAlias, RestoreLegacy,
       StartWizard, StartSetup
<1>9. ASSUME NEW a \in Actor, Finish(a) \/ Leave(a) \/ Stop(a) \/ StartServer(a)
      PROVE  (TypeOK /\ RoleOK)'
  BY <1>9, ZenonT(60) DEF Finish, Leave, Release, Stop, StartServer, PC
<1>10. ASSUME NEW a \in Actor, Kill(a) PROVE (TypeOK /\ RoleOK)'
  <2>1. spent' \in 0..MaxEvents
    BY <1>0, <1>10 DEF Kill
  <2>2. <<a, FALSE>> \in Actor \X BOOLEAN
    OBVIOUS
  <2>3. pip' \subseteq pip \cup {<<a, FALSE>>}
    BY <1>10 DEF Kill
  <2>4. pip' \subseteq Actor \X BOOLEAN
    BY <2>2, <2>3
  <2>5. lock' \in Actor \cup {NoOne, Dead} /\ pc' \in [Actor -> PC] /\ RoleOK'
    BY <1>10 DEF Kill, PC
  <2>. QED BY <1>10, <2>1, <2>4, <2>5 DEF Kill
<1>11. ASSUME NEW p \in pip, PipSucceeds(p) \/ PipFails(p) PROVE (TypeOK /\ RoleOK)'
  <2>1. p[1] \in Actor /\ pip' \subseteq Actor \X BOOLEAN
    BY <1>11 DEF PipSucceeds, PipFails, PipEnds
  <2>2. spent' \in 0..MaxEvents
    BY <1>0, <1>11 DEF PipSucceeds, PipFails
  <2>3. installed' \in Version \cup {0}
    BY <1>11, <2>1 DEF PipSucceeds, PipFails, ConstantsOK
  <2>4. (pc' \in [Actor -> PC]) /\ RoleOK'
    BY <1>11, <2>1 DEF PipSucceeds, PipFails, PipEnds, PC
  <2>. QED BY <1>11, <2>1, <2>2, <2>3, <2>4 DEF PipSucceeds, PipFails, PipEnds
<1>12. CASE Desktop
  <2>1. spent' \in 0..MaxEvents
    BY <1>0, <1>12 DEF Desktop
  <2>. QED BY <1>12, <2>1 DEF Desktop
<1>13. ASSUME NEW a \in Actor, SetupMarker(a) PROVE (TypeOK /\ RoleOK)'
  <2>1. spent' \in 0..MaxEvents
    BY <1>0, <1>13 DEF SetupMarker
  <2>2. TextOf[a] \in Text
    BY DEF ConstantsOK
  <2>3. marker' \in Text \cup {NoOne} /\ changed' \subseteq {"python", "site", "marker"}
    BY <1>13, <2>2 DEF SetupMarker
  <2>4. pc' \in [Actor -> PC] /\ RoleOK'
    BY <1>13 DEF SetupMarker, PC
  <2>. QED BY <1>13, <2>1, <2>3, <2>4 DEF SetupMarker
<1>. QED
  BY <1>1, <1>2, <1>3, <1>4, <1>5, <1>6, <1>7, <1>8, <1>9, <1>10, <1>11, <1>12, <1>13, <1>14
  DEF Next, Work, SetupVenv

(* The lock, the pips and the records survive every step.                   *)
LEMMA RecordNext ==
    ASSUME PipDies, IInv, Next
    PROVE  (LockOK /\ PipOK /\ PythonOK /\ PipWorks /\ RecordsAreTrue)'
<1>. DEFINE Goal == (LockOK /\ PipOK /\ PythonOK /\ PipWorks /\ RecordsAreTrue)'
<1>. USE ConstantsOK
<1>0. lock \notin {NoOne, Dead} => ~Free
  BY DEF Free
<1>1. ASSUME NEW a \in Actor,
             \/ Look(a) \/ SkipProbe(a) \/ Probe(a) \/ GiveUp(a)
             \/ StartServer(a) \/ StartWizard(a) \/ StartSetup(a) \/ Stop(a)
      PROVE  Goal
  <2>1. PICK s \in {"look", "probe", "busy", "wait", "reserve", "take", "idle"} : Become(a, s)
    BY <1>1 DEF Look, SkipProbe, Probe, GiveUp, StartServer, StartWizard, StartSetup, Stop, Become
  <2>2. /\ pc[a] # "installing" /\ UNCHANGED <<runtime, pip>>
        /\ \A b \in Actor : lock = b => lock' = b
    BY <1>1 DEF Look, SkipProbe, Probe, GiveUp, StartServer, StartWizard, StartSetup, Stop, ConstantsOK
  <2>. QED BY <2>1, <2>2, IdleMove DEF PC, Holding, Committed
<1>2. ASSUME NEW a \in Actor, AcquireReady(a) \/ Take(a) PROVE Goal
  <2>1. PICK s \in {"recheck", "assess"} : Become(a, s)
    BY <1>2 DEF AcquireReady, Take
  <2>2. /\ pc[a] # "installing" /\ UNCHANGED <<runtime, pip>> /\ lock' = a
        /\ \A b \in Actor : lock # b
    BY <1>2 DEF AcquireReady, Take, Free, ConstantsOK
  <2>. QED BY <2>1, <2>2, IdleMove DEF PC, Committed
<1>3. ASSUME NEW a \in Actor, Reserve(a) PROVE Goal
  <2>1. Child(a) \in Actor /\ Child(a) # a
    BY <1>3 DEF Reserve, Role, Child, ConstantsOK, IInv, RoleOK
  <2>2. \A b \in Actor : lock # b /\ pc[b] \notin Holding
    BY <1>3 DEF Reserve, Free, ConstantsOK, IInv, LockOK
  <2>3. pc'[Child(a)] = "assess" /\ \A b \in Actor \ {Child(a)} : pc'[b] \in {pc[b], "idle"}
    BY <1>3, <2>1 DEF Reserve, IInv, TypeOK
  <2>4. \A b \in Actor : /\ pc'[b] \notin Committed \cup {"creating", "pip", "installing", "verify"}
                       /\ pc[b] # "installing"
    BY <2>2, <2>3 DEF Holding, Committed
  <2>5. pip = {}
    BY <2>4 DEF IInv, PipOK, TypeOK
  <2>. QED BY <1>3, <2>1, <2>2, <2>3, <2>4, <2>5
       DEF Reserve, LockOK, PipOK, PythonOK, PipWorks, RecordsAreTrue, ReadyIsSatisfied, AttestedIsSatisfied,
           Attested, Satisfied, IInv, runtime, Holding, Committed
<1>4. ASSUME NEW a \in Actor, Recheck(a) \/ Assess(a) \/ Verify(a) \/ SetupAssess(a) \/ SetupVerify(a)
      PROVE  Goal
  <2>1. PICK s \in {"alias", "marker", "leave", "create", "aside", "pip", "verify"} :
               /\ Become(a, s)
               /\ s \in {"alias", "marker", "verify"} => Satisfied(TextOf[a])
               /\ s = "pip" => python = "works"
    <3>1. CASE Recheck(a)
      <4>1. Attested(TextOf[a]) => Satisfied(TextOf[a])
        BY DEF IInv, RecordsAreTrue, AttestedIsSatisfied, ConstantsOK
      <4>2. \A slow \in BOOLEAN : Ready(a, slow) => Satisfied(TextOf[a])
        BY <4>1 DEF Ready, NeedsInstall
      <4>. QED BY <3>1, <4>1, <4>2 DEF Recheck, ProbeTimesOut, ConstantsOK
    <3>2. CASE Assess(a)
      BY <3>2 DEF Assess, NeedsInstall, IInv, TypeOK
    <3>3. CASE Verify(a)
      BY <3>3 DEF Verify
    <3>4. CASE SetupAssess(a)
      BY <3>4 DEF SetupAssess, NeedsInstall, IInv, TypeOK
    <3>5. CASE SetupVerify(a)
      BY <3>5 DEF SetupVerify, IInv, PipWorks
    <3>. QED BY <1>4, <3>1, <3>2, <3>3, <3>4, <3>5
  <2>2. /\ pc[a] # "installing" /\ UNCHANGED <<runtime, pip, lock>> /\ lock = a
    BY <1>4 DEF Recheck, Assess, Verify, SetupAssess, SetupVerify, IInv, LockOK, Holding
  <2>. QED BY <2>1, <2>2, IdleMove DEF PC, Holding, Committed
<1>5. ASSUME NEW a \in Actor, SetAside(a) \/ CreateVenv(a) \/ VenvCreated(a) \/ VenvFails(a)
                              \/ SetupVenvFails(a) \/ PipStarts(a)
      PROVE  Goal
  <2>1. lock = a /\ lock' = lock /\ pc[a] \in Holding /\ pc[a] # "installing"
    BY <1>5 DEF SetAside, CreateVenv, VenvCreated, VenvFails, SetupVenvFails, PipStarts, IInv, LockOK, Holding
  <2>2. \A b \in Actor \ {a} : pc'[b] = pc[b] /\ pc[b] \notin Holding
    BY <1>5, <2>1 DEF SetAside, CreateVenv, VenvCreated, VenvFails, SetupVenvFails, PipStarts, Become, IInv, TypeOK, LockOK
  <2>3. pc'[a] \in Holding \ Committed
    BY <1>5 DEF SetAside, CreateVenv, VenvCreated, VenvFails, SetupVenvFails, PipStarts, Become, IInv, TypeOK,
                Holding, Committed
  <2>4. pip = {}
    BY <2>1, <2>2 DEF IInv, PipOK, TypeOK, Holding
  <2>5. LockOK' /\ ReadyIsSatisfied'
    BY <2>1, <2>2, <2>3 DEF LockOK, ReadyIsSatisfied, Holding
  <2>6. PipOK'
    <3>1. CASE PipStarts(a)
      <4>1. pc'[a] = "installing" /\ pip' = {<<a, TRUE>>}
        BY <2>4, <3>1 DEF PipStarts, Become, IInv, TypeOK
      <4>2. SUFFICES ASSUME NEW r \in pip' PROVE r[2] /\ pc'[r[1]] = "installing"
        BY DEF PipOK
      <4>3. r = <<a, TRUE>>
        BY <4>1
      <4>4. r[1] = a /\ r[2] = TRUE
        BY <4>3
      <4>. QED BY <4>1, <4>4
    <3>2. CASE ~PipStarts(a)
      <4>1. pip' = {}
        BY <1>5, <2>4, <3>2 DEF SetAside, CreateVenv, VenvCreated, VenvFails, SetupVenvFails
      <4>. QED BY <4>1 DEF PipOK
    <3>. QED BY <3>1, <3>2
  <2>7. changed' # {}
    BY <1>5 DEF SetAside, CreateVenv, VenvCreated, VenvFails, SetupVenvFails, PipStarts, IInv, PythonOK, runtime
  <2>8. PythonOK'
    BY <1>5, <2>2, <2>7 DEF SetAside, CreateVenv, VenvCreated, VenvFails, SetupVenvFails, PipStarts, Become, PythonOK, IInv,
                     TypeOK, Holding, runtime
  <2>9. PipWorks'
    BY <1>5, <2>2, ZenonT(60) DEF SetAside, CreateVenv, VenvCreated, VenvFails, SetupVenvFails, PipStarts, Become, PipWorks,
                      IInv, TypeOK, Holding
  <2>. QED BY <2>5, <2>6, <2>7, <2>8, <2>9 DEF RecordsAreTrue, AttestedIsSatisfied, Attested
<1>6. ASSUME NEW a \in Actor, WriteMarker(a) \/ WriteAttestation(a) \/ SetupMarker(a) PROVE Goal
  <2>1. /\ lock = a /\ lock' = lock /\ pip' = pip /\ UNCHANGED <<python, installed>>
        /\ Satisfied(TextOf[a]) /\ pc[a] \in Committed
    BY <1>6 DEF WriteMarker, WriteAttestation, SetupMarker, IInv, RecordsAreTrue, ReadyIsSatisfied, Committed
  <2>2. pc'[a] \in Committed /\ pc[a] # "installing" /\ \A b \in Actor \ {a} : pc'[b] = pc[b]
    BY <1>6 DEF WriteMarker, WriteAttestation, SetupMarker, Become, IInv, TypeOK, Committed
  <2>3. LockOK' /\ PipOK' /\ ReadyIsSatisfied'
    BY <2>1, <2>2 DEF LockOK, PipOK, IInv, TypeOK, RecordsAreTrue, ReadyIsSatisfied, Satisfied, Holding
  <2>4. python = "works"
    BY <2>1 DEF Satisfied
  <2>5. PythonOK'
    BY <2>1, <2>2, <2>4 DEF PythonOK, IInv, Committed
  <2>6. AttestedIsSatisfied'
    BY <1>6, <2>1 DEF WriteMarker, WriteAttestation, SetupMarker, IInv, RecordsAreTrue, AttestedIsSatisfied,
       Attested, Satisfied
  <2>7. PipWorks'
    BY <2>1, <2>2 DEF PipWorks, IInv, Committed, Satisfied
  <2>. QED BY <2>3, <2>5, <2>6, <2>7 DEF RecordsAreTrue
<1>7. ASSUME NEW a \in Actor, KeepAlias(a) \/ DeferAlias(a) \/ MakeAlias(a) \/ StageAlias(a) \/ MoveLegacy(a)
                              \/ InstallAlias(a) \/ RestoreLegacy(a)
      PROVE  Goal
  <2>1. PICK s \in {"finish", "renaming", "linking"} : Become(a, s)
    BY <1>7 DEF KeepAlias, DeferAlias, MakeAlias, StageAlias, MoveLegacy, InstallAlias, RestoreLegacy
  <2>2. /\ pc[a] \in Committed /\ pc[a] # "installing" /\ UNCHANGED <<runtime, pip, lock>>
    BY <1>7 DEF KeepAlias, DeferAlias, MakeAlias, StageAlias, MoveLegacy, InstallAlias, RestoreLegacy, Committed
  <2>3. lock = a /\ Satisfied(TextOf[a])
    BY <2>2 DEF IInv, RecordsAreTrue, ReadyIsSatisfied
  <2>. QED BY <2>1, <2>2, <2>3, IdleMove DEF PC
<1>8. ASSUME NEW a \in Actor, Finish(a) \/ Leave(a) PROVE Goal
  <2>1. PICK s \in {"serving", "idle"} : Become(a, s)
    BY <1>8 DEF Finish, Leave
  <2>2. /\ pc[a] # "installing" /\ UNCHANGED <<runtime, pip>>
        /\ \A b \in Actor \ {a} : lock = b => lock' = b
    BY <1>8 DEF Finish, Leave, Release
  <2>. QED BY <2>1, <2>2, IdleMove DEF PC, Holding, Committed
<1>9. ASSUME NEW a \in Actor, Kill(a) PROVE Goal
  <2>1. pc'[a] = "idle" /\ \A b \in Actor \ {a} : pc'[b] = pc[b]
    BY <1>9 DEF Kill, Become, IInv, TypeOK
  <2>2. UNCHANGED runtime /\ pip' = pip \ {<<a, TRUE>>} /\ \A b \in Actor \ {a} : lock = b => lock' = b
    BY <1>9 DEF Kill, PipDies
  <2>3. LockOK' /\ ReadyIsSatisfied'
    BY <2>1, <2>2 DEF LockOK, IInv, RecordsAreTrue, ReadyIsSatisfied, Satisfied, Holding, Committed, runtime
  <2>4. PipOK'
    <3>1. SUFFICES ASSUME NEW r \in pip' PROVE r[2] /\ pc'[r[1]] = "installing"
      BY DEF PipOK
    <3>2. r \in pip /\ r # <<a, TRUE>> /\ r \in Actor \X BOOLEAN
      BY <2>2, <3>1 DEF IInv, TypeOK
    <3>3. r[2] /\ pc[r[1]] = "installing"
      BY <3>2 DEF IInv, PipOK
    <3>4. r = <<r[1], r[2]>> /\ r[2] \in BOOLEAN
      BY <3>2
    <3>5. r[2] = TRUE
      BY <3>3, <3>4, Zenon
    <3>6. r = <<r[1], TRUE>>
      BY <3>4, <3>5
    <3>. QED BY <2>1, <3>2, <3>3, <3>6
  <2>5. PythonOK' /\ PipWorks' /\ AttestedIsSatisfied'
    BY <2>1, <2>2 DEF PythonOK, PipWorks, IInv, RecordsAreTrue, AttestedIsSatisfied, Attested, Satisfied, runtime
  <2>. QED BY <2>3, <2>4, <2>5 DEF RecordsAreTrue
<1>10. ASSUME NEW p \in pip, PipSucceeds(p) \/ PipFails(p) PROVE Goal
  <2>1. p[1] \in Actor /\ p[2] /\ pc[p[1]] = "installing" /\ lock = p[1]
    BY DEF IInv, TypeOK, PipOK, LockOK, Holding
  <2>2. /\ pc'[p[1]] \in {"verify", "leave"} /\ \A b \in Actor \ {p[1]} : pc'[b] = pc[b]
        /\ pip' = pip \ {p} /\ UNCHANGED <<lock, python, marker, attest>>
        /\ (UNCHANGED <<installed, changed>> \/ changed' = changed \cup {"site"})
    BY <1>10, <2>1 DEF PipSucceeds, PipFails, PipEnds, Become, IInv, TypeOK, runtime
  <2>3. \A b \in Actor \ {p[1]} : pc[b] \notin Holding
    BY <2>1 DEF IInv, LockOK
  <2>4. LockOK' /\ ReadyIsSatisfied'
    BY <2>1, <2>2, <2>3 DEF LockOK, ReadyIsSatisfied, Holding, Committed
  <2>5. PipOK'
    <3>1. ASSUME NEW r \in pip \ {p} PROVE FALSE
      <4>1. r[1] \in Actor /\ r[2] /\ pc[r[1]] = "installing"
        BY DEF IInv, TypeOK, PipOK
      <4>2. r[1] = p[1]
        BY <2>3, <4>1 DEF Holding
      <4>. QED BY <2>1, <4>1, <4>2 DEF IInv, TypeOK
    <3>. QED BY <2>2, <3>1 DEF PipOK
  <2>6. PythonOK' /\ AttestedIsSatisfied'
    BY <2>1, <2>2, <2>3 DEF PythonOK, IInv, RecordsAreTrue, AttestedIsSatisfied, Attested, Satisfied, Holding
  <2>7. PipWorks'
    <3>1. TextOf[p[1]] \in Text
      BY <2>1 DEF ConstantsOK
    <3>2. python = "works"
      BY <2>1 DEF IInv, PipWorks
    <3>3. pc'[p[1]] = "verify" => installed' \in Accepts[TextOf[p[1]]]
      BY <1>10, <2>1 DEF PipSucceeds, PipFails, PipEnds, Become, IInv, TypeOK
    <3>. QED BY <2>2, <2>3, <3>2, <3>3 DEF PipWorks, Satisfied, Holding
  <2>. QED BY <2>4, <2>5, <2>6, <2>7 DEF RecordsAreTrue
<1>11. CASE Desktop
  <2>1. \A b \in Actor : pc[b] \notin Holding
    BY <1>11 DEF Desktop, Free, IInv, LockOK, ConstantsOK
  <2>2. changed' # {} /\ UNCHANGED <<lock, pc, pip>>
    BY <1>11 DEF Desktop
  <2>3. LockOK' /\ PipOK' /\ PythonOK' /\ PipWorks' /\ ReadyIsSatisfied'
    BY <2>1, <2>2 DEF LockOK, PipOK, PythonOK, PipWorks, ReadyIsSatisfied, IInv, Holding
  <2>. QED BY <2>2, <2>3 DEF RecordsAreTrue, AttestedIsSatisfied, Attested
<1>. QED
  BY <1>1, <1>2, <1>3, <1>4, <1>5, <1>6, <1>7, <1>8, <1>9, <1>10, <1>11 DEF Next, Work, SetupVenv

(* The inductive invariant holds in every reachable state.                  *)
THEOREM Invariance ==
    ASSUME PipDies
    PROVE  Spec => []IInv
<1>1. IInv /\ [Next]_vars => IInv'
  <2>1. SUFFICES ASSUME IInv, [Next]_vars PROVE IInv'
    OBVIOUS
  <2>2. CASE Next
    BY <2>1, <2>2, TypeNext, RecordNext DEF IInv
  <2>3. CASE UNCHANGED vars
    BY <2>1, <2>3 DEF vars, runtime, alias, IInv, TypeOK, RoleOK, LockOK, PipOK, PythonOK,
       PipWorks, RecordsAreTrue, ReadyIsSatisfied, AttestedIsSatisfied, Attested, Satisfied
  <2>. QED BY <2>1, <2>2, <2>3
<1>. QED BY <1>1, InitIInv, PTL DEF Spec

(* Every variable of the shared runtime keeps its type.                     *)
THEOREM RuntimeTyped ==
    ASSUME PipDies
    PROVE  Spec => []TypeOK
<1>1. IInv => TypeOK
  BY DEF IInv
<1>. QED BY <1>1, Invariance, PTL

(* What is recorded as installed, attested, or about to be served satisfies *)
(* its package spec (_ensure_runtime, _provision), where no pip outlives    *)
(* its launcher.                                                            *)
THEOREM RecordsStayTrue ==
    ASSUME PipDies
    PROVE  Spec => []RecordsAreTrue
<1>1. IInv => RecordsAreTrue
  BY DEF IInv
<1>. QED BY <1>1, Invariance, PTL

=============================================================================
