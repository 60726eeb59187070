----------------------- MODULE ContainerSecurityProofs -----------------------
(***************************************************************************)
(* Type correctness, the order of rights before workloads, and the         *)
(* attribution of status verdicts, for any number of resources, specs,     *)
(* platform states and faults.                                             *)
(***************************************************************************)
EXTENDS ContainerSecurity, TLAPS

\* While the worker's resourceVersion is current, so is the rest of its copy.
CopyInv ==
  w.pc # "idle" /\ w.fresh
    => /\ crs[w.cr] # Nil
       /\ w.spec = crs[w.cr].spec /\ w.gen = crs[w.cr].gen /\ w.uid = uids[w.cr]

\* How far the worker has come with a component tells what exists of it.
PassInv ==
  /\ w.pc = "ensure" =>
       /\ w.kind \in KindsOf(w.comp)
       /\ w.kind \notin {"sa", "role"} => Present(w.cr, w.comp, "role")
       /\ w.kind \notin {"sa", "role", "binding"} => Present(w.cr, w.comp, "binding")
  /\ w.pc = "clean" => w.kind \in {"work", "webhook"}

\* The worker at the head of its loop.
LEMMA IdleType == Idle \in Worker /\ Idle.pc = "idle"
  <1> USE ConstantsAssumption
  <1>1. (CHOOSE cr \in CR : TRUE) \in CR /\ (CHOOSE s \in Specs : TRUE) \in Specs
    OBVIOUS
  <1>2. (CHOOSE p \in Platforms : TRUE) \in Platforms
    OBVIOUS
  <1>3. (CHOOSE p \in Platforms : TRUE).conf \in {p.conf : p \in Platforms}
    BY <1>2
  <1>4. 0 \in 0 .. MaxUid /\ 0 \in 0 .. MaxGen
    OBVIOUS
  <1>5. /\ "idle" \in PCs /\ "container" \in Comp /\ "sa" \in Kinds /\ "none" \in Reasons
    BY DEF PCs, Comp, Kinds, Reasons
  <1> QED
    BY <1>1, <1>3, <1>4, <1>5 DEF Idle, Worker

\* Different components or kinds, and different resources, have different keys.
LEMMA KeyFacts ==
  ASSUME NEW cr \in CR, NEW c \in Comp, NEW k \in Kinds
  PROVE  /\ Key(cr, c, k) \in Keys
         /\ Key(cr, c, k).comp = c /\ Key(cr, c, k).kind = k
         /\ Key(cr, c, k).owner = IF k \in ClusterScoped THEN NameOf[cr] ELSE cr
  BY DEF Key, Keys

\* What follows an upsert comes after it in the order sa, role, binding, rest.
LEMMA AfterFacts ==
  ASSUME NEW c \in Comp, NEW k \in KindsOf(c), ~Last(c, k), detected \in BOOLEAN
  PROVE  /\ After(c, k) \in KindsOf(c)
         /\ After(c, k) \notin {"sa", "role"} => k # "sa"
         /\ After(c, k) \notin {"sa", "role", "binding"} => k \notin {"sa", "role"}
  <1> USE DEF Comp, KindsOf, Last
  <1>1. CASE k \in {"sa", "role"}
    BY <1>1 DEF After
  <1>2. CASE k = "binding"
    <2>1. After(c, k) = AfterBinding(c)
      BY <1>2 DEF After
    <2>2. AfterBinding(c) \in KindsOf(c) \ {"sa", "role", "binding"}
      BY DEF AfterBinding
    <2> QED
      BY <1>2, <2>1, <2>2
  <1>3. CASE k \in {"scc", "cm", "svc", "work"}
    BY <1>3 DEF After
  <1> QED
    BY <1>1, <1>2, <1>3

\* The worker moves on within its types, and keeps its copy.
LEMMA LeaveFacts ==
  ASSUME w \in Worker, NEW c \in Comp
  PROVE  /\ Begin(c) \in Worker /\ Leave(c) \in Worker
         /\ \A v \in {Begin(c), Leave(c)} :
              /\ v.cr = w.cr /\ v.uid = w.uid /\ v.gen = w.gen
              /\ v.spec = w.spec /\ v.fresh = w.fresh
              /\ v.pc \in {"ensure", "clean", "read"}
              /\ v.pc = "ensure" => v.kind = "sa"
              /\ v.pc = "clean" => v.kind = "work"
  <1> USE DEF Worker, PCs, Kinds
  <1>1. ASSUME NEW d \in Comp
        PROVE  /\ Begin(d) \in Worker
               /\ Begin(d).cr = w.cr /\ Begin(d).uid = w.uid /\ Begin(d).gen = w.gen
               /\ Begin(d).spec = w.spec /\ Begin(d).fresh = w.fresh
               /\ Begin(d).pc \in {"ensure", "clean"}
               /\ Begin(d).pc = "ensure" => Begin(d).kind = "sa"
               /\ Begin(d).pc = "clean" => Begin(d).kind = "work"
    BY DEF Begin
  <1>2. NextComp[c] \in Comp
    BY DEF NextComp, Comp
  <1>3. "container" \in Comp
    BY DEF Comp
  <1>4. CASE c = "runtime"
    <2>1. /\ Leave(c) = [w EXCEPT !.pc = "read", !.comp = "container"]
          /\ Leave(c) \in Worker
      BY <1>3, <1>4 DEF Leave
    <2>2. /\ Leave(c).cr = w.cr /\ Leave(c).uid = w.uid /\ Leave(c).gen = w.gen
          /\ Leave(c).spec = w.spec /\ Leave(c).fresh = w.fresh /\ Leave(c).pc = "read"
      BY <2>1
    <2> QED
      BY <1>1, <2>1, <2>2
  <1>5. CASE c # "runtime"
    BY <1>1, <1>2, <1>5 DEF Leave
  <1> QED
    BY <1>4, <1>5

LEMMA AdvanceFacts ==
  ASSUME w \in Worker, detected \in BOOLEAN
  PROVE  /\ Advance \in Worker
         /\ Advance.cr = w.cr /\ Advance.uid = w.uid /\ Advance.gen = w.gen
         /\ Advance.spec = w.spec /\ Advance.fresh = w.fresh
  <1>1. w.comp \in Comp /\ w.kind \in Kinds
    BY DEF Worker
  <1>2. CASE Last(w.comp, w.kind)
    BY <1>1, <1>2, LeaveFacts DEF Advance
  <1>3. CASE ~Last(w.comp, w.kind)
    <2>1. AfterBinding(w.comp) \in Kinds
      BY <1>1 DEF AfterBinding, Kinds, Comp
    <2>2. After(w.comp, w.kind) \in Kinds
      BY <1>1, <2>1 DEF After, Kinds
    <2> QED
      BY <1>3, <2>2 DEF Advance, Worker
  <1> QED
    BY <1>2, <1>3

\* The builders make objects of the right shape.
LEMMA BuiltFacts ==
  ASSUME TypeOK, NEW k \in Kinds
  PROVE  /\ Fresh(k) \in Content
         /\ Existing(k) \in Content \cup {Nil}
         /\ Existing(k) # Nil => [Existing(k) EXCEPT !.tpl = Tpl(k)] \in Content
  <1> USE ConstantsAssumption DEF TypeOK
  <1>1. w.spec \in Specs /\ w.conf \in {p.conf : p \in Platforms} /\ w.comp \in Comp
        /\ w.cr \in CR /\ w.uid \in 0 .. MaxUid
    BY DEF Worker
  <1>2. Tpl(k) \in Template \cup {Nil}
    BY <1>1 DEF Tpl, Template
  <1>3. w.spec.fail \in BOOLEAN
    BY <1>1
  <1>4. (k = "webhook" /\ w.spec.fail) \in BOOLEAN
    OBVIOUS
  <1>5. (IF k \in ClusterScoped THEN 0 ELSE w.uid) \in 0 .. MaxUid
    BY <1>1
  <1>6. Fresh(k) \in Content
    BY <1>1, <1>2, <1>4, <1>5 DEF Fresh, Content
  <1>7. Existing(k) \in Content \cup {Nil}
    BY <1>1, KeyFacts DEF Existing
  <1> QED
    BY <1>2, <1>6, <1>7 DEF Content

\* An API call is charged within the bound.
LEMMA ChargeFacts ==
  ASSUME TypeOK, NEW o, Charge(o)
  PROVE  faults' \in 0 .. MaxFaults
  BY ConstantsAssumption DEF TypeOK, Charge

\* A namespaced key belongs to a resource.
LEMMA EventFacts ==
  ASSUME NEW key \in Keys
  PROVE  Events(key) \subseteq CR
  BY DEF Events, Keys, Key

\* An upsert of a well-formed object keeps types and leaves the resources alone.
LEMMA UpsertType ==
  ASSUME TypeOK, CopyInv, NEW k \in Kinds, NEW new \in Content, Upsert(k, new)
  PROVE  TypeOK' /\ CopyInv'
  <1> USE DEF TypeOK
  <1> DEFINE key == Key(w.cr, w.comp, k)
  <1>1. w.cr \in CR /\ w.comp \in Comp /\ key \in Keys
    BY KeyFacts DEF Worker
  <1>2. PICK o \in Outcomes :
          /\ Charge(o)
          /\ objs' = IF o = "refused" THEN objs ELSE [objs EXCEPT ![key] = new]
          /\ queue' = queue \cup (IF objs' # objs THEN Events(key) ELSE {})
          /\ AfterUpsert(o, k)
    BY DEF Upsert
  <1>3. UNCHANGED <<crs, uids, platform, detected>> /\ w.pc = "ensure"
    BY DEF Upsert
  <1>4. objs' \in [Keys -> Content \cup {Nil}]
    BY <1>1, <1>2
  <1>5. queue' \subseteq CR
    BY <1>1, <1>2, EventFacts
  <1>6. faults' \in 0 .. MaxFaults
    BY <1>2, ChargeFacts
  <1>7. detected \in BOOLEAN
    BY ConstantsAssumption DEF Detections
  <1>8. w' \in {Advance, Idle} /\ delayed' \subseteq CR
    BY <1>1, <1>2 DEF AfterUpsert, EndAfterDelay
  <1>9. w' \in Worker
    BY <1>7, <1>8, AdvanceFacts, IdleType
  <1>10. CopyInv'
    BY <1>3, <1>7, <1>8, AdvanceFacts, IdleType DEF CopyInv
  <1> QED
    BY <1>3, <1>4, <1>5, <1>6, <1>8, <1>9, <1>10

\* The objects an upsert of each kind may store: nothing is kept of what is there
\* of a cluster-scoped one.
Upserts(k) == {Fresh(k)} \cup (IF k \in ClusterScoped \/ Existing(k) = Nil THEN {}
                               ELSE {Existing(k), [Existing(k) EXCEPT !.tpl = Tpl(k)]})

\* The pass ends where a webhook refuses the workload.
RefusedByWebhook ==
  /\ w.pc = "ensure" /\ EndAfterDelay
  /\ UNCHANGED <<cluster, platform, detected, queue, faults>>

\* Every step of the reconcileX functions is an upsert, a refusal or a panic.
LEMMA EnsureCases ==
  Ensure => \/ \E k \in Kinds : \E new \in Upserts(k) : Upsert(k, new)
            \/ RefusedByWebhook
            \/ BuildArgsPanics
  <1> SUFFICES ASSUME Ensure
               PROVE  \/ \E k \in Kinds : \E new \in Upserts(k) : Upsert(k, new)
                      \/ RefusedByWebhook
                      \/ BuildArgsPanics
    OBVIOUS
  <1> USE DEF Upserts, Kinds, ClusterScoped
  <1>1. ASSUME reconcileServiceAccount \/ reconcileAdmissionService
        PROVE  \E k \in Kinds : \E new \in Upserts(k) : Upsert(k, new)
    BY <1>1 DEF reconcileServiceAccount, reconcileAdmissionService
  <1>2. ASSUME reconcileClusterRole \/ reconcileClusterRoleBinding \/ reconcileSCC
                 \/ reconcileValidatingWebhook
        PROVE  \E k \in Kinds : \E new \in Upserts(k) : Upsert(k, new)
    BY <1>2 DEF reconcileClusterRole, reconcileClusterRoleBinding, reconcileSCC,
                reconcileValidatingWebhook
  <1>3. ASSUME reconcileContainerSensorConfigMap
        PROVE  \E k \in Kinds : \E new \in Upserts(k) : Upsert(k, new)
    BY <1>3 DEF reconcileContainerSensorConfigMap
  <1>4. ASSUME NEW c, NEW sent, NEW new \in Upserts("work"), Workload(c, sent, new)
        PROVE  (\E k \in Kinds : \E n \in Upserts(k) : Upsert(k, n)) \/ RefusedByWebhook
    <2>1. CASE sent /\ Blocked
      BY <1>4, <2>1 DEF Workload, RefusedByWebhook
    <2>2. CASE ~(sent /\ Blocked)
      <3>1. Upsert("work", new)
        BY <1>4, <2>2 DEF Workload
      <3> QED
        BY <1>4, <3>1
    <2> QED
      BY <2>1, <2>2
  <1>5. Rebuilt \in Upserts("work")
    BY DEF Rebuilt
  <1>6. CASE reconcileContainerSensorDaemonSet
    <2> DEFINE differs == Existing("work") = Nil \/ Existing("work").tpl.env # w.spec.env
    <2>1. Workload("container", differs, IF differs THEN Rebuilt ELSE Existing("work"))
      BY <1>6 DEF reconcileContainerSensorDaemonSet
    <2>2. (IF differs THEN Rebuilt ELSE Existing("work")) \in Upserts("work")
      BY <1>5
    <2> HIDE DEF differs
    <2> QED
      BY <1>4, <2>1, <2>2
  <1>7. CASE reconcileClusterSensorDeployment
    <2> DEFINE absent == Existing("work") = Nil
    <2>1. Workload("cluster", absent, IF absent THEN Fresh("work") ELSE Existing("work"))
      BY <1>7 DEF reconcileClusterSensorDeployment
    <2>2. (IF absent THEN Fresh("work") ELSE Existing("work")) \in Upserts("work")
      OBVIOUS
    <2> HIDE DEF absent
    <2> QED
      BY <1>4, <2>1, <2>2
  <1>8. CASE reconcileAdmissionDeployment \/ reconcileRuntimeSensorDaemonSet
    BY <1>4, <1>5, <1>8 DEF reconcileAdmissionDeployment, reconcileRuntimeSensorDaemonSet
  <1> QED
    BY <1>1, <1>2, <1>3, <1>6, <1>7, <1>8 DEF Ensure

LEMMA EnsureType ==
  ASSUME TypeOK, CopyInv, Ensure
  PROVE  TypeOK' /\ CopyInv'
  <1>1. ASSUME NEW k \in Kinds, NEW new \in Upserts(k), Upsert(k, new)
        PROVE  TypeOK' /\ CopyInv'
    <2>1. new \in Content
      BY BuiltFacts DEF Upserts
    <2> QED
      BY <1>1, <2>1, UpsertType
  <1>2. CASE RefusedByWebhook
    <2>1. w.cr \in CR
      BY DEF TypeOK, Worker
    <2> QED
      BY <1>2, <2>1, IdleType DEF RefusedByWebhook, EndAfterDelay, cluster, TypeOK, CopyInv
  <1>3. CASE BuildArgsPanics
    <2>1. w.cr \in CR
      BY DEF TypeOK, Worker
    <2> QED
      BY <1>3, <2>1, IdleType, ChargeFacts
      DEF BuildArgsPanics, EndWithError, cluster, TypeOK, CopyInv
  <1> QED
    BY <1>1, <1>2, <1>3, EnsureCases

\* What the users and Kubernetes do keeps types, and a write makes the worker's
\* copy stale.
LEMMA EnvironmentType ==
  ASSUME TypeOK, CopyInv, Environment
  PROVE  TypeOK' /\ CopyInv'
  <1> USE ConstantsAssumption DEF TypeOK
  <1>1. ASSUME NEW cr \in CR, Written(cr)
        PROVE  /\ w' \in Worker /\ queue' \subseteq CR
               /\ UNCHANGED <<objs, platform, detected, delayed, faults>>
               /\ w'.pc # "idle" /\ w'.fresh => w' = w /\ w.cr # cr
    BY <1>1 DEF Written, Worker
  <1>2. ASSUME NEW cr \in CR, CreateResource(cr) PROVE TypeOK' /\ CopyInv'
    <2>1. PICK s \in Specs :
            crs' = [crs EXCEPT ![cr] = [spec |-> s, gen |-> 1, avail |-> "none",
                                        observed |-> 0, judged |-> Nil]]
      BY <1>2 DEF CreateResource
    <2>2. [spec |-> s, gen |-> 1, avail |-> "none", observed |-> 0, judged |-> Nil] \in Resource
      BY DEF Resource, Reasons
    <2>3. crs' \in [CR -> Resource \cup {Nil}]
      BY <2>1, <2>2
    <2>4. uids' \in [CR -> 0 .. MaxUid] /\ \A d \in CR \ {cr} : uids'[d] = uids[d]
      BY <1>2 DEF CreateResource
    <2>5. \A d \in CR \ {cr} : crs'[d] = crs[d]
      BY <2>1
    <2>6. Written(cr)
      BY <1>2 DEF CreateResource
    <2> QED
      BY <1>1, <2>3, <2>4, <2>5, <2>6 DEF CopyInv, Worker
  <1>3. ASSUME NEW cr \in CR, EditSpec(cr) PROVE TypeOK' /\ CopyInv'
    <2>1. PICK s \in Specs : crs' = [crs EXCEPT ![cr].spec = s, ![cr].gen = @ + 1]
      BY <1>3 DEF EditSpec
    <2>2. crs[cr] \in Resource /\ crs[cr].gen < MaxGen
      BY <1>3 DEF EditSpec
    <2>3. [crs[cr] EXCEPT !.spec = s, !.gen = @ + 1] \in Resource
      <3>1. crs[cr].gen \in 1 .. MaxGen /\ MaxGen \in Nat
        BY <2>2 DEF Resource
      <3>2. crs[cr].gen + 1 \in 1 .. MaxGen
        BY <2>2, <3>1
      <3> DEFINE g == crs[cr].gen + 1
      <3>3. [crs[cr] EXCEPT !.spec = s, !.gen = @ + 1] = [crs[cr] EXCEPT !.spec = s, !.gen = g]
        BY <2>2 DEF Resource
      <3>4. g \in 1 .. MaxGen
        BY <3>2
      <3> HIDE DEF g
      <3>5. [crs[cr] EXCEPT !.spec = s, !.gen = g] \in Resource
        BY <2>2, <3>4 DEF Resource
      <3> QED
        BY <3>3, <3>5
    <2>4. crs' \in [CR -> Resource \cup {Nil}] /\ \A d \in CR \ {cr} : crs'[d] = crs[d]
      BY <2>1, <2>3
    <2>5. Written(cr) /\ UNCHANGED uids
      BY <1>3 DEF EditSpec
    <2> QED
      BY <1>1, <2>4, <2>5 DEF CopyInv, Worker
  <1>4. ASSUME NEW cr \in CR, DeleteResource(cr) PROVE TypeOK' /\ CopyInv'
    BY <1>1, <1>4 DEF DeleteResource, CopyInv, Worker
  <1>5. CASE PlatformChanges
    BY <1>5 DEF PlatformChanges, cluster, queues, CopyInv
  <1>6. ASSUME NEW key \in Keys, GarbageCollect(key) \/ Drift(key) PROVE TypeOK' /\ CopyInv'
    <2>1. objs' \in [Keys -> Content \cup {Nil}] /\ faults' \in 0 .. MaxFaults
      BY <1>6 DEF GarbageCollect, Drift
    <2>2. queue' \subseteq CR
      BY <1>6, EventFacts DEF GarbageCollect, Drift
    <2> QED
      BY <1>6, <2>1, <2>2 DEF GarbageCollect, Drift, CopyInv
  <1>7. ASSUME NEW key \in Keys, PodsReady(key) \/ PodsFail(key) PROVE TypeOK' /\ CopyInv'
    <2>1. PICK b \in BOOLEAN : objs' = [objs EXCEPT ![key].up = b] /\ objs[key] # Nil
      BY <1>7 DEF PodsReady, PodsFail
    <2>2. [objs[key] EXCEPT !.up = b] \in Content
      BY <2>1 DEF Content
    <2>3. objs' \in [Keys -> Content \cup {Nil}]
      BY <2>1, <2>2
    <2>4. queue' \subseteq CR
      BY <1>7, EventFacts DEF PodsReady, PodsFail
    <2> QED
      BY <1>7, <2>3, <2>4 DEF PodsReady, PodsFail, CopyInv
  <1> QED
    BY <1>2, <1>3, <1>4, <1>5, <1>6, <1>7 DEF Environment

\* The steps of a pass other than its upserts.
LEMMA PassType ==
  ASSUME TypeOK, CopyInv, Pass
  PROVE  TypeOK' /\ CopyInv'
  <1> USE DEF TypeOK
  <1>0. w.cr \in CR /\ w.comp \in Comp /\ w.kind \in Kinds
    BY DEF Worker
  <1>1. CASE PlatformGate
    <2>1. faults' \in 0 .. MaxFaults
      BY <1>1, ChargeFacts DEF PlatformGate
    <2>2. "container" \in Comp /\ platform.conf \in {p.conf : p \in Platforms}
      BY DEF Comp
    <2>3. \/ w' = [Begin("container") EXCEPT !.conf = platform.conf]
          \/ \E r \in Reasons : w' = [w EXCEPT !.pc = "refuse", !.reason = r]
      BY <1>1, ConstantsAssumption DEF PlatformGate, Refuse, Reasons
    <2>4. /\ w' \in Worker /\ w'.cr = w.cr /\ w'.uid = w.uid /\ w'.gen = w.gen
          /\ w'.spec = w.spec /\ w'.fresh = w.fresh
      <3>1. CASE w' = [Begin("container") EXCEPT !.conf = platform.conf]
        <4> DEFINE v == Begin("container")
        <4>1. /\ v \in Worker /\ v.cr = w.cr /\ v.uid = w.uid /\ v.gen = w.gen
              /\ v.spec = w.spec /\ v.fresh = w.fresh
          BY <2>2, LeaveFacts
        <4>2. w' = [v EXCEPT !.conf = platform.conf]
          BY <3>1
        <4> HIDE DEF v
        <4> QED
          BY <2>2, <4>1, <4>2 DEF Worker
      <3>2. CASE \E r \in Reasons : w' = [w EXCEPT !.pc = "refuse", !.reason = r]
        BY <3>2 DEF Worker, PCs
      <3> QED
        BY <2>3, <3>1, <3>2
    <2>5. w.pc = "gate" /\ UNCHANGED <<crs, uids, objs, platform, detected, queue, delayed>>
      BY <1>1 DEF PlatformGate, cluster, queues
    <2> QED
      BY <2>1, <2>4, <2>5 DEF CopyInv
  <1>2. CASE RefuseStatus
    <2>1. PICK o \in Outcomes :
            /\ Charge(o)
            /\ crs' = IF Stored(o) THEN [crs EXCEPT ![w.cr].avail = w.reason] ELSE crs
      BY <1>2 DEF RefuseStatus
    <2>2. Stored(o) => crs[w.cr] \in Resource
      BY <1>0, <1>2 DEF RefuseStatus, Stored, CopyInv
    <2>3. Stored(o) => [crs[w.cr] EXCEPT !.avail = w.reason] \in Resource
      BY <2>2 DEF Resource, Worker
    <2>4. crs' \in [CR -> Resource \cup {Nil}]
      BY <1>0, <2>1, <2>3
    <2>5. queue' \subseteq CR /\ delayed' \subseteq CR /\ faults' \in 0 .. MaxFaults
      BY <1>0, <1>2, <2>1, ChargeFacts DEF RefuseStatus, Changed, EndAfterDelay
    <2> QED
      BY <1>2, <2>4, <2>5, IdleType DEF RefuseStatus, EndAfterDelay, CopyInv
  <1>3. CASE Ensure
    BY <1>3, EnsureType
  <1>4. CASE Cleanup
    <2>1. Target \in Keys
      BY <1>0, KeyFacts DEF Target
    <2>2. /\ {NextCleanup, Leave(w.comp)} \subseteq Worker
          /\ \A v \in {NextCleanup, Leave(w.comp)} :
               /\ v.cr = w.cr /\ v.uid = w.uid /\ v.gen = w.gen
               /\ v.spec = w.spec /\ v.fresh = w.fresh
      BY <1>0, LeaveFacts DEF NextCleanup, Worker, Kinds
    <2>3. /\ w' \in {NextCleanup, Leave(w.comp)} /\ faults' \in 0 .. MaxFaults
          /\ objs' = objs \/ objs' = [objs EXCEPT ![Target] = Nil]
          /\ queue' \subseteq queue \cup Events(Target)
      BY <1>4, ChargeFacts DEF Cleanup, NothingToDelete, LookupFails, DeleteObject
    <2>4. objs' \in [Keys -> Content \cup {Nil}] /\ queue' \subseteq CR
      BY <2>1, <2>3, EventFacts
    <2>5. w.pc = "clean" /\ UNCHANGED <<crs, uids, platform, detected, delayed>>
      BY <1>4 DEF Cleanup
    <2> QED
      BY <2>2, <2>3, <2>4, <2>5 DEF CopyInv
  <1>5. CASE ReadComponentStatus
    <2>1. PICK ready \in BOOLEAN :
            w' = [w EXCEPT !.allReady = @ /\ ready,
                           !.pc = IF w.comp = "runtime" THEN "write" ELSE "read",
                           !.comp = NextComp[@]]
      BY <1>5 DEF ReadComponentStatus
    <2>2. NextComp[w.comp] \in Comp
      BY <1>0 DEF NextComp, Comp
    <2>3. (w.allReady /\ ready) \in BOOLEAN
      OBVIOUS
    <2>4. /\ w' \in Worker /\ w'.cr = w.cr /\ w'.uid = w.uid /\ w'.gen = w.gen
          /\ w'.spec = w.spec /\ w'.fresh = w.fresh
      BY <2>1, <2>2, <2>3 DEF Worker, PCs
    <2>5. faults' \in 0 .. MaxFaults
      BY <1>5, ChargeFacts DEF ReadComponentStatus
    <2>6. w.pc = "read" /\ UNCHANGED <<crs, uids, objs, platform, detected, queue, delayed>>
      BY <1>5 DEF ReadComponentStatus, cluster, queues
    <2> QED
      BY <2>4, <2>5, <2>6 DEF CopyInv
  <1>6. CASE updateComponentStatuses
    <2> DEFINE reason == IF w.allReady THEN "AllComponentsReady" ELSE "ComponentsNotReady"
    <2>1. PICK o \in Outcomes :
            /\ Charge(o)
            /\ crs' = IF Stored(o) THEN WithVerdict(reason) ELSE crs
            /\ \E touched \in {{}, IF Stored(o) THEN {w.cr} ELSE {}} :
                 IF o = "ok" /\ Stored(o)
                   THEN queue' = queue \cup Changed \cup touched /\ EndAfterDelay
                   ELSE EndWithError(Changed)
      BY <1>6 DEF updateComponentStatuses
    <2>2. Stored(o) => crs[w.cr] \in Resource
      BY <1>0, <1>6 DEF updateComponentStatuses, Stored, CopyInv
    <2>3. reason \in Reasons /\ w.gen \in 0 .. MaxGen /\ w.spec \in Specs
      BY DEF Reasons, Worker
    <2>4. Stored(o) => [crs[w.cr] EXCEPT !.avail = reason, !.observed = w.gen,
                                         !.judged = w.spec] \in Resource
      BY <2>2, <2>3 DEF Resource
    <2>5. WithVerdict(reason)
            = [crs EXCEPT ![w.cr] = [crs[w.cr] EXCEPT !.avail = reason, !.observed = w.gen,
                                                      !.judged = w.spec]]
      BY <1>0 DEF WithVerdict
    <2>6. crs' \in [CR -> Resource \cup {Nil}]
      BY <1>0, <2>1, <2>4, <2>5
    <2>7. queue' \subseteq CR /\ delayed' \subseteq CR /\ w' = Idle
      BY <1>0, <2>1 DEF Changed, EndAfterDelay, EndWithError
    <2>8. faults' \in 0 .. MaxFaults
      BY <2>1, ChargeFacts
    <2> QED
      BY <1>6, <2>6, <2>7, <2>8, IdleType DEF updateComponentStatuses, CopyInv
  <1> QED
    BY <1>1, <1>2, <1>3, <1>4, <1>5, <1>6 DEF Pass

\* Every step keeps the types and the worker's copy.
LEMMA TypeStep == TypeOK /\ CopyInv /\ [Next]_vars => TypeOK' /\ CopyInv'
  <1> SUFFICES ASSUME TypeOK, CopyInv, [Next]_vars PROVE TypeOK' /\ CopyInv'
    OBVIOUS
  <1>1. ASSUME NEW cr \in CR, TimerFires(cr) PROVE TypeOK' /\ CopyInv'
    BY <1>1 DEF TimerFires, TypeOK, CopyInv, cluster
  <1>2. ASSUME NEW cr \in CR, Start(cr) PROVE TypeOK' /\ CopyInv'
    <2>1. CASE crs[cr] = Nil
      BY <1>2, <2>1, IdleType DEF Start, TypeOK, CopyInv, cluster
    <2>2. CASE crs[cr] # Nil
      <3>1. crs[cr].spec \in Specs /\ crs[cr].gen \in 0 .. MaxGen /\ uids[cr] \in 0 .. MaxUid
        BY <2>2 DEF TypeOK, Resource
      <3>2. w' = [Idle EXCEPT !.pc = "gate", !.cr = cr, !.uid = uids[cr],
                              !.gen = crs[cr].gen, !.spec = crs[cr].spec, !.fresh = TRUE]
        BY <1>2, <2>2 DEF Start
      <3>3. /\ w' \in Worker /\ w'.cr = cr /\ w'.uid = uids[cr]
            /\ w'.gen = crs[cr].gen /\ w'.spec = crs[cr].spec
        BY <3>1, <3>2, IdleType DEF Worker, PCs
      <3> QED
        BY <1>2, <2>2, <3>3 DEF Start, TypeOK, CopyInv, cluster
    <2> QED
      BY <2>1, <2>2
  <1>3. ASSUME NEW cr \in CR, StartFails(cr) PROVE TypeOK' /\ CopyInv'
    BY <1>3, ChargeFacts DEF StartFails, TypeOK, CopyInv, cluster, queues
  <1>4. CASE Pass
    BY <1>4, PassType
  <1>5. CASE Restart
    BY <1>5, IdleType, ConstantsAssumption DEF Restart, TypeOK, CopyInv, cluster
  <1>6. CASE Environment
    BY <1>6, EnvironmentType
  <1>7. CASE UNCHANGED vars
    BY <1>7 DEF vars, TypeOK, CopyInv
  <1> QED
    BY <1>1, <1>2, <1>3, <1>4, <1>5, <1>6, <1>7 DEF Next

LEMMA InitEstablishes == Init => TypeOK /\ CopyInv /\ PassInv /\ RightsBeforeWorkload
  <1> SUFFICES ASSUME Init PROVE TypeOK /\ CopyInv /\ PassInv /\ RightsBeforeWorkload
    OBVIOUS
  <1>1. TypeOK
    BY IdleType, ConstantsAssumption DEF Init, TypeOK
  <1>2. CopyInv /\ PassInv
    BY IdleType DEF Init, CopyInv, PassInv
  <1>3. RightsBeforeWorkload
    <2>1. ASSUME NEW cr \in CR, NEW c \in Comp PROVE ~Present(cr, c, "work")
      BY KeyFacts DEF Init, Present, Kinds
    <2> QED
      BY <2>1 DEF RightsBeforeWorkload
  <1> QED
    BY <1>1, <1>2, <1>3

-----------------------------------------------------------------------------
\* Every variable keeps its type, and while the resourceVersion the worker read
\* is current, so is the rest of its copy.
THEOREM TypeCorrect == Spec => [](TypeOK /\ CopyInv)
  <1>1. Init => TypeOK /\ CopyInv
    BY InitEstablishes
  <1> QED
    BY <1>1, TypeStep, PTL DEF Spec

\* A step that changes the verdict stores the worker's own, on a fresh copy.
LEMMA VerdictStep ==
  ASSUME TypeOK, CopyInv, [Next]_vars, NEW cr \in CR,
         crs[cr] # Nil, crs'[cr] # Nil, crs'[cr].avail # crs[cr].avail
  PROVE  /\ w.cr = cr /\ w.pc # "idle" /\ w.fresh
         /\ uids' = uids /\ crs'[cr].gen = crs[cr].gen /\ crs'[cr].spec = crs[cr].spec
  <1>1. ASSUME UNCHANGED crs PROVE FALSE
    BY <1>1
  <1>2. ASSUME NEW d \in CR, CreateResource(d) \/ EditSpec(d) \/ DeleteResource(d)
        PROVE  FALSE
    <2>1. crs[cr] \in Resource
      BY DEF TypeOK
    <2>2. CASE CreateResource(d)
      BY <2>2 DEF CreateResource, TypeOK
    <2>3. CASE EditSpec(d)
      BY <2>1, <2>3 DEF EditSpec, TypeOK, Resource
    <2>4. CASE DeleteResource(d)
      BY <2>4 DEF DeleteResource, TypeOK
    <2> QED
      BY <1>2, <2>2, <2>3, <2>4
  <1>3. ASSUME Environment PROVE FALSE
    BY <1>1, <1>2, <1>3 DEF Environment, PlatformChanges, GarbageCollect, Drift,
                            PodsReady, PodsFail, cluster
  <1>4. ASSUME NEW d \in CR, TimerFires(d) \/ Start(d) \/ StartFails(d) PROVE FALSE
    BY <1>1, <1>4 DEF TimerFires, Start, StartFails, cluster
  <1>5. ASSUME Restart \/ PlatformGate \/ Cleanup \/ ReadComponentStatus PROVE FALSE
    BY <1>1, <1>5 DEF Restart, PlatformGate, Cleanup, ReadComponentStatus, cluster
  <1>6. ASSUME Ensure PROVE FALSE
    BY <1>1, <1>6, EnsureCases DEF Upsert, RefusedByWebhook, BuildArgsPanics, cluster
  <1>7. w.cr \in CR /\ crs \in [CR -> Resource \cup {Nil}]
    BY DEF TypeOK, Worker
  <1>8. CASE RefuseStatus
    <2>1. PICK o \in Outcomes :
            crs' = IF Stored(o) THEN [crs EXCEPT ![w.cr].avail = w.reason] ELSE crs
      BY <1>8 DEF RefuseStatus
    <2>2. Stored(o) /\ crs' = [crs EXCEPT ![w.cr].avail = w.reason]
      BY <1>1, <2>1
    <2>3. w.cr = cr
      BY <1>7, <2>2
    <2>4. crs[cr] \in Resource
      BY <1>7
    <2>5. crs'[cr] = [crs[cr] EXCEPT !.avail = w.reason]
      BY <1>7, <2>2, <2>3
    <2>6. crs'[cr].gen = crs[cr].gen /\ crs'[cr].spec = crs[cr].spec
      BY <2>4, <2>5 DEF Resource
    <2> QED
      BY <1>8, <2>2, <2>3, <2>6 DEF RefuseStatus, Stored
  <1>9. CASE updateComponentStatuses
    <2>1. PICK o \in Outcomes, r \in Reasons :
            crs' = IF Stored(o) THEN WithVerdict(r) ELSE crs
      BY <1>9 DEF updateComponentStatuses, Reasons
    <2>2. /\ Stored(o)
          /\ crs' = [crs EXCEPT ![w.cr] = [crs[w.cr] EXCEPT !.avail = r, !.observed = w.gen,
                                                            !.judged = w.spec]]
      BY <1>1, <1>7, <2>1 DEF WithVerdict
    <2>3. w.cr = cr
      BY <1>7, <2>2
    <2>4. crs[cr] \in Resource
      BY <1>7
    <2>5. crs'[cr] = [crs[cr] EXCEPT !.avail = r, !.observed = w.gen, !.judged = w.spec]
      BY <1>7, <2>2, <2>3
    <2>6. crs'[cr].gen = crs[cr].gen /\ crs'[cr].spec = crs[cr].spec
      BY <2>4, <2>5 DEF Resource
    <2> QED
      BY <1>9, <2>2, <2>3, <2>6 DEF updateComponentStatuses, Stored
  <1>10. ASSUME UNCHANGED vars PROVE FALSE
    BY <1>1, <1>10 DEF vars
  <1> QED
    BY <1>3, <1>4, <1>5, <1>6, <1>8, <1>9, <1>10 DEF Next, Pass

\* Whatever edits, deletions and re-creations overtake a pass, a status update
\* changes the verdict only of the very spec the pass has read.
THEOREM VerdictIsOfStoredSpec == Spec => VerdictMatchesSpec
  <1> DEFINE A == \A cr \in CR :
        crs[cr] # Nil /\ crs'[cr] # Nil /\ crs'[cr].avail # crs[cr].avail
          => /\ w.cr = cr /\ w.uid = uids'[cr]
             /\ w.gen = crs'[cr].gen /\ w.spec = crs'[cr].spec
  <1>1. TypeOK /\ CopyInv /\ [Next]_vars => [A]_vars
    <2> SUFFICES ASSUME TypeOK, CopyInv, [Next]_vars, NEW cr \in CR,
                        crs[cr] # Nil, crs'[cr] # Nil, crs'[cr].avail # crs[cr].avail
                 PROVE  /\ w.cr = cr /\ w.uid = uids'[cr]
                        /\ w.gen = crs'[cr].gen /\ w.spec = crs'[cr].spec
      OBVIOUS
    <2>1. /\ w.cr = cr /\ w.pc # "idle" /\ w.fresh
          /\ uids' = uids /\ crs'[cr].gen = crs[cr].gen /\ crs'[cr].spec = crs[cr].spec
      BY VerdictStep
    <2> QED
      BY <2>1 DEF CopyInv
  <1> QED
    BY <1>1, TypeCorrect, PTL DEF Spec, VerdictMatchesSpec

-----------------------------------------------------------------------------
(***************************************************************************)
(* What a client sees.  An edit makes a generation no status has named     *)
(* yet: that takes ObservedInv besides CopyInv.                            *)
(***************************************************************************)
\* No status is of a generation yet to come.
ObservedInv == \A cr \in CR : crs[cr] # Nil => crs[cr].observed <= crs[cr].gen

\* How a write to one resource looks to a client: it is gone, it has another spec
\* and no claim, or it has the same spec and no claim or one about that very spec.
LEMMA ClientSees ==
  ASSUME NEW cr \in CR, \A d \in CR \ {cr} : crs'[d] = crs[d],
         \/ crs'[cr] = Nil
         \/ SpecOf(crs'[cr]) \in Specs \ {SpecOf(crs[cr])} /\ ClaimOf(crs'[cr]) = Nil
         \/ /\ SpecOf(crs'[cr]) = SpecOf(crs[cr]) /\ SpecOf(crs[cr]) \in Specs
            /\ ClaimOf(crs'[cr]) \in {Nil, SpecOf(crs[cr])}
  PROVE  [Client!Next]_(Client!cvars)
  <1> DEFINE Desired == [d \in CR |-> SpecOf(crs[d])]
             Claims == [d \in CR |-> ClaimOf(crs[d])]
  <1>1. /\ \A d \in CR \ {cr} : Desired'[d] = Desired[d] /\ Claims'[d] = Claims[d]
        /\ Desired'[cr] = SpecOf(crs'[cr]) /\ Claims'[cr] = ClaimOf(crs'[cr])
        /\ Desired[cr] = SpecOf(crs[cr]) /\ Claims[cr] = ClaimOf(crs[cr])
    OBVIOUS
  <1>2. /\ Desired' = [Desired EXCEPT ![cr] = SpecOf(crs'[cr])]
        /\ Claims' = [Claims EXCEPT ![cr] = ClaimOf(crs'[cr])]
    BY <1>1
  <1>3. CASE crs'[cr] = Nil
    <2>1. SpecOf(crs'[cr]) = Nil /\ ClaimOf(crs'[cr]) = Nil
      BY <1>3 DEF SpecOf, ClaimOf
    <2>2. Client!Delete(cr)
      BY <1>2, <2>1 DEF Client!Delete
    <2> QED
      BY <2>2 DEF Client!Next
  <1>4. CASE SpecOf(crs'[cr]) \in Specs \ {SpecOf(crs[cr])} /\ ClaimOf(crs'[cr]) = Nil
    <2>1. Client!Write(cr)
      BY <1>1, <1>2, <1>4 DEF Client!Write
    <2> QED
      BY <2>1 DEF Client!Next
  <1>5. CASE /\ SpecOf(crs'[cr]) = SpecOf(crs[cr]) /\ SpecOf(crs[cr]) \in Specs
             /\ ClaimOf(crs'[cr]) \in {Nil, SpecOf(crs[cr])}
    <2>1. Desired' = Desired /\ Desired[cr] # Nil
      BY <1>1, <1>5, ConstantsAssumption
    <2>2. CASE ClaimOf(crs'[cr]) = Nil
      <3>1. Client!Withdraw(cr)
        BY <1>2, <2>1, <2>2 DEF Client!Withdraw
      <3> QED
        BY <3>1 DEF Client!Next
    <2>3. CASE ClaimOf(crs'[cr]) = SpecOf(crs[cr])
      <3>1. Claims'[cr] = [s \in Specs |-> s][Desired[cr]]
        BY <1>1, <1>5, <2>3
      <3>2. Client!Confirm(cr)
        BY <1>1, <1>2, <2>1, <3>1 DEF Client!Confirm
      <3> QED
        BY <3>2 DEF Client!Next
    <2> QED
      BY <1>5, <2>2, <2>3
  <1> QED
    BY <1>3, <1>4, <1>5

\* The gate refuses with reasons of its own.
RefusalInv == w.pc = "refuse" => w.reason # "AllComponentsReady"

LEMMA RefusalStep ==
  ASSUME TypeOK, RefusalInv, [Next]_vars
  PROVE  RefusalInv'
  <1>0. w \in Worker /\ w.comp \in Comp /\ detected \in BOOLEAN
    BY ConstantsAssumption DEF TypeOK, Worker, Detections
  <1>1. ASSUME w' = w \/ w' = Idle \/ w'.pc # "refuse" PROVE RefusalInv'
    BY <1>1, IdleType DEF RefusalInv
  <1>2. CASE Environment
    <2>1. ASSUME NEW cr \in CR, CreateResource(cr) \/ EditSpec(cr) \/ DeleteResource(cr)
          PROVE  RefusalInv'
      <3>1. w' = w \/ w' = [w EXCEPT !.fresh = FALSE]
        BY <2>1 DEF CreateResource, EditSpec, DeleteResource, Written
      <3>2. w'.pc = w.pc /\ w'.reason = w.reason
        BY <1>0, <3>1 DEF Worker
      <3> QED
        BY <3>2 DEF RefusalInv
    <2> QED
      BY <1>1, <1>2, <2>1 DEF Environment, PlatformChanges, GarbageCollect, Drift,
                              PodsReady, PodsFail
  <1>3. ASSUME NEW cr \in CR, TimerFires(cr) \/ Start(cr) \/ StartFails(cr) PROVE RefusalInv'
    <2>1. w' = w \/ w' = Idle \/ w'.pc = "gate"
      BY <1>3, IdleType DEF TimerFires, Start, StartFails, Worker
    <2> QED
      BY <1>1, <2>1
  <1>4. CASE PlatformGate
    <2>1. CASE w' = [Begin("container") EXCEPT !.conf = platform.conf]
      <3> DEFINE v == Begin("container")
      <3>1. v \in Worker /\ v.pc \in {"ensure", "clean", "read"}
        BY <1>0, LeaveFacts DEF Comp
      <3>2. w' = [v EXCEPT !.conf = platform.conf]
        BY <2>1
      <3> HIDE DEF v
      <3> QED
        BY <1>1, <3>1, <3>2 DEF Worker
    <2>2. ASSUME NEW r \in Reasons \ {"AllComponentsReady"}, Refuse(r) PROVE RefusalInv'
      <3>1. w'.reason = r
        BY <1>0, <2>2 DEF Refuse, Worker
      <3> QED
        BY <3>1 DEF RefusalInv
    <2> QED
      BY <1>4, <2>1, <2>2, ConstantsAssumption DEF PlatformGate, TypeOK, Reasons
  <1>5. CASE RefuseStatus \/ updateComponentStatuses \/ Restart
    BY <1>1, <1>5 DEF RefuseStatus, updateComponentStatuses, Restart, EndAfterDelay, EndWithError
  <1>6. ASSUME NEW c \in Comp, w' = Leave(c) PROVE RefusalInv'
    BY <1>0, <1>1, <1>6, LeaveFacts
  <1>7. CASE Cleanup
    <2>1. w' \in {NextCleanup, Leave(w.comp)} /\ w.pc = "clean"
      BY <1>7 DEF Cleanup, NothingToDelete, LookupFails, DeleteObject
    <2>2. CASE w' = [w EXCEPT !.kind = "webhook"]
      BY <1>0, <1>1, <2>1, <2>2 DEF Worker
    <2> QED
      BY <1>0, <1>6, <2>1, <2>2 DEF NextCleanup
  <1>8. CASE ReadComponentStatus
    <2>1. w'.pc \in {"write", "read"}
      BY <1>0, <1>8 DEF ReadComponentStatus, Worker
    <2> QED
      BY <1>1, <2>1
  <1>9. CASE Ensure
    <2>1. w' = Idle \/ (w' = Advance /\ w.pc = "ensure")
      BY <1>9, EnsureCases DEF Upsert, AfterUpsert, RefusedByWebhook, BuildArgsPanics,
                               EndAfterDelay, EndWithError
    <2>2. CASE w' = [w EXCEPT !.kind = After(w.comp, w.kind)] /\ w.pc = "ensure"
      BY <1>0, <1>1, <2>2 DEF Worker
    <2> QED
      BY <1>0, <1>1, <1>6, <2>1, <2>2 DEF Advance
  <1> QED
    BY <1>1, <1>2, <1>3, <1>4, <1>5, <1>7, <1>8, <1>9 DEF Next, Pass, vars

\* Only users change a spec, and no status speaks of the generation they make;
\* a status update keeps the spec, and a verdict is on the spec of a fresh copy.
LEMMA ClientStep ==
  TypeOK /\ CopyInv /\ RefusalInv /\ ObservedInv /\ [Next]_vars
    => ObservedInv' /\ [Client!Next]_(Client!cvars)
  <1> SUFFICES ASSUME TypeOK, CopyInv, RefusalInv, ObservedInv, [Next]_vars
               PROVE  ObservedInv' /\ [Client!Next]_(Client!cvars)
    OBVIOUS
  <1>0. /\ crs \in [CR -> Resource \cup {Nil}] /\ w.cr \in CR
        /\ \A cr \in CR : crs[cr] # Nil =>
             /\ crs[cr] \in Resource /\ crs[cr].gen \in Nat /\ crs[cr].observed \in Nat
             /\ crs[cr].observed <= crs[cr].gen /\ SpecOf(crs[cr]) = crs[cr].spec
             /\ SpecOf(crs[cr]) \in Specs
    BY ConstantsAssumption DEF TypeOK, Worker, Resource, ObservedInv, SpecOf
  <1>1. ASSUME UNCHANGED crs PROVE ObservedInv' /\ [Client!Next]_(Client!cvars)
    BY <1>1 DEF ObservedInv, Client!cvars
  <1>2. ASSUME NEW cr \in CR, CreateResource(cr)
        PROVE  ObservedInv' /\ [Client!Next]_(Client!cvars)
    <2>1. PICK s \in Specs :
            crs' = [crs EXCEPT ![cr] = [spec |-> s, gen |-> 1, avail |-> "none",
                                        observed |-> 0, judged |-> Nil]]
      BY <1>2 DEF CreateResource
    <2>2. /\ SpecOf(crs[cr]) = Nil
          /\ crs'[cr].spec = s /\ crs'[cr].avail = "none"
          /\ crs'[cr].observed <= crs'[cr].gen
          /\ \A d \in CR \ {cr} : crs'[d] = crs[d]
      BY <1>0, <1>2, <2>1 DEF CreateResource, SpecOf
    <2>3. ClaimOf(crs'[cr]) = Nil
      BY <2>2 DEF ClaimOf
    <2>4. crs'[cr] = Nil \/ SpecOf(crs'[cr]) \in Specs \ {SpecOf(crs[cr])}
      BY <2>2, ConstantsAssumption DEF SpecOf
    <2>5. [Client!Next]_(Client!cvars)
      BY <2>2, <2>3, <2>4, ClientSees
    <2> QED
      BY <2>2, <2>5 DEF ObservedInv
  <1>3. ASSUME NEW cr \in CR, EditSpec(cr)
        PROVE  ObservedInv' /\ [Client!Next]_(Client!cvars)
    <2>1. PICK s \in Specs \ {crs[cr].spec} :
            crs' = [crs EXCEPT ![cr].spec = s, ![cr].gen = @ + 1]
      BY <1>3 DEF EditSpec
    <2>2. /\ crs[cr] # Nil /\ SpecOf(crs[cr]) = crs[cr].spec
          /\ crs'[cr].spec = s /\ crs'[cr].gen = crs[cr].gen + 1
          /\ crs'[cr].observed = crs[cr].observed
          /\ \A d \in CR \ {cr} : crs'[d] = crs[d]
      BY <1>0, <1>3, <2>1 DEF EditSpec, Resource
    <2>3. crs'[cr].observed # crs'[cr].gen /\ crs'[cr].observed <= crs'[cr].gen
      BY <1>0, <2>2
    <2>4. ClaimOf(crs'[cr]) = Nil
      BY <2>3 DEF ClaimOf
    <2>5. crs'[cr] = Nil \/ SpecOf(crs'[cr]) \in Specs \ {SpecOf(crs[cr])}
      BY <2>1, <2>2 DEF SpecOf
    <2>6. [Client!Next]_(Client!cvars)
      BY <2>2, <2>4, <2>5, ClientSees
    <2> QED
      BY <2>2, <2>3, <2>6 DEF ObservedInv
  <1>4. ASSUME NEW cr \in CR, DeleteResource(cr)
        PROVE  ObservedInv' /\ [Client!Next]_(Client!cvars)
    <2>1. crs'[cr] = Nil /\ \A d \in CR \ {cr} : crs'[d] = crs[d]
      BY <1>0, <1>4 DEF DeleteResource
    <2>2. [Client!Next]_(Client!cvars)
      BY <2>1, ClientSees
    <2> QED
      BY <2>1, <2>2 DEF ObservedInv
  <1>5. ASSUME NEW r \in Reasons,
               crs[w.cr] # Nil, w.gen = crs[w.cr].gen, w.spec = crs[w.cr].spec,
               \/ r # "AllComponentsReady" /\ crs' = [crs EXCEPT ![w.cr].avail = r]
               \/ crs' = WithVerdict(r)
        PROVE  ObservedInv' /\ [Client!Next]_(Client!cvars)
    <2>1. /\ \A d \in CR \ {w.cr} : crs'[d] = crs[d]
          /\ crs'[w.cr].spec = crs[w.cr].spec /\ crs'[w.cr].gen = crs[w.cr].gen
          /\ crs'[w.cr].observed \in {crs[w.cr].observed, w.gen}
          /\ crs'[w.cr].avail = "AllComponentsReady" => crs'[w.cr].judged = w.spec
      BY <1>0, <1>5 DEF Resource, WithVerdict
    <2>2. crs'[w.cr].observed <= crs'[w.cr].gen
      BY <1>0, <1>5, <2>1
    <2>3. crs'[w.cr] = Nil \/ SpecOf(crs'[w.cr]) = SpecOf(crs[w.cr])
      BY <1>0, <1>5, <2>1 DEF SpecOf
    <2>4. ClaimOf(crs'[w.cr]) \in {Nil, SpecOf(crs[w.cr])}
      BY <1>0, <1>5, <2>1 DEF ClaimOf
    <2>5. [Client!Next]_(Client!cvars)
      BY <1>0, <1>5, <2>1, <2>3, <2>4, ClientSees
    <2> QED
      BY <2>1, <2>2, <2>5 DEF ObservedInv
  <1>6. CASE RefuseStatus
    <2>1. /\ w.pc = "refuse" /\ w.reason \in Reasons \ {"AllComponentsReady"}
          /\ crs' = crs \/ (w.fresh /\ crs' = [crs EXCEPT ![w.cr].avail = w.reason])
      BY <1>6 DEF RefuseStatus, Stored, RefusalInv, TypeOK, Worker
    <2> QED
      BY <1>1, <1>5, <2>1 DEF CopyInv
  <1>7. CASE updateComponentStatuses
    <2>1. /\ w.pc # "idle"
          /\ \/ crs' = crs
             \/ w.fresh /\ \E r \in Reasons : crs' = WithVerdict(r)
      BY <1>7 DEF updateComponentStatuses, Stored, Reasons
    <2> QED
      BY <1>1, <1>5, <2>1 DEF CopyInv
  <1>8. CASE Environment
    BY <1>1, <1>2, <1>3, <1>4, <1>8 DEF Environment, PlatformChanges, GarbageCollect, Drift,
                                        PodsReady, PodsFail, cluster
  <1>9. CASE Ensure
    BY <1>1, <1>9, EnsureCases DEF Upsert, RefusedByWebhook, BuildArgsPanics, cluster
  <1>10. CASE Restart \/ PlatformGate \/ Cleanup \/ ReadComponentStatus \/ UNCHANGED vars
    BY <1>1, <1>10 DEF Restart, PlatformGate, Cleanup, ReadComponentStatus, cluster, vars
  <1>11. ASSUME NEW cr \in CR, TimerFires(cr) \/ Start(cr) \/ StartFails(cr)
         PROVE  ObservedInv' /\ [Client!Next]_(Client!cvars)
    BY <1>1, <1>11 DEF TimerFires, Start, StartFails, cluster
  <1> QED
    BY <1>6, <1>7, <1>8, <1>9, <1>10, <1>11 DEF Next, Pass

\* To a client the reconciler is one that vouches for the components of the stored
\* spec, or takes its word back, and does nothing else: an Available=True for the
\* current generation was never judged by another spec, for any number of resources,
\* whatever edits, re-creations, conflicts, lost replies and crashes come between a
\* Get and the status update.
THEOREM ConfirmsTheSpec == Spec => ConfirmsSpec
  <1>1. Init => RefusalInv /\ ObservedInv /\ Client!Init
    BY IdleType DEF Init, RefusalInv, ObservedInv, Client!Init, SpecOf, ClaimOf
  <1>2. TypeOK /\ RefusalInv /\ [Next]_vars => RefusalInv'
    BY RefusalStep
  <1> QED
    BY <1>1, <1>2, ClientStep, TypeCorrect, PTL DEF Spec, ConfirmsSpec, Client!Spec

-----------------------------------------------------------------------------
(***************************************************************************)
(* The order of rights before workloads.  RightsBeforeWorkload alone is    *)
(* not inductive: it does not say what the worker has already made when it *)
(* comes to the workload, nor that what it deletes is never a role or a    *)
(* binding.  PassInv does.  BindingInv says whose rights a binding grants. *)
(* Outsiders may delete anything but roles and bindings.                   *)
(***************************************************************************)
RightsSafe == DriftKinds \cap {"role", "binding"} = {}

\* What a step does to the objects: nothing, an upsert of the kind the worker
\* has come to, a deletion of the collector's, an outsider's or the cleanup's, or
\* a change of the pods.
ObjectStep ==
  \/ objs' = objs
  \/ /\ w.pc = "ensure"
     /\ \E new \in Content : /\ w.kind = "binding" => new.cr = w.cr
                            /\ objs' = [objs EXCEPT ![Key(w.cr, w.comp, w.kind)] = new]
  \/ \E key \in Keys : /\ key.kind \notin {"role", "binding"}
                       /\ objs' = [objs EXCEPT ![key] = Nil]
  \/ \E key \in Keys, b \in BOOLEAN : /\ objs[key] # Nil
                                      /\ objs' = [objs EXCEPT ![key].up = b]

LEMMA ObjectSteps ==
  ASSUME TypeOK, PassInv, RightsSafe, [Next]_vars
  PROVE  ObjectStep
  <1> USE DEF ObjectStep
  <1>0. w.cr \in CR /\ w.comp \in Comp /\ w.kind \in Kinds
    BY DEF TypeOK, Worker
  <1>1. CASE Environment
    <2>1. ASSUME NEW key \in Keys, GarbageCollect(key) PROVE ObjectStep
      BY <2>1 DEF GarbageCollect, ClusterScoped
    <2>2. ASSUME NEW key \in Keys, Drift(key) PROVE ObjectStep
      BY <2>2 DEF Drift, RightsSafe
    <2>3. ASSUME NEW key \in Keys, PodsReady(key) \/ PodsFail(key) PROVE ObjectStep
      BY <2>3 DEF PodsReady, PodsFail
    <2>4. ASSUME NEW cr \in CR, CreateResource(cr) \/ EditSpec(cr) \/ DeleteResource(cr)
          PROVE  ObjectStep
      BY <2>4 DEF CreateResource, EditSpec, DeleteResource, Written
    <2> QED
      BY <1>1, <2>1, <2>2, <2>3, <2>4 DEF Environment, PlatformChanges, cluster
  <1>2. ASSUME NEW cr \in CR, TimerFires(cr) \/ Start(cr) \/ StartFails(cr) PROVE ObjectStep
    BY <1>2 DEF TimerFires, Start, StartFails, cluster
  <1>3. CASE Restart \/ PlatformGate \/ RefuseStatus \/ ReadComponentStatus
             \/ updateComponentStatuses \/ UNCHANGED vars
    BY <1>3 DEF Restart, PlatformGate, RefuseStatus, ReadComponentStatus,
                updateComponentStatuses, cluster, vars
  <1>4. CASE Cleanup
    <2>1. Target \in Keys /\ Target.kind \notin {"role", "binding"}
      BY <1>0, <1>4, KeyFacts DEF Cleanup, Target, PassInv
    <2> QED
      BY <1>4, <2>1 DEF Cleanup, NothingToDelete, LookupFails, DeleteObject
  <1>5. CASE Ensure
    <2>1. ASSUME NEW k \in Kinds, NEW new \in Upserts(k), Upsert(k, new) PROVE ObjectStep
      <3>1. new \in Content
        BY BuiltFacts DEF Upserts
      <3>2. w.pc = "ensure" /\ w.kind = k
        BY <2>1 DEF Upsert
      <3>3. objs' = objs \/ objs' = [objs EXCEPT ![Key(w.cr, w.comp, w.kind)] = new]
        BY <2>1, <3>2 DEF Upsert
      <3>4. k = "binding" => new = Fresh(k)
        BY DEF Upserts, ClusterScoped
      <3>5. Fresh(k).cr = w.cr
        BY DEF Fresh
      <3> QED
        BY <3>1, <3>2, <3>3, <3>4, <3>5
    <2> QED
      BY <1>5, <2>1, EnsureCases DEF RefusedByWebhook, BuildArgsPanics, cluster
  <1> QED
    BY <1>1, <1>2, <1>3, <1>4, <1>5 DEF Next, Pass

\* Roles and bindings are never taken away.
LEMMA RightsStay ==
  ASSUME TypeOK, ObjectStep, NEW cr \in CR, NEW c \in Comp, NEW k \in {"role", "binding"},
         Present(cr, c, k)
  PROVE  Present(cr, c, k)'
  <1> DEFINE own == Key(cr, c, k)
  <1>1. own \in Keys /\ own.kind = k /\ objs[own] # Nil
    BY KeyFacts DEF Kinds, Present
  <1>2. w.cr \in CR /\ w.comp \in Comp /\ w.kind \in Kinds
    BY DEF TypeOK, Worker
  <1>3. Nil \notin Content
    BY ConstantsAssumption
  <1>4. objs \in [Keys -> Content \cup {Nil}]
    BY DEF TypeOK
  <1> SUFFICES objs'[own] # Nil
    BY DEF Present
  <1> HIDE DEF own
  <1>5. ASSUME NEW new \in Content, NEW key \in Keys, objs' = [objs EXCEPT ![key] = new]
        PROVE  objs'[own] # Nil
    BY <1>1, <1>3, <1>4, <1>5
  <1>6. ASSUME NEW key \in Keys, key.kind \notin {"role", "binding"},
               objs' = [objs EXCEPT ![key] = Nil]
        PROVE  objs'[own] # Nil
    BY <1>1, <1>4, <1>6
  <1>7. ASSUME NEW key \in Keys, NEW b \in BOOLEAN, objs[key] # Nil,
               objs' = [objs EXCEPT ![key].up = b]
        PROVE  objs'[own] # Nil
    <2>1. [objs[key] EXCEPT !.up = b] \in Content
      BY <1>4, <1>7 DEF Content
    <2>2. objs' = [objs EXCEPT ![key] = [objs[key] EXCEPT !.up = b]]
      BY <1>7
    <2> QED
      BY <1>5, <2>1, <2>2
  <1>8. Key(w.cr, w.comp, w.kind) \in Keys
    BY <1>2, KeyFacts
  <1> QED
    BY <1>1, <1>5, <1>6, <1>7, <1>8 DEF ObjectStep

\* A binding grants the rights to the account of a resource of its name.
BindingInv ==
  \A key \in Keys :
    key.kind = "binding" /\ objs[key] # Nil
      => objs[key].cr \in CR /\ key.owner = NameOf[objs[key].cr]

LEMMA BindingStep ==
  ASSUME TypeOK, BindingInv, ObjectStep
  PROVE  BindingInv'
  <1> SUFFICES ASSUME NEW key \in Keys, key.kind = "binding", objs'[key] # Nil
               PROVE  objs'[key].cr \in CR /\ key.owner = NameOf[objs'[key].cr]
    BY DEF BindingInv
  <1>1. /\ objs \in [Keys -> Content \cup {Nil}] /\ Nil \notin Content
        /\ w.cr \in CR /\ w.comp \in Comp /\ w.kind \in Kinds
    BY ConstantsAssumption DEF TypeOK, Worker
  <1>2. CASE objs'[key] = objs[key]
    BY <1>2 DEF BindingInv
  <1>3. ASSUME NEW new \in Content, w.kind = "binding" => new.cr = w.cr,
               objs' = [objs EXCEPT ![Key(w.cr, w.comp, w.kind)] = new],
               objs'[key] # objs[key]
        PROVE  objs'[key].cr \in CR /\ key.owner = NameOf[objs'[key].cr]
    <2>1. key = Key(w.cr, w.comp, w.kind) /\ objs'[key] = new
      BY <1>1, <1>3
    <2> QED
      BY <1>1, <1>3, <2>1, KeyFacts DEF ClusterScoped
  <1>4. ASSUME NEW k \in Keys, NEW b \in BOOLEAN, objs[k] # Nil,
               objs' = [objs EXCEPT ![k].up = b], objs'[key] # objs[key]
        PROVE  objs'[key].cr \in CR /\ key.owner = NameOf[objs'[key].cr]
    <2>1. key = k /\ objs[key] \in Content
      BY <1>1, <1>4
    <2>2. objs'[key].cr = objs[key].cr
      BY <1>1, <1>4, <2>1 DEF Content
    <2> QED
      BY <1>4, <2>1, <2>2 DEF BindingInv
  <1>5. ASSUME NEW k \in Keys, objs' = [objs EXCEPT ![k] = Nil] PROVE objs'[key] = objs[key]
    BY <1>1, <1>5
  <1> QED
    BY <1>2, <1>3, <1>4, <1>5 DEF ObjectStep

\* A binding that exists grants the rights to a resource of the name, and to cr if no
\* other has it.
BindingsGrant ==
  \A cr \in CR, c \in Comp : Present(cr, c, "binding") =>
    /\ \E sharer \in CR : /\ NameOf[sharer] = NameOf[cr]
                          /\ Grants(objs[Key(cr, c, "binding")], sharer)
    /\ NameIsOwn(cr) => Grants(objs[Key(cr, c, "binding")], cr)

LEMMA WhomBindingsGrant == BindingInv => BindingsGrant
  <1> SUFFICES ASSUME BindingInv, NEW cr \in CR, NEW c \in Comp, Present(cr, c, "binding")
               PROVE  /\ \E sharer \in CR : /\ NameOf[sharer] = NameOf[cr]
                                            /\ Grants(objs[Key(cr, c, "binding")], sharer)
                      /\ NameIsOwn(cr) => Grants(objs[Key(cr, c, "binding")], cr)
    BY DEF BindingsGrant
  <1> DEFINE binding == objs[Key(cr, c, "binding")]
  <1>1. /\ Key(cr, c, "binding") \in Keys /\ Key(cr, c, "binding").kind = "binding"
        /\ Key(cr, c, "binding").owner = NameOf[cr]
    BY KeyFacts DEF Kinds, ClusterScoped
  <1>2. binding # Nil /\ binding.cr \in CR /\ NameOf[binding.cr] = NameOf[cr]
    BY <1>1 DEF BindingInv, Present
  <1> QED
    BY <1>2 DEF Grants, NameIsOwn

\* A workload is made only when the worker has come to it.
LEMMA WorkloadMade ==
  ASSUME TypeOK, PassInv, ObjectStep, NEW cr \in CR, NEW c \in Comp,
         ~Present(cr, c, "work"), Present(cr, c, "work")'
  PROVE  Present(cr, c, "role") /\ Present(cr, c, "binding")
  <1> DEFINE own == Key(cr, c, "work")
  <1>1. own \in Keys /\ own.owner = cr /\ own.comp = c /\ own.kind = "work"
    BY KeyFacts DEF Kinds, ClusterScoped
  <1>2. w.cr \in CR /\ w.comp \in Comp /\ w.kind \in Kinds
    BY DEF TypeOK, Worker
  <1>3. objs[own] = Nil /\ objs'[own] # Nil
    BY DEF Present
  <1>4. objs \in [Keys -> Content \cup {Nil}]
    BY DEF TypeOK
  <1> HIDE DEF own
  <1>5. w.pc = "ensure" /\ own = Key(w.cr, w.comp, w.kind)
    BY <1>1, <1>3, <1>4 DEF ObjectStep
  <1>6. w.kind = "work" /\ w.comp = c /\ w.cr = cr
    BY <1>1, <1>2, <1>5, KeyFacts DEF ClusterScoped
  <1> QED
    BY <1>5, <1>6 DEF PassInv

\* The worker's progress stays true to what exists.
LEMMA PassInvStep ==
  ASSUME TypeOK, PassInv, RightsSafe, [Next]_vars
  PROVE  PassInv'
  <1>0. /\ w.cr \in CR /\ w.comp \in Comp /\ w.kind \in Kinds /\ w \in Worker
        /\ detected \in BOOLEAN
    BY ConstantsAssumption DEF TypeOK, Worker, Detections
  <1>1. ObjectStep
    BY ObjectSteps
  <1>2. ASSUME w' = w PROVE PassInv'
    BY <1>0, <1>1, <1>2, RightsStay DEF PassInv
  <1>3. ASSUME w'.pc \notin {"ensure", "clean"} PROVE PassInv'
    BY <1>3 DEF PassInv
  <1>4. ASSUME w' = Idle PROVE PassInv'
    BY <1>3, <1>4, IdleType
  <1>5. ASSUME NEW c \in Comp, w' = Begin(c) \/ w' = Leave(c) PROVE PassInv'
    <2>1. w'.pc = "ensure" => w'.kind = "sa"
      BY <1>0, <1>5, LeaveFacts
    <2>2. w'.pc = "clean" => w'.kind = "work"
      BY <1>0, <1>5, LeaveFacts
    <2>3. "sa" \in KindsOf(w'.comp)
      BY DEF KindsOf
    <2> QED
      BY <2>1, <2>2, <2>3 DEF PassInv
  <1>6. CASE Environment
    <2>1. ASSUME NEW cr \in CR, CreateResource(cr) \/ EditSpec(cr) \/ DeleteResource(cr)
          PROVE  PassInv'
      <3>1. \/ w' = w
            \/ w' = [w EXCEPT !.fresh = FALSE]
        BY <2>1 DEF CreateResource, EditSpec, DeleteResource, Written
      <3>2. w'.pc = w.pc /\ w'.kind = w.kind /\ w'.comp = w.comp /\ w'.cr = w.cr
        BY <1>0, <3>1 DEF Worker
      <3> QED
        BY <1>0, <1>1, <3>2, RightsStay DEF PassInv
    <2>2. CASE PlatformChanges \/ \E key \in Keys : GarbageCollect(key) \/ Drift(key)
                                                   \/ PodsReady(key) \/ PodsFail(key)
      BY <1>2, <2>2 DEF PlatformChanges, GarbageCollect, Drift, PodsReady, PodsFail
    <2> QED
      BY <1>6, <2>1, <2>2 DEF Environment
  <1>7. ASSUME NEW cr \in CR, TimerFires(cr) \/ StartFails(cr) PROVE PassInv'
    BY <1>2, <1>7 DEF TimerFires, StartFails
  <1>8. ASSUME NEW cr \in CR, Start(cr) PROVE PassInv'
    <2>1. w' = Idle \/ w'.pc = "gate"
      BY <1>8, IdleType DEF Start, Worker
    <2> QED
      BY <1>3, <1>4, <2>1
  <1>9. CASE PlatformGate
    <2>1. \/ w' = [Begin("container") EXCEPT !.conf = platform.conf]
          \/ w'.pc = "refuse"
      BY <1>0, <1>9, ConstantsAssumption DEF PlatformGate, Refuse, Worker, TypeOK
    <2>2. CASE w' = [Begin("container") EXCEPT !.conf = platform.conf]
      <3> DEFINE v == Begin("container")
      <3>1. v \in Worker /\ (v.pc = "ensure" => v.kind = "sa") /\ (v.pc = "clean" => v.kind = "work")
        BY <1>0, LeaveFacts DEF Comp
      <3>2. w' = [v EXCEPT !.conf = platform.conf]
        BY <2>2
      <3> HIDE DEF v
      <3>3. w'.pc = v.pc /\ w'.kind = v.kind /\ "sa" \in KindsOf(w'.comp)
        BY <3>1, <3>2 DEF Worker, KindsOf
      <3> QED
        BY <3>1, <3>3 DEF PassInv
    <2> QED
      BY <1>3, <2>1, <2>2
  <1>10. CASE RefuseStatus \/ updateComponentStatuses \/ Restart
    BY <1>4, <1>10 DEF RefuseStatus, updateComponentStatuses, Restart, EndAfterDelay, EndWithError
  <1>11. CASE Cleanup
    <2>1. w' \in {NextCleanup, Leave(w.comp)} /\ w.pc = "clean"
      BY <1>11 DEF Cleanup, NothingToDelete, LookupFails, DeleteObject
    <2>2. CASE w' = [w EXCEPT !.kind = "webhook"]
      <3>1. w'.kind = "webhook" /\ w'.pc = "clean"
        BY <1>0, <2>1, <2>2 DEF Worker
      <3> QED
        BY <3>1 DEF PassInv
    <2> QED
      BY <1>0, <1>5, <2>1, <2>2 DEF NextCleanup
  <1>12. CASE ReadComponentStatus
    <2>1. w'.pc \in {"write", "read"}
      BY <1>0, <1>12 DEF ReadComponentStatus, Worker
    <2> QED
      BY <1>3, <2>1
  <1>13. CASE RefusedByWebhook \/ BuildArgsPanics
    BY <1>4, <1>13 DEF RefusedByWebhook, BuildArgsPanics, EndAfterDelay, EndWithError
  <1>14. ASSUME NEW k \in Kinds, NEW new \in Upserts(k), Upsert(k, new) PROVE PassInv'
    <2>1. PICK o \in Outcomes :
            /\ objs' = IF o = "refused" THEN objs
                                        ELSE [objs EXCEPT ![Key(w.cr, w.comp, k)] = new]
            /\ AfterUpsert(o, k)
      BY <1>14 DEF Upsert
    <2>2. w.pc = "ensure" /\ w.kind = k
      BY <1>14 DEF Upsert
    <2>3. CASE w' = Idle
      BY <1>4, <2>3
    <2>4. CASE w' = Advance /\ (o = "ok" \/ k = "scc")
      <3>1. CASE Last(w.comp, k)
        BY <1>0, <1>5, <2>2, <2>4, <3>1 DEF Advance
      <3>2. CASE ~Last(w.comp, k)
        <4>1. w' = [w EXCEPT !.kind = After(w.comp, k)]
          BY <2>2, <2>4, <3>2 DEF Advance
        <4>2. /\ w'.pc = "ensure" /\ w'.comp = w.comp /\ w'.cr = w.cr
              /\ w'.kind = After(w.comp, k)
          BY <1>0, <2>2, <4>1 DEF Worker
        <4>3. k \in KindsOf(w.comp)
          BY <2>2 DEF PassInv
        <4>4. /\ After(w.comp, k) \in KindsOf(w.comp)
              /\ After(w.comp, k) \notin {"sa", "role"} => k # "sa"
              /\ After(w.comp, k) \notin {"sa", "role", "binding"} => k \notin {"sa", "role"}
          BY <1>0, <3>2, <4>3, AfterFacts
        <4>5. k \in {"role", "binding"} => Present(w.cr, w.comp, k)'
          <5> SUFFICES ASSUME k \in {"role", "binding"} PROVE Present(w.cr, w.comp, k)'
            OBVIOUS
          <5>1. o = "ok"
            BY <2>4
          <5>2. Key(w.cr, w.comp, k) \in Keys
            BY <1>0, KeyFacts
          <5>3. objs' = [objs EXCEPT ![Key(w.cr, w.comp, k)] = new] /\ new \in Content
            BY <2>1, <5>1, BuiltFacts DEF Upserts
          <5>4. objs'[Key(w.cr, w.comp, k)] = new /\ new # Nil
            BY <5>2, <5>3, ConstantsAssumption DEF TypeOK
          <5>5. Key(w'.cr, w'.comp, k) = Key(w.cr, w.comp, k)
            BY <4>2
          <5> QED
            BY <4>2, <5>4, <5>5 DEF Present
        <4>6. k \notin {"sa", "role"} => Present(w.cr, w.comp, "role")'
          BY <1>0, <1>1, <2>2, <4>2, RightsStay DEF PassInv, Present
        <4>7. k \notin {"sa", "role", "binding"} => Present(w.cr, w.comp, "binding")'
          BY <1>0, <1>1, <2>2, <4>2, RightsStay DEF PassInv, Present
        <4> QED
          BY <4>2, <4>4, <4>5, <4>6, <4>7 DEF PassInv, Present
      <3> QED
        BY <3>1, <3>2
    <2> QED
      BY <2>1, <2>3, <2>4 DEF AfterUpsert, EndAfterDelay
  <1> QED
    BY <1>2, <1>6, <1>7, <1>8, <1>9, <1>10, <1>11, <1>12, <1>13, <1>14, EnsureCases
       DEF Next, Pass, vars

\* If outsiders leave cluster roles and bindings alone, a workload never exists
\* without its role, nor without a binding that grants it to the account next to the
\* workload, in whatever order passes, crashes, lost replies and deletions
\* interleave.  Where resources of several namespaces share a name, the binding
\* stays, and grants the role to one of them.
THEOREM RightsComeFirst ==
  ASSUME RightsSafe
  PROVE  Spec => []RightsBeforeWorkload
  <1> DEFINE Inv == TypeOK /\ CopyInv /\ PassInv /\ BindingInv /\ RightsBeforeWorkload
  <1>1. Init => Inv
    <2>1. Init => BindingInv
      BY DEF Init, BindingInv
    <2> QED
      BY <2>1, InitEstablishes
  <1>2. Inv /\ [Next]_vars => Inv'
    <2> SUFFICES ASSUME Inv, [Next]_vars PROVE Inv'
      OBVIOUS
    <2>1. TypeOK' /\ CopyInv'
      BY TypeStep
    <2>2. PassInv' /\ ObjectStep
      BY PassInvStep, ObjectSteps
    <2>3. BindingInv'
      BY <2>2, BindingStep
    <2>4. ASSUME NEW cr \in CR, NEW c \in Comp, Present(cr, c, "work")'
          PROVE  Present(cr, c, "role")' /\ Present(cr, c, "binding")'
      <3>1. Present(cr, c, "role") /\ Present(cr, c, "binding")
        BY <2>2, <2>4, WorkloadMade DEF RightsBeforeWorkload, Grants, Present
      <3> QED
        BY <2>2, <3>1, RightsStay
    <2>5. BindingsGrant'
      BY <2>3, WhomBindingsGrant, PTL
    <2>6. RightsBeforeWorkload'
      BY <2>4, <2>5 DEF RightsBeforeWorkload, BindingsGrant
    <2> QED
      BY <2>1, <2>2, <2>3, <2>6
  <1> QED
    BY <1>1, <1>2, PTL DEF Spec
=============================================================================
