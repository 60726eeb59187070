---------------------------- MODULE StabilityProofs ----------------------------
(***************************************************************************)
(* What a pass makes has the content its copy asks for, and what has       *)
(* converged stays as it is.                                               *)
(*                                                                         *)
(* DeploymentProofs follows which objects exist; here it is what they      *)
(* hold: the template, the owner and the failure policy.  EnsureEffect is  *)
(* all that the reconcileX functions do to the objects, and the three      *)
(* properties follow from it, from what the users and Kubernetes can not   *)
(* do to an object of somebody else, and from where the worker stands.     *)
(***************************************************************************)
EXTENDS DeploymentProofs

-----------------------------------------------------------------------------
(***************************** What one step makes *************************)

\* The object at the worker's place, if it is stored, has this content.
Suits(new) ==
  /\ new \in Content
  /\ w.kind \notin ClusterScoped =>
       new.uid = w.uid \/ (Existing(w.kind) # Nil /\ new.uid = Existing(w.kind).uid)
  /\ w.kind = "webhook" => new.fail = w.spec.fail
  /\ w.kind = "cm" \/ (w.kind = "work" /\ w.comp \in {"admission", "runtime"})
       => new.tpl = Tpl(w.kind)
  /\ w.kind = "work" /\ w.comp = "container" => new.tpl.env = w.spec.env

\* The pass ends without a write, passes over an SCC, or stores what suits.
EnsureEffect ==
  \/ w' = Idle /\ objs' = objs
  \/ w' = Advance /\ w.kind = "scc" /\ objs' = objs
  \/ /\ w' \in {Idle, Advance}
     /\ \E new : Suits(new) /\ objs' = [objs EXCEPT ![Key(w.cr, w.comp, w.kind)] = new]

\* What the builders make and what the upserts keep suits.
LEMMA SuitsFacts ==
  ASSUME TypeOK
  PROVE  /\ Suits(Fresh(w.kind))
         /\ Existing(w.kind) # Nil =>
              /\ w.kind \in {"sa", "svc"} => Suits(Existing(w.kind))
              /\ w.kind \in {"cm", "work"}
                   => Suits([Existing(w.kind) EXCEPT !.tpl = Tpl(w.kind)])
              /\ /\ w.kind = "work"
                 /\ \/ w.comp = "cluster"
                    \/ w.comp = "container" /\ Existing(w.kind).tpl.env = w.spec.env
                 => Suits(Existing(w.kind))
  <1>0. w.kind \in Kinds /\ w.comp \in Comp
    BY DEF TypeOK, Worker
  <1>1. /\ Fresh(w.kind) \in Content /\ Existing(w.kind) \in Content \cup {Nil}
        /\ Existing(w.kind) # Nil => [Existing(w.kind) EXCEPT !.tpl = Tpl(w.kind)] \in Content
    BY <1>0, BuiltFacts
  <1>2. /\ w.kind \notin ClusterScoped => Fresh(w.kind).uid = w.uid
        /\ w.kind = "webhook" => Fresh(w.kind).fail = w.spec.fail
        /\ Fresh(w.kind).tpl = Tpl(w.kind)
    <2>1. w.spec.fail \in BOOLEAN
      BY ConstantsAssumption DEF TypeOK, Worker
    <2> QED
      BY <2>1 DEF Fresh
  <1>3. w.kind = "work" => Tpl(w.kind).env = w.spec.env
    BY DEF Tpl
  <1>4. Suits(Fresh(w.kind))
    BY <1>1, <1>2, <1>3 DEF Suits
  <1>5. ASSUME Existing(w.kind) # Nil, w.kind \in {"cm", "work"}
        PROVE  Suits([Existing(w.kind) EXCEPT !.tpl = Tpl(w.kind)])
    <2> DEFINE old == Existing(w.kind)
               new == [old EXCEPT !.tpl = Tpl(w.kind)]
    <2>1. new.tpl = Tpl(w.kind) /\ new.uid = old.uid /\ new \in Content
      BY <1>1, <1>5 DEF Content
    <2>2. Suits(new)
      <3> HIDE DEF new, old
      <3>1. old = Existing(w.kind)
        BY DEF old
      <3> QED
        BY <1>3, <1>5, <2>1, <3>1 DEF Suits
    <2> QED
      BY <2>2
  <1>6. ASSUME Existing(w.kind) # Nil,
               \/ w.kind \in {"sa", "svc"}
               \/ /\ w.kind = "work"
                  /\ \/ w.comp = "cluster"
                     \/ w.comp = "container" /\ Existing(w.kind).tpl.env = w.spec.env
        PROVE  Suits(Existing(w.kind))
    BY <1>1, <1>6 DEF Suits
  <1> QED
    BY <1>4, <1>5, <1>6

\* An upsert of an object that suits.
LEMMA UpsertEffect ==
  ASSUME NEW k, NEW new, Suits(new), Upsert(k, new)
  PROVE  EnsureEffect
  <1>1. PICK o \in Outcomes :
          /\ objs' = IF o = "refused" THEN objs ELSE [objs EXCEPT ![Key(w.cr, w.comp, k)] = new]
          /\ AfterUpsert(o, k)
    BY DEF Upsert
  <1>2. w.kind = k
    BY DEF Upsert
  <1> QED
    BY <1>1, <1>2 DEF EnsureEffect, AfterUpsert, EndAfterDelay

\* All that the reconcileX functions do to the objects.
LEMMA EnsureMakes ==
  ASSUME TypeOK, Ensure
  PROVE  EnsureEffect /\ w.pc = "ensure"
  <1> SUFFICES EnsureEffect
    BY EnsureObjects
  <1>1. CASE RefusedByWebhook \/ BuildArgsPanics
    BY <1>1 DEF RefusedByWebhook, BuildArgsPanics, EndAfterDelay, EndWithError, EnsureEffect,
                cluster
  <1>2. ASSUME NEW k, k \in {"sa", "svc"},
               Upsert(k, IF Existing(k) = Nil THEN Fresh(k) ELSE Existing(k))
        PROVE  EnsureEffect
    <2>1. w.kind = k
      BY <1>2 DEF Upsert
    <2>2. Suits(IF Existing(k) = Nil THEN Fresh(k) ELSE Existing(k))
      BY <1>2, <2>1, SuitsFacts
    <2> QED
      BY <1>2, <2>2, UpsertEffect
  <1>3. ASSUME NEW k, Upsert(k, Fresh(k)) PROVE EnsureEffect
    <2>1. w.kind = k
      BY <1>3 DEF Upsert
    <2> QED
      BY <1>3, <2>1, SuitsFacts, UpsertEffect
  <1>4. CASE reconcileContainerSensorConfigMap
    <2> DEFINE new == IF Existing("cm") = Nil THEN Fresh("cm")
                                              ELSE [Existing("cm") EXCEPT !.tpl = Tpl("cm")]
    <2>1. Upsert("cm", new)
      BY <1>4 DEF reconcileContainerSensorConfigMap
    <2>2. w.kind = "cm"
      BY <2>1 DEF Upsert
    <2>3. Suits(new)
      BY <2>2, SuitsFacts
    <2> HIDE DEF new
    <2> QED
      BY <2>1, <2>3, UpsertEffect
  <1>5. ASSUME NEW c, NEW sent, NEW new, Workload(c, sent, new),
               w.comp = c /\ w.kind = "work" => Suits(new)
        PROVE  EnsureEffect
    <2>1. CASE sent /\ Blocked
      BY <1>5, <2>1 DEF Workload, EndAfterDelay, EnsureEffect, cluster
    <2>2. CASE ~(sent /\ Blocked)
      <3>1. Upsert("work", new) /\ w.comp = c
        BY <1>5, <2>2 DEF Workload
      <3>2. w.kind = "work"
        BY <3>1 DEF Upsert
      <3> QED
        BY <1>5, <3>1, <3>2, UpsertEffect
    <2> QED
      BY <2>1, <2>2
  <1>6. CASE reconcileContainerSensorDaemonSet
    <2> DEFINE differs == Existing("work") = Nil \/ Existing("work").tpl.env # w.spec.env
               new == IF differs THEN Rebuilt ELSE Existing("work")
    <2>1. Workload("container", differs, new)
      BY <1>6 DEF reconcileContainerSensorDaemonSet
    <2>2. w.comp = "container" /\ w.kind = "work" => Suits(new)
      BY SuitsFacts DEF Rebuilt
    <2> HIDE DEF new, differs
    <2> QED
      BY <1>5, <2>1, <2>2
  <1>7. CASE reconcileClusterSensorDeployment
    <2> DEFINE absent == Existing("work") = Nil
               new == IF absent THEN Fresh("work") ELSE Existing("work")
    <2>1. Workload("cluster", absent, new)
      BY <1>7 DEF reconcileClusterSensorDeployment
    <2>2. w.comp = "cluster" /\ w.kind = "work" => Suits(new)
      BY SuitsFacts
    <2> HIDE DEF new, absent
    <2> QED
      BY <1>5, <2>1, <2>2
  <1>8. CASE reconcileAdmissionDeployment \/ reconcileRuntimeSensorDaemonSet
    <2>1. PICK c : Workload(c, TRUE, Rebuilt)
      BY <1>8 DEF reconcileAdmissionDeployment, reconcileRuntimeSensorDaemonSet
    <2>2. w.comp = c /\ w.kind = "work" => Suits(Rebuilt)
      BY SuitsFacts DEF Rebuilt
    <2> QED
      BY <1>5, <2>1, <2>2
  <1> QED
    BY <1>1, <1>2, <1>3, <1>4, <1>6, <1>7, <1>8
    DEF Ensure, reconcileServiceAccount, reconcileAdmissionService, reconcileClusterRole,
        reconcileClusterRoleBinding, reconcileSCC, reconcileValidatingWebhook

-----------------------------------------------------------------------------
(***************************** What becomes of one object ******************)

\* Nothing but the pods' state has changed.
SameObject(key) ==
  /\ objs'[key] = Nil <=> objs[key] = Nil
  /\ objs[key] # Nil => /\ objs'[key].uid = objs[key].uid /\ objs'[key].tpl = objs[key].tpl
                        /\ objs'[key].fail = objs[key].fail

Collected(key) == objs[key] # Nil /\ key.kind \notin ClusterScoped /\ ~Live(key) /\ objs'[key] = Nil

\* The worker, with cr in hand, is at this object and stores what suits, or deletes it.
Upserted(cr, c, k) == /\ Busy(cr) /\ w.pc = "ensure" /\ w.comp = c /\ w.kind = k
                      /\ Suits(objs'[Key(cr, c, k)])
CleanedUp(cr, c, k) == /\ Busy(cr) /\ w.pc = "clean" /\ w.comp = c /\ w.kind = k
                       /\ objs'[Key(cr, c, k)] = Nil

\* Users and Kubernetes change pods, or collect what belongs to nobody.
LEMMA EnvironmentFate ==
  ASSUME TypeOK, DriftKinds = {}, Environment, NEW own \in Keys
  PROVE  SameObject(own) \/ Collected(own)
  <1>1. objs \in [Keys -> Content \cup {Nil}] /\ Nil \notin Content
    BY ConstantsAssumption DEF TypeOK
  <1>2. ASSUME objs' = objs PROVE SameObject(own)
    BY <1>2 DEF SameObject
  <1>3. ASSUME NEW key \in Keys, GarbageCollect(key) PROVE SameObject(own) \/ Collected(own)
    BY <1>1, <1>3 DEF GarbageCollect, SameObject, Collected
  <1>4. ASSUME NEW key \in Keys, Drift(key) PROVE FALSE
    BY <1>4 DEF Drift
  <1>5. ASSUME NEW key \in Keys, PodsReady(key) \/ PodsFail(key) PROVE SameObject(own)
    <2>1. PICK b \in BOOLEAN : objs[key] # Nil /\ objs' = [objs EXCEPT ![key].up = b]
      BY <1>5 DEF PodsReady, PodsFail
    <2> DEFINE new == [objs[key] EXCEPT !.up = b]
    <2>2. /\ new \in Content /\ new.uid = objs[key].uid /\ new.tpl = objs[key].tpl
          /\ new.fail = objs[key].fail
      BY <1>1, <2>1 DEF Content
    <2>3. objs' = [objs EXCEPT ![key] = new]
      BY <2>1
    <2> HIDE DEF new
    <2> QED
      BY <1>1, <2>1, <2>2, <2>3 DEF SameObject
  <1>6. ASSUME NEW d \in CR, CreateResource(d) \/ EditSpec(d) \/ DeleteResource(d)
        PROVE  objs' = objs
    BY <1>6 DEF CreateResource, EditSpec, DeleteResource, Written
  <1>7. ASSUME PlatformChanges PROVE objs' = objs
    BY <1>7 DEF PlatformChanges, cluster
  <1> QED
    BY <1>2, <1>3, <1>4, <1>5, <1>6, <1>7 DEF Environment

\* Four things can happen to an object of a resource whose name is its own.
LEMMA ObjectFate ==
  ASSUME TypeOK, PassInv, DriftKinds = {}, [Next]_vars,
         NEW cr \in CR, NameIsOwn(cr), NEW c \in Comp, NEW k \in Kinds
  PROVE  \/ SameObject(Key(cr, c, k)) \/ Collected(Key(cr, c, k))
         \/ Upserted(cr, c, k) \/ CleanedUp(cr, c, k)
  <1> DEFINE own == Key(cr, c, k)
             at == Key(w.cr, w.comp, w.kind)
             Goal == \/ SameObject(own) \/ Collected(own)
                     \/ Upserted(cr, c, k) \/ CleanedUp(cr, c, k)
  <1>0. /\ w.cr \in CR /\ w.comp \in Comp /\ w.kind \in Kinds
        /\ objs \in [Keys -> Content \cup {Nil}]
        /\ own \in Keys /\ at \in Keys
    BY KeyFacts DEF TypeOK, Worker
  <1>1. own = at => w.cr = cr /\ w.comp = c /\ w.kind = k
    BY <1>0, KeyIsOwn
  <1>2. ASSUME objs' = objs PROVE Goal
    BY <1>2 DEF SameObject
  <1>3. ASSUME NEW new, objs' = [objs EXCEPT ![at] = new], own # at PROVE Goal
    <2> SUFFICES objs'[own] = objs[own]
      BY DEF SameObject
    <2> HIDE DEF own, at
    <2> QED
      BY <1>0, <1>3
  <1>4. ASSUME NEW new, objs' = [objs EXCEPT ![at] = new], own = at PROVE objs'[own] = new
    <2> HIDE DEF own, at
    <2> QED
      BY <1>0, <1>4
  <1>5. CASE Environment
    BY <1>0, <1>5, EnvironmentFate
  <1>6. CASE Ensure
    <2>1. w.pc = "ensure" /\ EnsureEffect
      BY <1>6, EnsureMakes
    <2>2. ASSUME NEW new, Suits(new), objs' = [objs EXCEPT ![at] = new] PROVE Goal
      <3>1. CASE own # at
        BY <1>3, <2>2, <3>1
      <3>2. CASE own = at
        <4>1. Busy(cr) /\ w.comp = c /\ w.kind = k /\ objs'[own] = new
          BY <1>1, <1>4, <2>1, <2>2, <3>2 DEF Busy
        <4> QED
          BY <2>1, <2>2, <4>1 DEF Upserted
      <3> QED
        BY <3>1, <3>2
    <2> QED
      BY <1>2, <2>1, <2>2 DEF EnsureEffect
  <1>7. CASE Cleanup
    <2>1. w.pc = "clean" /\ Target = at
      BY <1>7 DEF Cleanup, Target
    <2>2. objs' = objs \/ objs' = [objs EXCEPT ![at] = Nil]
      BY <1>7, <2>1 DEF Cleanup, NothingToDelete, LookupFails, DeleteObject
    <2>3. CASE objs' = [objs EXCEPT ![at] = Nil]
      <3>1. CASE own # at
        BY <1>3, <2>3, <3>1
      <3>2. CASE own = at
        BY <1>1, <1>4, <2>1, <2>3, <3>2 DEF CleanedUp, Busy
      <3> QED
        BY <3>1, <3>2
    <2> QED
      BY <1>2, <2>2, <2>3
  <1>8. ASSUME NEW d \in CR, TimerFires(d) \/ Start(d) \/ StartFails(d) PROVE objs' = objs
    BY <1>8 DEF TimerFires, Start, StartFails, cluster
  <1>9. ASSUME Restart \/ PlatformGate \/ RefuseStatus \/ ReadComponentStatus
                 \/ updateComponentStatuses \/ UNCHANGED vars
        PROVE  objs' = objs
    BY <1>9 DEF Restart, PlatformGate, RefuseStatus, ReadComponentStatus,
                updateComponentStatuses, cluster, vars
  <1> QED
    BY <1>2, <1>5, <1>6, <1>7, <1>8, <1>9 DEF Next, Pass

\* The collector takes nothing from a resource that was created once and exists.
LEMMA NeverCollected ==
  ASSUME TypeOK, UidInv, NEW cr \in CR, Original(cr), NEW c \in Comp, NEW k \in Kinds
  PROVE  ~Collected(Key(cr, c, k))
  <1> DEFINE key == Key(cr, c, k)
  <1> SUFFICES ASSUME Collected(key) PROVE FALSE
    OBVIOUS
  <1>1. key \in Keys /\ k \notin ClusterScoped /\ key.owner = cr /\ objs[key] # Nil
    BY KeyFacts DEF Collected
  <1>2. objs[key].uid # 0 /\ objs[key].uid <= uids[cr] /\ objs[key].uid \in Nat
    BY <1>1, KeyFacts, ConstantsAssumption DEF UidInv, TypeOK, Content
  <1>3. objs[key].uid = 1
    BY <1>2 DEF Original
  <1> QED
    BY <1>1, <1>3 DEF Collected, Live, Original

-----------------------------------------------------------------------------
(***************************** Once converged, always converged ************)

\* The settings of a pass are those an open gate has read.
LEMMA ConfKept ==
  ASSUME TypeOK, [Next]_vars, w'.pc \in {"ensure", "clean"}
  PROVE  \/ w.pc \in {"ensure", "clean"} /\ w'.conf = w.conf
         \/ platform.state = "ready" /\ w'.conf = platform.conf
  <1> DEFINE Kept == w.pc \in {"ensure", "clean"} /\ w'.conf = w.conf
  <1>0. w \in Worker /\ w.comp \in Comp
    BY DEF TypeOK, Worker
  <1>1. ASSUME w' = w \/ w' = [w EXCEPT !.fresh = FALSE] PROVE Kept
    BY <1>0, <1>1 DEF Worker
  <1>2. ASSUME w' = Idle PROVE FALSE
    BY <1>2, IdleType
  <1>3. CASE Environment
    BY <1>1, <1>3 DEF Environment, CreateResource, EditSpec, DeleteResource, Written,
                      PlatformChanges, GarbageCollect, Drift, PodsReady, PodsFail
  <1>4. ASSUME NEW cr \in CR, TimerFires(cr) \/ StartFails(cr) PROVE Kept
    BY <1>1, <1>4 DEF TimerFires, StartFails
  <1>5. ASSUME NEW cr \in CR, Start(cr) PROVE FALSE
    <2>1. crs[cr] = Nil \/ w'.pc = "gate"
      BY <1>5, IdleType DEF Start, Worker
    <2> QED
      BY <1>2, <1>5, <2>1 DEF Start
  <1>6. CASE PlatformGate
    <2> DEFINE v == Begin("container")
    <2>1. \/ platform.state = "ready" /\ w' = [v EXCEPT !.conf = platform.conf]
          \/ \E r : w' = [w EXCEPT !.pc = "refuse", !.reason = r]
      BY <1>6, ConstantsAssumption DEF TypeOK, PlatformGate, Refuse
    <2>2. v \in Worker
      BY <1>0, LeaveFacts DEF Comp
    <2> HIDE DEF v
    <2>3. platform.state = "ready" /\ w' = [v EXCEPT !.conf = platform.conf]
      BY <1>0, <2>1 DEF Worker
    <2> QED
      BY <2>2, <2>3 DEF Worker
  <1>7. ASSUME NEW d \in Comp PROVE Begin(d).conf = w.conf /\ Leave(d).conf = w.conf
    <2>1. \A e : Begin(e).conf = w.conf
      BY <1>0 DEF Begin, Worker
    <2> QED
      BY <1>0, <2>1 DEF Leave, Worker
  <1>8. CASE Ensure
    <2>1. w.pc = "ensure" /\ w' \in {Idle, Advance}
      BY <1>8, EnsureMakes DEF EnsureEffect
    <2>2. Advance.conf = w.conf
      BY <1>0, <1>7 DEF Advance, Worker
    <2> QED
      BY <1>2, <2>1, <2>2
  <1>9. CASE Cleanup
    <2>1. w.pc = "clean" /\ w' \in {NextCleanup, Leave(w.comp)}
      BY <1>9 DEF Cleanup, NothingToDelete, LookupFails, DeleteObject
    <2>2. NextCleanup.conf = w.conf
      BY <1>0, <1>7 DEF NextCleanup, Worker
    <2> QED
      BY <1>0, <1>7, <2>1, <2>2
  <1>10. ASSUME RefuseStatus \/ updateComponentStatuses \/ Restart PROVE FALSE
    BY <1>2, <1>10 DEF RefuseStatus, updateComponentStatuses, Restart, EndAfterDelay,
                       EndWithError
  <1>11. ASSUME ReadComponentStatus PROVE FALSE
    BY <1>0, <1>11 DEF ReadComponentStatus, Worker
  <1> QED
    BY <1>1, <1>3, <1>4, <1>5, <1>6, <1>8, <1>9, <1>10, <1>11 DEF Next, Pass, vars

\* No pass over an older cr, or with older settings, is under way.
NoOlderPass(cr) ==
  Busy(cr) => /\ w.uid = uids[cr] /\ w.spec = crs[cr].spec
              /\ w.pc \in {"ensure", "clean"} => w.conf = platform.conf

\* What Settled says of one object.
InPlace(cr, c, k) ==
  LET own == objs[Key(cr, c, k)]
      on  == c \in crs[cr].spec.on
  IN
  /\ on /\ k \in KindsOf(c) /\ (k = "scc" => detected) => own # Nil
  /\ on /\ k = "work" /\ c \in {"admission", "runtime"} => own.tpl = Wanted(cr)
  /\ on /\ k = "webhook" /\ c = "admission" => own.fail = crs[cr].spec.fail
  /\ ~on /\ (k = "work" \/ (k = "webhook" /\ c = "admission")) => own = Nil
  /\ k \notin ClusterScoped /\ own # Nil => own.uid = uids[cr]

LEMMA SettledMeans ==
  ASSUME TypeOK, NEW cr \in CR, Settled(cr)
  PROVE  /\ crs[cr] # Nil /\ NoOlderPass(cr)
         /\ \A c \in Comp, k \in Kinds : InPlace(cr, c, k)
  <1>1. crs[cr] # Nil /\ NoOlderPass(cr)
    BY DEF Settled, Deployed, NoOlderPass, Busy
  <1>2. ASSUME NEW c \in Comp, NEW k \in Kinds PROVE InPlace(cr, c, k)
    BY <1>2 DEF Settled, Deployed, InPlace, Present, KindsOf
  <1> QED
    BY <1>1, <1>2

LEMMA SettledHolds ==
  ASSUME TypeOK', NEW cr \in CR, crs'[cr] # Nil, NoOlderPass(cr)',
         \A c \in Comp, k \in Kinds : InPlace(cr, c, k)'
  PROVE  Settled(cr)'
  <1>1. crs'[cr].spec.on \subseteq Comp
    BY ConstantsAssumption DEF TypeOK, Resource
  <1>2. /\ "work" \in Kinds /\ "webhook" \in Kinds /\ "scc" \in Kinds /\ "admission" \in Comp
        /\ \A c \in Comp : KindsOf(c) \subseteq Kinds
        /\ \A c \in Comp : c # "admission" => "scc" \in KindsOf(c)
        /\ \A c \in Comp : "work" \in KindsOf(c)
    BY DEF Comp, Kinds, KindsOf
  <1>3. ASSUME NEW c \in crs'[cr].spec.on
        PROVE  /\ \A k \in KindsOf(c) \ {"scc"} : Present(cr, c, k)'
               /\ detected' /\ c # "admission" => Present(cr, c, "scc")'
               /\ c \in {"admission", "runtime"} => objs'[Key(cr, c, "work")].tpl = Wanted(cr)'
    BY <1>1, <1>2, <1>3 DEF InPlace, Present
  <1>4. \A c \in Comp \ crs'[cr].spec.on : ~Present(cr, c, "work")'
    BY <1>2 DEF InPlace, Present
  <1>5. IF "admission" \in crs'[cr].spec.on
          THEN objs'[Key(cr, "admission", "webhook")].fail = crs'[cr].spec.fail
          ELSE ~Present(cr, "admission", "webhook")'
    BY <1>2 DEF InPlace, Present
  <1>6. Deployed(cr)'
    BY <1>3, <1>4, <1>5 DEF Deployed
  <1>7. \A c \in Comp, k \in Kinds \ ClusterScoped :
          Present(cr, c, k)' => objs'[Key(cr, c, k)].uid = uids'[cr]
    BY DEF InPlace, Present
  <1> QED
    BY <1>6, <1>7 DEF Settled, NoOlderPass, Busy

\* What happens to an object in its place leaves it there.
LEMMA PlaceKept ==
  ASSUME TypeOK, PassInv, PathInv, DriftKinds = {}, [Next]_vars,
         NEW cr \in CR, NameIsOwn(cr), NoOlderPass(cr), crs[cr] # Nil,
         NEW c \in Comp, NEW k \in Kinds, InPlace(cr, c, k),
         crs'[cr].spec = crs[cr].spec, uids'[cr] = uids[cr],
         platform'.conf = platform.conf, detected' = detected
  PROVE  InPlace(cr, c, k)'
  <1> DEFINE key == Key(cr, c, k)
  <1>0. Wanted(cr)' = Wanted(cr) /\ Nil \notin Content
    BY ConstantsAssumption DEF Wanted
  <1>1. CASE SameObject(key)
    BY <1>0, <1>1 DEF SameObject, InPlace
  <1>2. ~Collected(key)
    <2>1. key.kind = k /\ (k \notin ClusterScoped => key.owner = cr)
      BY KeyFacts
    <2> QED
      BY <2>1 DEF Collected, Live, InPlace
  <1>3. CASE Upserted(cr, c, k)
    <2>1. /\ w.cr = cr /\ w.comp = c /\ w.kind = k /\ w.pc = "ensure" /\ Suits(objs'[key])
          /\ w.uid = uids[cr] /\ w.spec = crs[cr].spec /\ w.conf = platform.conf
      BY <1>3 DEF Upserted, NoOlderPass, Busy
    <2>2. c \in crs[cr].spec.on
      BY <2>1 DEF PathInv
    <2>3. Existing(k) = objs[key]
      BY <2>1 DEF Existing
    <2>4. k = "work" => Tpl(k) = Wanted(cr)
      BY <2>1 DEF Tpl, Wanted
    <2> DEFINE new == objs'[key]
    <2>5. /\ new # Nil
          /\ k \notin ClusterScoped => new.uid = uids[cr]
          /\ k = "webhook" => new.fail = crs[cr].spec.fail
          /\ k = "work" /\ c \in {"admission", "runtime"} => new.tpl = Wanted(cr)
      <3> HIDE DEF new
      <3>1. Suits(new)
        BY <2>1 DEF new
      <3>2. objs[key] # Nil /\ k \notin ClusterScoped => objs[key].uid = uids[cr]
        BY DEF InPlace
      <3> QED
        BY <1>0, <2>1, <2>3, <2>4, <3>1, <3>2 DEF Suits
    <2> QED
      BY <1>0, <2>2, <2>5 DEF InPlace
  <1>4. CASE CleanedUp(cr, c, k)
    <2>1. c \notin crs[cr].spec.on /\ objs'[key] = Nil
      BY <1>4 DEF CleanedUp, Busy, NoOlderPass, PathInv
    <2> QED
      BY <2>1 DEF InPlace
  <1> QED
    BY <1>1, <1>2, <1>3, <1>4, ObjectFate

\* A pass under way goes on, or a new one reads what is stored.
LEMMA NoOlderKept ==
  ASSUME TypeOK, PassInv, [Next]_vars, NEW cr \in CR, NoOlderPass(cr),
         crs'[cr].spec = crs[cr].spec, uids'[cr] = uids[cr], platform'.conf = platform.conf
  PROVE  NoOlderPass(cr)'
  <1> SUFFICES ASSUME Busy(cr)'
               PROVE  /\ w'.uid = uids[cr] /\ w'.spec = crs[cr].spec
                      /\ w'.pc \in {"ensure", "clean"} => w'.conf = platform.conf
    BY DEF NoOlderPass
  <1>1. CASE Busy(cr) /\ SameCopy(w')
    <2>1. w'.uid = uids[cr] /\ w'.spec = crs[cr].spec
      BY <1>1 DEF SameCopy, NoOlderPass
    <2>2. w'.pc \in {"ensure", "clean"} => w'.conf = platform.conf
      BY <1>1, ConfKept DEF NoOlderPass
    <2> QED
      BY <2>1, <2>2
  <1>2. CASE w'.pc = "gate" /\ w'.uid = uids[cr] /\ w'.spec = crs[cr].spec
    BY <1>2
  <1> QED
    BY <1>1, <1>2, CopyKept

\* No step takes apart what has converged.
LEMMA SettledStep ==
  ASSUME TypeOK, TypeOK', CopyInv, PassInv, PathInv, DriftKinds = {}, [Next]_vars,
         NEW cr \in CR, Settled(cr), NameIsOwn(cr),
         crs'[cr] # Nil, crs'[cr].spec = crs[cr].spec,
         platform'.conf = platform.conf, detected' = detected
  PROVE  Settled(cr)'
  <1>1. /\ crs[cr] # Nil /\ NoOlderPass(cr)
        /\ \A c \in Comp, k \in Kinds : InPlace(cr, c, k)
    BY SettledMeans
  <1>2. uids'[cr] = uids[cr]
    BY <1>1, ResourceStep, Zenon DEF Untouched, Created, Edited, Deleted, Refused, Judged
  <1>3. NoOlderPass(cr)'
    BY <1>1, <1>2, NoOlderKept
  <1>4. \A c \in Comp, k \in Kinds : InPlace(cr, c, k)'
    BY <1>1, <1>2, PlaceKept
  <1> QED
    BY <1>3, <1>4, SettledHolds

\* Once converged, always converged: no pass, crash, lost reply, closed gate, failing
\* pod or other resource takes apart what a resource asks for, as long as its spec,
\* the settings and its objects are left alone.
THEOREM ConvergedStays == Spec => StaysSettled
  <1> DEFINE Step(cr) ==
        /\ Settled(cr) /\ NameIsOwn(cr) /\ DriftKinds = {}
        /\ crs'[cr] # Nil /\ crs'[cr].spec = crs[cr].spec
        /\ platform'.conf = platform.conf /\ detected' = detected
        => Settled(cr)'
  <1>1. CASE DriftKinds = {}
    <2>1. PassesInv /\ PassesInv' /\ [Next]_vars => [\A cr \in CR : Step(cr)]_vars
      BY <1>1, SettledStep DEF PassesInv
    <2>2. Spec => []PassesInv
      BY <1>1, PassesKeep
    <2> QED
      BY <2>1, <2>2, PTL DEF Spec, StaysSettled
  <1>2. CASE DriftKinds # {}
    <2>1. [\A cr \in CR : Step(cr)]_vars
      BY <1>2
    <2> QED
      BY <2>1, PTL DEF StaysSettled
  <1> QED
    BY <1>1, <1>2

-----------------------------------------------------------------------------
(***************************** A webhook and its backend *******************)

\* A name that is nobody else's has no objects before its resource is created.
NothingYet ==
  \A cr \in CR : NameIsOwn(cr) /\ uids[cr] = 0
    => \A c \in Comp, k \in Kinds : ~Present(cr, c, k)

\* Nothing is made for a resource before it is created.
LEMMA NothingMade ==
  ASSUME PassesInv, DriftKinds = {}, [Next]_vars, NEW cr \in CR, NameIsOwn(cr), uids[cr] = 0,
         NEW c \in Comp, NEW k \in Kinds, ~Present(cr, c, k)
  PROVE  ~Present(cr, c, k)'
  <1>1. ~Busy(cr)
    BY ConstantsAssumption DEF PassesInv, UidInv, Busy, TypeOK, Worker
  <1>2. ~Upserted(cr, c, k)
    BY <1>1 DEF Upserted
  <1> QED
    BY <1>2, ObjectFate DEF PassesInv, SameObject, Collected, CleanedUp, Present

LEMMA NothingYetStep ==
  ASSUME PassesInv, DriftKinds = {}, NothingYet, [Next]_vars
  PROVE  NothingYet'
  <1> SUFFICES ASSUME NEW cr \in CR, NameIsOwn(cr), uids'[cr] = 0
               PROVE  \A c \in Comp, k \in Kinds : ~Present(cr, c, k)'
    BY DEF NothingYet, NameIsOwn
  <1>1. uids[cr] \in Nat /\ TypeOK /\ CopyInv
    BY ConstantsAssumption DEF PassesInv, TypeOK
  <1>2. uids'[cr] = uids[cr] \/ uids'[cr] = uids[cr] + 1
    BY <1>1, ResourceStep, Zenon DEF Untouched, Created, Edited, Deleted, Refused, Judged
  <1>3. uids[cr] = 0
    BY <1>1, <1>2
  <1> QED
    BY <1>3, NothingMade DEF NothingYet

\* What WebhookHasBackend says of one resource.
HasBackend(cr) ==
  Present(cr, "admission", "webhook") =>
    /\ \A k \in {"sa", "role", "binding", "svc"} : Present(cr, "admission", k)
    /\ faults = 0 => \/ Present(cr, "admission", "work")
                     \/ w.pc = "clean" /\ w.kind = "webhook" /\ w.cr = cr

\* Who makes the webhook has made the rest.
LEMMA BackendBefore ==
  ASSUME PassesInv, NEW cr \in CR, Original(cr), NameIsOwn(cr),
         Upserted(cr, "admission", "webhook")
  PROVE  \A k \in {"sa", "role", "binding", "svc", "work"} : Present(cr, "admission", k)
  <1>1. Busy(cr) /\ w.pc = "ensure" /\ w.comp = "admission" /\ w.kind = "webhook" /\ w.cr = cr
    BY DEF Upserted, Busy
  <1>2. \A k \in Before("admission", "webhook") : Present(cr, "admission", k)
    BY <1>1 DEF PassesInv, DoneInv
  <1>3. Before("admission", "webhook") = {"sa", "role", "binding", "svc", "work"}
    BY DEF Before, KindsOf
  <1> QED
    BY <1>2, <1>3

\* The worker that has just deleted the Deployment deletes the webhook next, and
\* unless that fails it is gone.
LEMMA BetweenDeletes ==
  ASSUME PassesInv, DriftKinds = {}, [Next]_vars, NEW cr \in CR, Original(cr), NameIsOwn(cr),
         w.pc = "clean", w.kind = "webhook", w.cr = cr,
         faults' = 0, Present(cr, "admission", "webhook")'
  PROVE  w'.pc = "clean" /\ w'.kind = "webhook" /\ w'.cr = cr
  <1>0. TypeOK /\ PassInv /\ faults = 0 /\ faults \in Nat
    BY FaultsGrow DEF PassesInv, TypeOK
  <1>1. ASSUME w' = w \/ (SameCopy(w') /\ SamePlace(w'))
        PROVE  w'.pc = "clean" /\ w'.kind = "webhook" /\ w'.cr = cr
    BY <1>1 DEF SameCopy, SamePlace
  <1>2. CASE Environment
    BY <1>0, <1>1, <1>2, EnvironmentWorker
  <1>3. ASSUME NEW d \in CR, TimerFires(d) \/ StartFails(d)
        PROVE  w'.pc = "clean" /\ w'.kind = "webhook" /\ w'.cr = cr
    BY <1>1, <1>3 DEF TimerFires, StartFails
  <1>4. ASSUME NEW d \in CR, Start(d) PROVE FALSE
    BY <1>4 DEF Start
  <1>5. ~Ensure
    BY <1>0, EnsureObjects
  <1>6. ~Cleanup
    <2> SUFFICES ASSUME Cleanup PROVE FALSE
      OBVIOUS
    <2>1. objs'[Target] = Nil
      BY <1>0, CleanupWorker
    <2>2. Target = Key(cr, "admission", "webhook")
      BY DEF Target, PassesInv, PathInv
    <2> QED
      BY <2>1, <2>2 DEF Present
  <1>7. ~PlatformGate /\ ~RefuseStatus /\ ~ReadComponentStatus /\ ~updateComponentStatuses
    BY DEF PlatformGate, RefuseStatus, ReadComponentStatus, updateComponentStatuses
  <1>8. ~Restart
    BY <1>0 DEF Restart
  <1> QED
    BY <1>1, <1>2, <1>3, <1>4, <1>5, <1>6, <1>7, <1>8 DEF Next, Pass, vars

LEMMA BackendStep ==
  ASSUME PassesInv, PassesInv', DriftKinds = {}, [Next]_vars, NEW cr \in CR, NameIsOwn(cr),
         Original(cr), HasBackend(cr)
  PROVE  HasBackend(cr)'
  <1> SUFFICES ASSUME Present(cr, "admission", "webhook")'
               PROVE  /\ \A k \in {"sa", "role", "binding", "svc"} : Present(cr, "admission", k)'
                      /\ faults' = 0 => \/ Present(cr, "admission", "work")'
                                        \/ w'.pc = "clean" /\ w'.kind = "webhook" /\ w'.cr = cr
    BY DEF HasBackend
  <1>0. /\ TypeOK /\ PassInv /\ UidInv /\ PathInv
        /\ "admission" \in Comp
        /\ {"sa", "role", "binding", "svc", "work", "webhook"} \subseteq Kinds
        /\ faults' = 0 => faults = 0
    BY FaultsGrow DEF PassesInv, Comp, Kinds
  <1>1. \/ Present(cr, "admission", "webhook") \/ Upserted(cr, "admission", "webhook")
    BY <1>0, ObjectFate DEF SameObject, Collected, CleanedUp, Present
  <1>2. \A k \in {"sa", "role", "binding", "svc"} : Present(cr, "admission", k)
    BY <1>1, BackendBefore DEF HasBackend
  <1>3. ASSUME NEW k \in Kinds, Present(cr, "admission", k), ~Present(cr, "admission", k)'
        PROVE  CleanedUp(cr, "admission", k)
    <2> DEFINE key == Key(cr, "admission", k)
    <2>1. ~SameObject(key) /\ ~Upserted(cr, "admission", k)
      BY <1>3, ConstantsAssumption DEF SameObject, Upserted, Suits, Present
    <2>2. ~Collected(key)
      BY <1>0, NeverCollected
    <2> QED
      BY <1>0, <2>1, <2>2, ObjectFate
  <1>4. \A k \in {"sa", "role", "binding", "svc"} : Present(cr, "admission", k)'
    BY <1>0, <1>2, <1>3 DEF CleanedUp, PassInv
  <1>5. ASSUME faults' = 0
        PROVE  \/ Present(cr, "admission", "work")'
               \/ w'.pc = "clean" /\ w'.kind = "webhook" /\ w'.cr = cr
    <2>1. CASE Present(cr, "admission", "work") /\ ~Present(cr, "admission", "work")'
      <3>1. w.cr = cr /\ w.pc = "clean" /\ w.comp = "admission" /\ w.kind = "work"
        BY <1>0, <1>3, <2>1 DEF CleanedUp, Busy
      <3>2. Cleanup
        <4>1. objs' # objs
          BY <2>1 DEF Present
        <4>2. ~Environment
          BY <1>0, <2>1, EnvironmentPresence
        <4>3. ~Ensure
          BY <1>0, <3>1, EnsureObjects
        <4> QED
          BY <4>1, <4>2, <4>3 DEF Next, Pass, TimerFires, Start, StartFails, Restart, PlatformGate,
               RefuseStatus, ReadComponentStatus, updateComponentStatuses, cluster, vars
      <3>3. w' = [w EXCEPT !.kind = "webhook"]
        BY <1>0, <1>5, <3>1, <3>2, CleanupWorker DEF NextCleanup
      <3> QED
        BY <1>0, <3>1, <3>3 DEF TypeOK, Worker
    <2>2. CASE ~Present(cr, "admission", "work")
      <3>1. w.pc = "clean" /\ w.kind = "webhook" /\ w.cr = cr
        BY <1>0, <1>1, <1>5, <2>2, BackendBefore DEF HasBackend
      <3> QED
        BY <1>5, <3>1, BetweenDeletes
    <2> QED
      BY <2>1, <2>2
  <1> QED
    BY <1>4, <1>5

\* The admission controller's webhook comes after its Service and Deployment, and as
\* long as no call fails it does not outlive them but between two deletes, whatever
\* is abandoned, edited or repeated.
THEOREM WebhookIsBacked == Spec => []WebhookHasBackend
  <1> DEFINE Backed == \A cr \in CR : Original(cr) /\ NameIsOwn(cr) => HasBackend(cr)
  <1>1. CASE DriftKinds = {}
    <2>1. Init => NothingYet /\ Backed
      BY DEF Init, NothingYet, Present, Original, Keys, Key
    <2>2. PassesInv /\ PassesInv' /\ NothingYet /\ Backed /\ [Next]_vars => NothingYet' /\ Backed'
      <3> SUFFICES ASSUME PassesInv, PassesInv', NothingYet, Backed, [Next]_vars
                   PROVE  NothingYet' /\ Backed'
        OBVIOUS
      <3>1. NothingYet'
        BY <1>1, NothingYetStep
      <3>2. ASSUME NEW cr \in CR, Original(cr)', NameIsOwn(cr) PROVE HasBackend(cr)'
        <4>1. CASE Original(cr)
          BY <1>1, <3>2, <4>1, BackendStep
        <4>2. CASE ~Original(cr)
          <5>1. uids[cr] \in Nat /\ uids'[cr] = uids[cr] + 1 /\ uids'[cr] = 1
            BY <3>2, <4>2, OriginalStep, ConstantsAssumption
            DEF PassesInv, TypeOK, Created, Original
          <5>2. ~Present(cr, "admission", "webhook")
            BY <3>2, <5>1 DEF NothingYet, Comp, Kinds
          <5>3. ~Present(cr, "admission", "webhook")'
            BY <1>1, <3>2, <5>1, <5>2, NothingMade DEF Comp, Kinds
          <5> QED
            BY <5>3 DEF HasBackend
        <4> QED
          BY <4>1, <4>2
      <3> QED
        BY <3>1, <3>2 DEF NameIsOwn
    <2>3. Backed => WebhookHasBackend
      BY DEF WebhookHasBackend, HasBackend
    <2>4. Spec => []PassesInv
      BY <1>1, PassesKeep
    <2> QED
      BY <2>1, <2>2, <2>3, <2>4, PTL DEF Spec
  <1>2. CASE DriftKinds # {}
    <2>1. WebhookHasBackend
      BY <1>2 DEF WebhookHasBackend
    <2> QED
      BY <2>1, PTL
  <1> QED
    BY <1>1, <1>2

-----------------------------------------------------------------------------
(***************************** Verdicts and contents ***********************)

\* The object is there, with what the spec s asks of it.
BuiltFrom(cr, c, k, s) ==
  LET own == objs[Key(cr, c, k)] IN
  /\ own # Nil
  /\ k = "webhook" => own.fail = s.fail
  /\ k = "cm" \/ (k = "work" /\ c \in {"admission", "runtime"})
       => own.tpl.env = s.env /\ own.tpl.rest = s.rest
  /\ k = "work" /\ c = "container" => own.tpl.env = s.env

\* A pass that has come as far as v has left kind k of component c behind it.
Passed(v, c, k) ==
  \/ c \in Behind(v) \cap v.spec.on /\ k \in KindsOf(c) \ {"scc"}
  \/ v.pc = "ensure" /\ c = v.comp /\ k \in Before(v.comp, v.kind)

\* What a pass has left behind it is built from its copy.
ContentInv ==
  \A cr \in CR : Original(cr) /\ NameIsOwn(cr) /\ Busy(cr) =>
    \A c \in Comp, k \in Kinds : Passed(w, c, k) => BuiltFrom(cr, c, k, w.spec)

\* Only a pass over another spec can undo what was built.
LEMMA BuiltStays ==
  ASSUME TypeOK, PassInv, UidInv, PathInv, DriftKinds = {}, [Next]_vars,
         NEW cr \in CR, Original(cr), NameIsOwn(cr), NEW c \in Comp, NEW k \in Kinds,
         NEW s, c \in s.on, Busy(cr) => w.spec = s, BuiltFrom(cr, c, k, s)
  PROVE  BuiltFrom(cr, c, k, s)'
  <1> DEFINE key == Key(cr, c, k)
  <1>1. CASE SameObject(key)
    BY <1>1 DEF SameObject, BuiltFrom
  <1>2. ~Collected(key)
    BY NeverCollected
  <1>3. ~CleanedUp(cr, c, k)
    BY DEF CleanedUp, PathInv
  <1>4. CASE Upserted(cr, c, k)
    <2>1. w.kind = k /\ w.comp = c /\ w.spec = s /\ Suits(objs'[key])
      BY <1>4 DEF Upserted
    <2>2. k \in {"work", "cm"} => Tpl(k).env = s.env /\ Tpl(k).rest = s.rest
      BY <2>1 DEF Tpl
    <2> QED
      BY <2>1, <2>2, ConstantsAssumption DEF Suits, BuiltFrom
  <1> QED
    BY <1>1, <1>2, <1>3, <1>4, ObjectFate

\* What a pass has behind it after a step it had before, or has made in this step.
LEMMA PassedStep ==
  ASSUME TypeOK, PassInv, PathInv, [Next]_vars, NEW cr \in CR, Busy(cr), Busy(cr)', SameCopy(w'),
         NEW c \in Comp, NEW k \in Kinds, Passed(w', c, k)
  PROVE  \/ Passed(w, c, k)
         \/ Ensure /\ w' = Advance /\ w.comp = c /\ w.kind = k /\ k # "scc"
  <1>0. /\ w \in Worker /\ w.comp \in Comp /\ w.kind \in Kinds /\ detected \in BOOLEAN
        /\ w'.spec = w.spec
    BY ConstantsAssumption DEF TypeOK, Worker, Detections, SameCopy
  <1>1. ASSUME SamePlace(w') PROVE Passed(w, c, k)
    BY <1>0, <1>1 DEF SamePlace, Passed, Behind
  <1>2. Before(w'.comp, "sa") = {}
    BY DEF Before
  <1>3. CASE Environment
    BY <1>1, <1>3, EnvironmentWorker
  <1>4. ASSUME NEW d \in CR, TimerFires(d) \/ StartFails(d) \/ UNCHANGED vars
        PROVE  Passed(w, c, k)
    BY <1>1, <1>4 DEF TimerFires, StartFails, SamePlace, vars
  <1>5. ASSUME NEW d \in CR, Start(d) PROVE FALSE
    BY <1>5 DEF Start, Busy
  <1>6. ASSUME RefuseStatus \/ updateComponentStatuses \/ Restart PROVE FALSE
    BY <1>6, IdleType DEF RefuseStatus, updateComponentStatuses, Restart, EndAfterDelay,
                          EndWithError, Busy
  <1>7. ASSUME PlatformGate PROVE FALSE
    BY <1>2, <1>7, GateSteps DEF Passed, Behind, Earlier
  <1>8. CASE ReadComponentStatus
    <2>1. w.pc = "read" /\ w'.pc \in {"read", "write"}
      BY <1>0, <1>8 DEF ReadComponentStatus, Worker
    <2> QED
      BY <1>0, <2>1 DEF Passed, Behind
  <1>9. CASE Ensure
    <2>1. /\ w.pc = "ensure" /\ w.kind \in KindsOf(w.comp) /\ w' = Advance
          /\ Behind(w) = Earlier(w.comp)
      BY <1>9, EnsureObjects, EnsureWorker, IdleType DEF PassInv, Busy, Behind
    <2>2. CASE Last(w.comp, w.kind)
      <3>1. w' = Leave(w.comp)
        BY <2>1, <2>2, AdvancePlace
      <3>2. /\ Behind(w') = Behind(w) \cup {w.comp}
            /\ w'.pc = "ensure" => w'.kind = "sa"
        BY <1>0, <2>1, <3>1, LeavePlace
      <3>3. c \in Behind(w') \cap w.spec.on /\ k \in KindsOf(c) \ {"scc"}
        BY <1>0, <1>2, <3>2 DEF Passed
      <3>4. KindsOf(w.comp) \ {"scc"} \subseteq Before(w.comp, w.kind) \cup {w.kind}
        BY <1>0, <2>1, <2>2, BeforeFacts
      <3> QED
        BY <1>9, <2>1, <3>2, <3>3, <3>4 DEF Passed
    <2>3. CASE ~Last(w.comp, w.kind)
      <3>1. w'.pc = "ensure" /\ w'.comp = w.comp /\ w'.kind = After(w.comp, w.kind)
        BY <2>1, <2>3, AdvancePlace
      <3>2. Behind(w') = Behind(w)
        BY <2>1, <3>1 DEF Behind
      <3>3. Before(w.comp, After(w.comp, w.kind))
              \subseteq (Before(w.comp, w.kind) \cup {w.kind}) \ {"scc"}
        BY <1>0, <2>1, <2>3, BeforeFacts
      <3> QED
        BY <1>0, <1>9, <2>1, <3>1, <3>2, <3>3 DEF Passed
    <2> QED
      BY <2>2, <2>3
  <1>10. CASE Cleanup
    <2>1. /\ w.pc = "clean" /\ w.comp \notin w.spec.on /\ Behind(w) = Earlier(w.comp)
          /\ w' = [w EXCEPT !.kind = "webhook"] \/ w' = Leave(w.comp)
      BY <1>10, CleanupWorker DEF NextCleanup, PathInv, Behind
    <2>2. CASE w' = [w EXCEPT !.kind = "webhook"]
      <3>1. w'.pc = "clean" /\ w'.comp = w.comp
        BY <1>0, <2>1, <2>2 DEF Worker
      <3> QED
        BY <1>0, <2>1, <3>1 DEF Passed, Behind
    <2>3. CASE w' = Leave(w.comp)
      <3>1. /\ Behind(w') = Behind(w) \cup {w.comp}
            /\ w'.pc = "ensure" => w'.kind = "sa"
        BY <1>0, <2>1, <2>3, LeavePlace
      <3> QED
        BY <1>0, <1>2, <2>1, <3>1 DEF Passed
    <2> QED
      BY <2>1, <2>2, <2>3
  <1> QED
    BY <1>3, <1>4, <1>5, <1>6, <1>7, <1>8, <1>9, <1>10 DEF Next, Pass

\* A pass leaves behind it what its copy asks for.
LEMMA ContentStep ==
  ASSUME PassesInv, DriftKinds = {}, ContentInv, [Next]_vars
  PROVE  ContentInv'
  <1> SUFFICES ASSUME NEW cr \in CR, Original(cr)', NameIsOwn(cr), Busy(cr)',
                      NEW c \in Comp, NEW k \in Kinds, Passed(w', c, k)
               PROVE  BuiltFrom(cr, c, k, w.spec)'
    BY DEF ContentInv, NameIsOwn
  <1>0. /\ TypeOK /\ CopyInv /\ PassInv /\ UidInv /\ PathInv /\ w \in Worker
        /\ w.comp \in Comp /\ w.kind \in Kinds
    BY DEF PassesInv, TypeOK, Worker
  <1>1. Busy(cr) /\ SameCopy(w')
    <2>1. w'.pc # "gate"
      BY DEF Passed, Behind
    <2> QED
      BY <1>0, <2>1, CopyKept
  <1>2. Original(cr)
    BY <1>0, <1>1, OriginalStep
  <1>3. PICK s : s = w.spec
    OBVIOUS
  <1>4. w'.spec = s
    BY <1>1, <1>3 DEF SameCopy
  <1> SUFFICES BuiltFrom(cr, c, k, s)'
    BY <1>4
  <1>5. CASE Passed(w, c, k)
    <2>1. BuiltFrom(cr, c, k, s)
      BY <1>1, <1>2, <1>3, <1>5 DEF ContentInv
    <2>2. c \in s.on
      BY <1>0, <1>3, <1>5 DEF Passed, PathInv
    <2> QED
      BY <1>0, <1>2, <1>3, <2>1, <2>2, BuiltStays
  <1>6. CASE Ensure /\ w' = Advance /\ w.comp = c /\ w.kind = k /\ k # "scc"
    <2> DEFINE key == Key(cr, c, k)
    <2>1. PICK new : Suits(new) /\ objs' = [objs EXCEPT ![Key(w.cr, w.comp, w.kind)] = new]
      BY <1>0, <1>6, EnsureMakes, IdleType DEF EnsureEffect, Busy
    <2>2. w.cr = cr /\ key \in Keys /\ objs \in [Keys -> Content \cup {Nil}]
      BY <1>0, <1>1, KeyFacts DEF Busy, TypeOK
    <2>3. objs'[key] = new
      <3>1. objs' = [objs EXCEPT ![key] = new]
        BY <1>6, <2>1, <2>2
      <3> HIDE DEF key
      <3> QED
        BY <2>2, <3>1
    <2>4. k \in {"work", "cm"} => Tpl(k).env = s.env /\ Tpl(k).rest = s.rest
      BY <1>3 DEF Tpl
    <2> QED
      BY <1>3, <1>6, <2>1, <2>3, <2>4, ConstantsAssumption DEF Suits, BuiltFrom
  <1> QED
    BY <1>0, <1>1, <1>5, <1>6, PassedStep

\* All that is asked for is there, with the content the stored spec asks for.
FromSpec(cr) ==
  \A c \in crs[cr].spec.on : \A k \in KindsOf(c) \ {"scc"} : BuiltFrom(cr, c, k, crs[cr].spec)

LEMMA CurrentStep ==
  ASSUME PassesInv, DriftKinds = {}, ContentInv, [Next]_vars,
         NEW cr \in CR, Vouched(cr) => FromSpec(cr), Vouched(cr)'
  PROVE  FromSpec(cr)'
  <1>0. TypeOK /\ CopyInv /\ PassInv /\ UidInv /\ GenInv /\ PathInv
    BY DEF PassesInv
  <1>1. \A c \in Comp : KindsOf(c) \subseteq Kinds
    BY DEF KindsOf, Kinds
  <1>2. CASE Vouched(cr) /\ Untouched(cr)
    <2>1. PICK s : s = crs[cr].spec
      OBVIOUS
    <2>2. crs'[cr].spec = s
      BY <1>2, <2>1 DEF Untouched
    <2>3. Original(cr) /\ NameIsOwn(cr) /\ s.on \subseteq Comp
      BY <1>0, <1>2, <2>1, ConstantsAssumption DEF Vouched, TypeOK, Resource, Original
    <2>4. Busy(cr) => w.spec = s
      BY <1>0, <1>2, <2>1, VerdictStands
    <2> SUFFICES ASSUME NEW c \in s.on, NEW k \in KindsOf(c) \ {"scc"}
                 PROVE  BuiltFrom(cr, c, k, s)'
      BY <2>2 DEF FromSpec
    <2>5. BuiltFrom(cr, c, k, s)
      BY <1>2, <2>1 DEF FromSpec
    <2> QED
      BY <1>0, <1>1, <2>3, <2>4, <2>5, BuiltStays
  <1>3. CASE /\ Original(cr) /\ Busy(cr) /\ Behind(w) = Comp /\ objs' = objs
             /\ crs'[cr].spec = w.spec
    <2>1. NameIsOwn(cr) /\ w.spec.on \subseteq Comp
      BY <1>0, ConstantsAssumption DEF Vouched, NameIsOwn, TypeOK, Worker
    <2>2. \A c \in w.spec.on : \A k \in KindsOf(c) \ {"scc"} : BuiltFrom(cr, c, k, w.spec)
      BY <1>1, <1>3, <2>1 DEF ContentInv, Passed
    <2> QED
      BY <1>3, <2>2 DEF FromSpec, BuiltFrom
  <1> QED
    BY <1>0, <1>2, <1>3, VouchedStep

\* Available=True for the current generation is said of what is built from the stored
\* spec: an older pass, a lost reply or an abandoned pass brings nothing older back.
THEOREM AvailableIsCurrent == Spec => []AvailableMeansCurrent
  <1> DEFINE Vouches == \A cr \in CR : Vouched(cr) => FromSpec(cr)
  <1>1. CASE DriftKinds = {}
    <2>1. Init => ContentInv /\ Vouches
      BY DEF Init, ContentInv, Original, Vouched
    <2>2. PassesInv /\ ContentInv /\ Vouches /\ [Next]_vars => ContentInv' /\ Vouches'
      BY <1>1, ContentStep, CurrentStep
    <2>3. Vouches => AvailableMeansCurrent
      BY DEF AvailableMeansCurrent, FromSpec, BuiltFrom, OfSpec, Present, KindsOf
    <2>4. Spec => []PassesInv
      BY <1>1, PassesKeep
    <2> QED
      BY <2>1, <2>2, <2>3, <2>4, PTL DEF Spec
  <1>2. CASE DriftKinds # {}
    <2>1. AvailableMeansCurrent
      BY <1>2 DEF AvailableMeansCurrent, Vouched
    <2> QED
      BY <2>1, PTL
  <1> QED
    BY <1>1, <1>2


-----------------------------------------------------------------------------
(***************************** Settings and the gate ***********************)

\* The settings with which the gate may open.
OpenConfs == {p.conf : p \in {q \in Platforms : q.state = "ready"}}

\* Only such settings are worked with, and only such settings are kept in objects.
FromOpenGate ==
  /\ w.pc \in {"ensure", "clean"} => w.conf \in OpenConfs
  /\ \A key \in Keys :
       objs[key] # Nil /\ objs[key].tpl # Nil => objs[key].tpl.conf \in OpenConfs

\* A template is made by the pass, or was there before.
LEMMA TemplateFate ==
  ASSUME TypeOK, [Next]_vars, NEW key \in Keys, objs'[key] # Nil
  PROVE  \/ objs[key] # Nil /\ objs'[key].tpl = objs[key].tpl
         \/ w.pc = "ensure" /\ objs'[key].tpl = Tpl(w.kind)
  <1> DEFINE Goal == \/ objs[key] # Nil /\ objs'[key].tpl = objs[key].tpl
                     \/ w.pc = "ensure" /\ objs'[key].tpl = Tpl(w.kind)
             at == Key(w.cr, w.comp, w.kind)
  <1>0. /\ objs \in [Keys -> Content \cup {Nil}] /\ w.kind \in Kinds /\ at \in Keys
    BY KeyFacts DEF TypeOK, Worker
  <1>1. ASSUME objs' = objs PROVE Goal
    BY <1>1
  <1>2. CASE Ensure
    <2>1. /\ w.pc = "ensure"
          /\ \/ objs' = objs
             \/ \E new \in Upserts(w.kind) : objs' = [objs EXCEPT ![at] = new]
      BY <1>2, EnsureObjects
    <2>2. ASSUME NEW new \in Upserts(w.kind), objs' = [objs EXCEPT ![at] = new] PROVE Goal
      <3>1. Existing(w.kind) \in Content \cup {Nil} /\ Existing(w.kind) = objs[at]
        BY <1>0, BuiltFacts DEF Existing
      <3>2. \/ new.tpl = Tpl(w.kind)
            \/ objs[at] # Nil /\ new = objs[at]
        BY <3>1 DEF Upserts, Fresh, Content
      <3>3. key # at => objs'[key] = objs[key]
        <4> HIDE DEF at
        <4> QED
          BY <1>0, <2>2
      <3>4. objs'[at] = new
        <4> HIDE DEF at
        <4> QED
          BY <1>0, <2>2
      <3> QED
        BY <2>1, <3>2, <3>3, <3>4
    <2> QED
      BY <1>1, <2>1, <2>2
  <1>3. CASE Cleanup
    <2>1. objs' = objs \/ objs' = [objs EXCEPT ![Target] = Nil]
      BY <1>3 DEF Cleanup, NothingToDelete, LookupFails, DeleteObject
    <2> QED
      BY <1>0, <1>1, <2>1
  <1>4. ASSUME NEW other \in Keys, GarbageCollect(other) \/ Drift(other) PROVE Goal
    BY <1>0, <1>4 DEF GarbageCollect, Drift
  <1>5. ASSUME NEW other \in Keys, PodsReady(other) \/ PodsFail(other) PROVE Goal
    <2>1. PICK b \in BOOLEAN : objs[other] # Nil /\ objs' = [objs EXCEPT ![other].up = b]
      BY <1>5 DEF PodsReady, PodsFail
    <2> DEFINE new == [objs[other] EXCEPT !.up = b]
    <2>2. new.tpl = objs[other].tpl
      BY <1>0, <2>1 DEF Content
    <2>3. objs' = [objs EXCEPT ![other] = new]
      BY <2>1
    <2> HIDE DEF new
    <2> QED
      BY <1>0, <2>1, <2>2, <2>3
  <1>6. CASE Environment
    BY <1>1, <1>4, <1>5, <1>6 DEF Environment, CreateResource, EditSpec, DeleteResource, Written,
                                  PlatformChanges, cluster
  <1>7. ASSUME NEW d \in CR, TimerFires(d) \/ Start(d) \/ StartFails(d) PROVE objs' = objs
    BY <1>7 DEF TimerFires, Start, StartFails, cluster
  <1>8. ASSUME Restart \/ PlatformGate \/ RefuseStatus \/ ReadComponentStatus
                 \/ updateComponentStatuses \/ UNCHANGED vars
        PROVE  objs' = objs
    BY <1>8 DEF Restart, PlatformGate, RefuseStatus, ReadComponentStatus,
                updateComponentStatuses, cluster, vars
  <1> QED
    BY <1>1, <1>2, <1>3, <1>6, <1>7, <1>8 DEF Next, Pass

\* Whatever the platform turns into while a pass is under way, the pass goes on with,
\* and leaves behind, settings with which the gate was open.
LEMMA SettingsAreOfAnOpenGate == Spec => []FromOpenGate
  <1>1. Init => FromOpenGate
    BY IdleType DEF Init, FromOpenGate
  <1>2. TypeOK /\ FromOpenGate /\ [Next]_vars => FromOpenGate'
    <2> SUFFICES ASSUME TypeOK, FromOpenGate, [Next]_vars PROVE FromOpenGate'
      OBVIOUS
    <2>1. platform \in Platforms
      BY DEF TypeOK
    <2>2. w'.pc \in {"ensure", "clean"} => w'.conf \in OpenConfs
      BY <2>1, ConfKept DEF FromOpenGate, OpenConfs
    <2>3. ASSUME NEW key \in Keys, objs'[key] # Nil, objs'[key].tpl # Nil
          PROVE  objs'[key].tpl.conf \in OpenConfs
      <3>1. CASE objs[key] # Nil /\ objs'[key].tpl = objs[key].tpl
        BY <2>3, <3>1 DEF FromOpenGate
      <3>2. CASE w.pc = "ensure" /\ objs'[key].tpl = Tpl(w.kind)
        BY <2>3, <3>2 DEF FromOpenGate, Tpl
      <3> QED
        BY <2>3, <3>1, <3>2, TemplateFate
    <2> QED
      BY <2>2, <2>3 DEF FromOpenGate
  <1> QED
    BY <1>1, <1>2, TypeCorrect, PTL DEF Spec
=============================================================================
