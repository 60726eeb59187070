--------------------------- MODULE DeploymentProofs ---------------------------
(***************************************************************************)
(* No resource of ContainerSecurity is ever forgotten, and Available=True  *)
(* means that what the resource asks for has been made.                    *)
(*                                                                         *)
(* AvailableMeansDeployed is far from inductive: what a verdict vouches    *)
(* for was made in the course of a pass, over a copy that may be stale,    *)
(* next to a collector.  DoneInv says how far a pass has come, GenInv and  *)
(* UidInv that neither an older pass nor the collector undoes it.          *)
(***************************************************************************)
EXTENDS ContainerSecurityProofs

-----------------------------------------------------------------------------
(***************************** Never forgotten *****************************)

\* A pass keeps its resource in hand or hands it on to the queue or a timer.
LEMMA PassHandsOn ==
  ASSUME TypeOK, Pass
  PROVE  /\ queue \subseteq queue' /\ delayed \subseteq delayed'
         /\ (w'.pc # "idle" /\ w'.cr = w.cr) \/ w.cr \in queue' \cup delayed'
         /\ \A cr \in CR : crs'[cr] # Nil => crs[cr] # Nil \/ cr = w.cr
  <1> DEFINE Kept == w'.pc # "idle" /\ w'.cr = w.cr
             HandedOn == w.cr \in queue' \cup delayed'
             Grow == queue \subseteq queue' /\ delayed \subseteq delayed'
  <1>0. /\ w \in Worker /\ w.cr \in CR /\ w.comp \in Comp /\ w.kind \in Kinds
        /\ detected \in BOOLEAN /\ crs \in [CR -> Resource \cup {Nil}]
    BY ConstantsAssumption DEF TypeOK, Worker, Detections
  <1>1. CASE PlatformGate
    <2>1. \/ w' = [Begin("container") EXCEPT !.conf = platform.conf]
          \/ w'.pc = "refuse" /\ w'.cr = w.cr
      BY <1>0, <1>1, ConstantsAssumption DEF PlatformGate, Refuse, Worker, TypeOK
    <2>2. CASE w' = [Begin("container") EXCEPT !.conf = platform.conf]
      <3> DEFINE v == Begin("container")
      <3>1. v \in Worker /\ v.pc \in {"ensure", "clean"} /\ v.cr = w.cr
        BY <1>0 DEF Begin, Worker, PCs, Comp, Kinds
      <3>2. w' = [v EXCEPT !.conf = platform.conf]
        BY <2>2
      <3> HIDE DEF v
      <3>3. w'.pc # "idle" /\ w'.cr = w.cr
        BY <3>1, <3>2 DEF Worker
      <3> QED
        BY <1>1, <3>3 DEF PlatformGate, cluster, queues
    <2> QED
      BY <1>1, <2>1, <2>2 DEF PlatformGate, cluster, queues
  <1>2. CASE RefuseStatus
    <2>1. \A cr \in CR \ {w.cr} : crs'[cr] = crs[cr]
      BY <1>0, <1>2 DEF RefuseStatus
    <2> QED
      BY <1>2, <2>1 DEF RefuseStatus, EndAfterDelay
  <1>3. CASE Ensure
    <2>1. CASE RefusedByWebhook \/ BuildArgsPanics
      BY <2>1 DEF RefusedByWebhook, BuildArgsPanics, EndAfterDelay, EndWithError, cluster
    <2>2. ASSUME NEW k \in Kinds, NEW new \in Upserts(k), Upsert(k, new)
          PROVE  (Kept \/ HandedOn) /\ Grow /\ UNCHANGED crs
      <3>1. PICK o \in Outcomes : AfterUpsert(o, k)
        BY <2>2 DEF Upsert
      <3>2. Advance.cr = w.cr /\ Advance.pc # "idle"
        <4>1. Leave(w.comp).cr = w.cr /\ Leave(w.comp).pc # "idle"
          BY <1>0, LeaveFacts
        <4>2. w.pc = "ensure"
          BY <2>2 DEF Upsert
        <4> QED
          BY <1>0, <4>1, <4>2 DEF Advance, Worker
      <3> QED
        BY <2>2, <3>1, <3>2 DEF Upsert, AfterUpsert, EndAfterDelay
    <2> QED
      BY <1>3, <2>1, <2>2, EnsureCases
  <1>4. CASE Cleanup
    <2>1. /\ Leave(w.comp).cr = w.cr /\ Leave(w.comp).pc # "idle"
          /\ NextCleanup.cr = w.cr /\ NextCleanup.pc # "idle"
      BY <1>0, <1>4, LeaveFacts DEF Cleanup, NextCleanup, Worker
    <2> QED
      BY <1>4, <2>1 DEF Cleanup, NothingToDelete, LookupFails, DeleteObject
  <1>5. CASE ReadComponentStatus
    <2>1. w'.cr = w.cr /\ w'.pc \in {"read", "write"}
      BY <1>0, <1>5 DEF ReadComponentStatus, Worker
    <2> QED
      BY <1>5, <2>1 DEF ReadComponentStatus, cluster, queues
  <1>6. CASE updateComponentStatuses
    <2>1. \A cr \in CR \ {w.cr} : crs'[cr] = crs[cr]
      BY <1>0, <1>6 DEF updateComponentStatuses, WithVerdict
    <2> QED
      BY <1>6, <2>1 DEF updateComponentStatuses, EndAfterDelay, EndWithError
  <1> QED
    BY <1>1, <1>2, <1>3, <1>4, <1>5, <1>6 DEF Pass

\* Nothing is dropped: a write or an event queues, a timer hands on, a pass too.
LEMMA ForgottenStep ==
  ASSUME TypeOK, NeverForgotten, [Next]_vars
  PROVE  NeverForgotten'
  <1> USE DEF NeverForgotten
  <1>0. w \in Worker /\ w.cr \in CR /\ crs \in [CR -> Resource \cup {Nil}]
    BY DEF TypeOK, Worker
  <1>1. ASSUME NEW cr \in CR, CreateResource(cr) \/ EditSpec(cr) \/ DeleteResource(cr)
        PROVE  NeverForgotten'
    <2>1. w'.pc = w.pc /\ w'.cr = w.cr
      BY <1>0, <1>1 DEF CreateResource, EditSpec, DeleteResource, Written, Worker
    <2>2. /\ queue' = queue \cup {cr} /\ delayed' = delayed
          /\ \A d \in CR \ {cr} : crs'[d] = crs[d]
      BY <1>0, <1>1 DEF CreateResource, EditSpec, DeleteResource, Written
    <2> QED
      BY <2>1, <2>2
  <1>2. CASE PlatformChanges \/ \E key \in Keys : GarbageCollect(key) \/ Drift(key)
                                                  \/ PodsReady(key) \/ PodsFail(key)
    BY <1>2 DEF PlatformChanges, GarbageCollect, Drift, PodsReady, PodsFail, cluster, queues
  <1>3. ASSUME NEW cr \in CR, TimerFires(cr) \/ StartFails(cr) PROVE NeverForgotten'
    BY <1>3 DEF TimerFires, StartFails, cluster, queues
  <1>4. ASSUME NEW cr \in CR, Start(cr) PROVE NeverForgotten'
    <2>1. crs[cr] # Nil => w'.pc # "idle" /\ w'.cr = cr
      BY <1>4, IdleType DEF Start, Worker
    <2> QED
      BY <1>4, <2>1 DEF Start, cluster
  <1>5. CASE Pass
    BY <1>0, <1>5, PassHandsOn
  <1>6. CASE Restart
    BY <1>6 DEF Restart, cluster
  <1>7. CASE UNCHANGED vars
    BY <1>7 DEF vars
  <1> QED
    BY <1>1, <1>2, <1>3, <1>4, <1>5, <1>6, <1>7 DEF Next, Environment

\* No resource that exists is ever forgotten: every path out of a pass, whatever
\* fails in it, leaves a queue entry or a timer behind, and so does a crash.
THEOREM NothingIsForgotten == Spec => []NeverForgotten
  <1>1. Init => NeverForgotten
    BY DEF Init, NeverForgotten
  <1>2. TypeOK /\ TypeOK' /\ NeverForgotten /\ [Next]_vars => NeverForgotten'
    BY ForgottenStep
  <1> QED
    BY <1>1, <1>2, TypeCorrect, PTL DEF Spec

-----------------------------------------------------------------------------
(***************************** What a pass has done ************************)

Busy(cr) == w.pc # "idle" /\ w.cr = cr

\* The namespaced objects and the worker's copy are of a resource that was
\* created.
UidInv ==
  /\ \A cr \in CR : crs[cr] # Nil => uids[cr] # 0
  /\ \A key \in Keys :
       objs[key] # Nil /\ key.kind \notin ClusterScoped
         => objs[key].uid # 0 /\ objs[key].uid <= uids[key.owner]
  /\ w.pc # "idle" => w.uid # 0 /\ w.uid <= uids[w.cr]

\* Generations only grow, and status follows the worker's copy.
GenInv ==
  \A cr \in CR : Original(cr) =>
    /\ crs[cr].observed <= crs[cr].gen
    /\ Busy(cr) => /\ w.gen <= crs[cr].gen /\ crs[cr].observed <= w.gen
                   /\ w.gen = crs[cr].gen => w.spec = crs[cr].spec

\* The worker makes what is enabled and cleans up what is not.
PathInv ==
  /\ w.pc = "ensure" => w.comp \in w.spec.on
  /\ w.pc = "clean" => w.comp \notin w.spec.on /\ (w.kind = "webhook" => w.comp = "admission")
  /\ w.pc = "refuse" => w.reason # "AllComponentsReady"

\* The components before c in the order of the blocks of Reconcile.
Earlier(c) == CASE c = "container" -> {}
                [] c = "cluster" -> {"container"}
                [] c = "admission" -> {"container", "cluster"}
                [] c = "runtime" -> {"container", "cluster", "admission"}

\* The components a worker has left behind it.
Behind(v) == IF v.pc \in {"read", "write"} THEN Comp
             ELSE IF v.pc \in {"ensure", "clean"} THEN Earlier(v.comp) ELSE {}

\* What must be there when the worker comes to kind k (an SCC is optional).
Before(c, k) == CASE k = "sa" -> {}
                  [] k = "role" -> {"sa"}
                  [] k = "binding" -> {"sa", "role"}
                  [] k \in {"scc", "cm", "svc"} -> {"sa", "role", "binding"}
                  [] k \in {"work", "webhook"} -> KindsOf(c) \ {"scc", k, "webhook"}

Made(cr, c) == \A k \in KindsOf(c) \ {"scc"} : Present(cr, c, k)
Gone(cr, c) == ~Present(cr, c, "work") /\ (c = "admission" => ~Present(cr, c, "webhook"))

\* What a pass that has come this far has done, whatever it is a pass over.
DoneInv ==
  \A cr \in CR : Original(cr) /\ NameIsOwn(cr) /\ Busy(cr) =>
    /\ \A c \in Behind(w) \cap w.spec.on : Made(cr, c)
    /\ w.pc = "ensure" => \A k \in Before(w.comp, w.kind) : Present(cr, w.comp, k)
    /\ faults = 0 =>
         /\ \A c \in Behind(w) \ w.spec.on : Gone(cr, c)
         /\ w.pc = "clean" /\ w.kind = "webhook" => ~Present(cr, "admission", "work")

\* The builders' objects carry the worker's uid, and rewritten ones keep theirs.
LEMMA UpsertUid ==
  ASSUME TypeOK, NEW k \in Kinds \ ClusterScoped, NEW new \in Upserts(k)
  PROVE  \/ new.uid = w.uid
         \/ Existing(k) # Nil /\ new.uid = Existing(k).uid
  <1>1. Fresh(k).uid = w.uid
    BY DEF Fresh
  <1>2. Existing(k) \in Content \cup {Nil}
    BY BuiltFacts
  <1>3. Existing(k) # Nil => [Existing(k) EXCEPT !.tpl = Tpl(k)].uid = Existing(k).uid
    BY <1>2 DEF Content
  <1> QED
    BY <1>1, <1>3 DEF Upserts

\* Every step of the reconcileX functions makes one object, or none.
LEMMA EnsureObjects ==
  ASSUME TypeOK, Ensure
  PROVE  /\ w.pc = "ensure"
         /\ \/ objs' = objs
            \/ \E new \in Upserts(w.kind) :
                 objs' = [objs EXCEPT ![Key(w.cr, w.comp, w.kind)] = new]
         /\ \A new \in Upserts(w.kind) : new \in Content
  <1>0. w.kind \in Kinds
    BY DEF TypeOK, Worker
  <1>1. \A new \in Upserts(w.kind) : new \in Content
    BY <1>0, BuiltFacts DEF Upserts
  <1>2. ASSUME NEW k \in Kinds, NEW new \in Upserts(k), Upsert(k, new)
        PROVE  /\ w.pc = "ensure"
               /\ \/ objs' = objs
                  \/ \E n \in Upserts(w.kind) :
                       objs' = [objs EXCEPT ![Key(w.cr, w.comp, w.kind)] = n]
    BY <1>2 DEF Upsert
  <1>3. CASE RefusedByWebhook \/ BuildArgsPanics
    BY <1>1, <1>3 DEF RefusedByWebhook, BuildArgsPanics, cluster
  <1> QED
    BY <1>1, <1>2, <1>3, EnsureCases

\* v goes on with the worker's copy; and at the same place.
SameCopy(v) == v.cr = w.cr /\ v.uid = w.uid /\ v.gen = w.gen /\ v.spec = w.spec
SamePlace(v) == v.pc = w.pc /\ v.comp = w.comp /\ v.kind = w.kind /\ v.reason = w.reason

\* The gate's Begin keeps the worker's copy.
LEMMA GateSteps ==
  ASSUME TypeOK, PlatformGate
  PROVE  /\ SameCopy(w')
         /\ \/ /\ w'.pc = "refuse"
               /\ w'.reason \in {"PlatformConfigNotFound", "CredentialsNotReady", "SecretRefError"}
            \/ /\ w'.comp = "container"
               /\ IF "container" \in w.spec.on THEN w'.pc = "ensure" /\ w'.kind = "sa"
                                               ELSE w'.pc = "clean" /\ w'.kind = "work"
  <1>0. w \in Worker
    BY DEF TypeOK
  <1>1. \/ w' = [Begin("container") EXCEPT !.conf = platform.conf]
        \/ \E r \in {"PlatformConfigNotFound", "CredentialsNotReady", "SecretRefError"} :
             w' = [w EXCEPT !.pc = "refuse", !.reason = r]
    BY ConstantsAssumption DEF TypeOK, PlatformGate, Refuse
  <1>2. CASE w' = [Begin("container") EXCEPT !.conf = platform.conf]
    <2> DEFINE v == Begin("container")
    <2>1. /\ v \in Worker /\ SameCopy(v) /\ v.comp = "container"
          /\ IF "container" \in w.spec.on THEN v.pc = "ensure" /\ v.kind = "sa"
                                          ELSE v.pc = "clean" /\ v.kind = "work"
      BY <1>0 DEF Begin, Worker, PCs, Comp, Kinds, SameCopy
    <2>2. w' = [v EXCEPT !.conf = platform.conf]
      BY <1>2
    <2> HIDE DEF v
    <2>3. SameCopy(w') /\ w'.comp = v.comp /\ w'.pc = v.pc /\ w'.kind = v.kind
      BY <2>1, <2>2 DEF Worker, SameCopy
    <2> QED
      BY <2>1, <2>3
  <1>3. CASE \E r \in {"PlatformConfigNotFound", "CredentialsNotReady", "SecretRefError"} :
               w' = [w EXCEPT !.pc = "refuse", !.reason = r]
    BY <1>0, <1>3 DEF Worker, SameCopy
  <1> QED
    BY <1>1, <1>2, <1>3

\* Where the worker comes to when it leaves a component.
LEMMA LeavePlace ==
  ASSUME w \in Worker, NEW c \in Comp
  PROVE  /\ SameCopy(Leave(c)) /\ Leave(c).pc \in {"ensure", "clean", "read"}
         /\ Behind(Leave(c)) = Earlier(c) \cup {c}
         /\ Leave(c).pc = "ensure" => Leave(c).kind = "sa" /\ Leave(c).comp \in w.spec.on
         /\ Leave(c).pc = "clean" => Leave(c).kind = "work" /\ Leave(c).comp \notin w.spec.on
  <1>1. SameCopy(Leave(c)) /\ Leave(c).pc \in {"ensure", "clean", "read"}
    BY LeaveFacts DEF SameCopy
  <1>2. CASE c = "runtime"
    <2>1. Leave(c).pc = "read"
      BY <1>2 DEF Leave, Worker
    <2>2. Behind(Leave(c)) = Comp
      BY <2>1 DEF Behind
    <2>3. Earlier(c) \cup {c} = Comp
      BY <1>2 DEF Earlier, Comp
    <2> QED
      BY <1>1, <2>1, <2>2, <2>3
  <1>3. CASE c # "runtime"
    <2> DEFINE d == NextComp[c]
    <2>1. d \in Comp /\ Earlier(d) = Earlier(c) \cup {c}
      BY <1>3 DEF NextComp, Comp, Earlier
    <2>2. Leave(c) = Begin(d)
      BY <1>3 DEF Leave
    <2> HIDE DEF d
    <2>3. /\ Begin(d).comp = d
          /\ IF d \in w.spec.on THEN Begin(d).pc = "ensure" /\ Begin(d).kind = "sa"
                                ELSE Begin(d).pc = "clean" /\ Begin(d).kind = "work"
      BY DEF Begin, Worker
    <2>4. Behind(Begin(d)) = Earlier(d)
      BY <2>3 DEF Behind
    <2> QED
      BY <1>1, <2>1, <2>2, <2>3, <2>4
  <1> QED
    BY <1>2, <1>3

\* Where the worker comes to after one upsert.
LEMMA AdvancePlace ==
  ASSUME TypeOK, PassInv, w.pc = "ensure"
  PROVE  /\ SameCopy(Advance)
         /\ IF Last(w.comp, w.kind) THEN Advance = Leave(w.comp)
            ELSE /\ Advance.pc = "ensure" /\ Advance.comp = w.comp
                 /\ Advance.kind = After(w.comp, w.kind) /\ After(w.comp, w.kind) # "sa"
  <1>0. /\ w \in Worker /\ w.comp \in Comp /\ w.kind \in KindsOf(w.comp)
        /\ detected \in BOOLEAN
    BY ConstantsAssumption DEF TypeOK, Worker, PassInv, Detections
  <1>1. CASE Last(w.comp, w.kind)
    BY <1>0, <1>1, LeavePlace DEF Advance
  <1>2. CASE ~Last(w.comp, w.kind)
    <2>1. Advance = [w EXCEPT !.kind = After(w.comp, w.kind)]
      BY <1>2 DEF Advance
    <2>2. After(w.comp, w.kind) # "sa"
      BY <1>0, <1>2 DEF After, AfterBinding, KindsOf, Comp, Last
    <2> QED
      BY <1>0, <1>2, <2>1, <2>2 DEF Worker, SameCopy
  <1> QED
    BY <1>1, <1>2

\* What must be there at the next kind is what had to be there, and this kind.
LEMMA BeforeFacts ==
  ASSUME NEW c \in Comp, NEW k \in KindsOf(c), detected \in BOOLEAN
  PROVE  /\ Last(c, k) => KindsOf(c) \ {"scc"} \subseteq Before(c, k) \cup {k}
         /\ ~Last(c, k) => Before(c, After(c, k)) \subseteq (Before(c, k) \cup {k}) \ {"scc"}
  <1> USE DEF Comp, KindsOf, Last
  <1>1. CASE Last(c, k)
    BY <1>1 DEF Before
  <1>2. CASE ~Last(c, k) /\ k \in {"sa", "role"}
    BY <1>2 DEF Before, After
  <1>3. CASE ~Last(c, k) /\ k = "binding"
    <2>1. After(c, k) = AfterBinding(c)
      BY <1>3 DEF After
    <2>2. \/ AfterBinding(c) \in {"scc", "cm", "svc"}
          \/ AfterBinding(c) = "work" /\ c \in {"cluster", "runtime"}
      BY DEF AfterBinding
    <2>3. Before(c, AfterBinding(c)) = {"sa", "role", "binding"}
      BY <2>2 DEF Before
    <2> QED
      BY <1>3, <2>1, <2>3 DEF Before
  <1>4. CASE ~Last(c, k) /\ k = "scc"
    BY <1>4 DEF Before, After
  <1>5. CASE ~Last(c, k) /\ k \in {"cm", "svc", "work"}
    BY <1>5 DEF Before, After
  <1> QED
    BY <1>1, <1>2, <1>3, <1>4, <1>5

\* What the users and Kubernetes do leaves the worker where it is.
LEMMA EnvironmentWorker ==
  ASSUME TypeOK, Environment
  PROVE  SameCopy(w') /\ SamePlace(w')
  <1>0. w \in Worker
    BY DEF TypeOK
  <1>1. ASSUME NEW cr \in CR, CreateResource(cr) \/ EditSpec(cr) \/ DeleteResource(cr)
        PROVE  w' = w \/ w' = [w EXCEPT !.fresh = FALSE]
    BY <1>1 DEF CreateResource, EditSpec, DeleteResource, Written
  <1>2. CASE PlatformChanges \/ \E key \in Keys : GarbageCollect(key) \/ Drift(key)
                                                  \/ PodsReady(key) \/ PodsFail(key)
    BY <1>2 DEF PlatformChanges, GarbageCollect, Drift, PodsReady, PodsFail, SameCopy, SamePlace
  <1> QED
    BY <1>0, <1>1, <1>2 DEF Environment, SameCopy, SamePlace, Worker

\* A pass keeps its copy until it ends.
LEMMA PassCopy ==
  ASSUME TypeOK, PassInv, Pass
  PROVE  w.pc # "idle" /\ (w' = Idle \/ SameCopy(w'))
  <1>0. w \in Worker /\ w.comp \in Comp
    BY DEF TypeOK, Worker
  <1>1. CASE PlatformGate
    BY <1>1, GateSteps DEF PlatformGate
  <1>2. CASE RefuseStatus \/ updateComponentStatuses
    BY <1>2 DEF RefuseStatus, updateComponentStatuses, EndAfterDelay, EndWithError
  <1>3. CASE Ensure
    <2>1. w.pc = "ensure"
      BY <1>3, EnsureObjects
    <2>2. ASSUME NEW k \in Kinds, NEW new \in Upserts(k), Upsert(k, new)
          PROVE  w' = Idle \/ w' = Advance
      BY <2>2 DEF Upsert, AfterUpsert, EndAfterDelay
    <2>3. CASE RefusedByWebhook \/ BuildArgsPanics
      BY <2>1, <2>3 DEF RefusedByWebhook, BuildArgsPanics, EndAfterDelay, EndWithError
    <2> QED
      BY <1>3, <2>1, <2>2, <2>3, EnsureCases, AdvancePlace
  <1>4. CASE Cleanup
    <2>1. w' \in {NextCleanup, Leave(w.comp)} /\ w.pc = "clean"
      BY <1>4 DEF Cleanup, NothingToDelete, LookupFails, DeleteObject
    <2> QED
      BY <1>0, <2>1, LeavePlace DEF NextCleanup, SameCopy, Worker
  <1>5. CASE ReadComponentStatus
    BY <1>0, <1>5 DEF ReadComponentStatus, SameCopy, Worker
  <1> QED
    BY <1>1, <1>2, <1>3, <1>4, <1>5 DEF Pass

\* Who works on cr went on from the same copy, or has just read it.
LEMMA CopyKept ==
  ASSUME TypeOK, PassInv, [Next]_vars, NEW cr \in CR, Busy(cr)'
  PROVE  \/ Busy(cr) /\ SameCopy(w')
         \/ /\ crs[cr] # Nil /\ UNCHANGED cluster /\ w'.pc = "gate"
            /\ w'.uid = uids[cr] /\ w'.gen = crs[cr].gen /\ w'.spec = crs[cr].spec
  <1> USE DEF Busy
  <1>1. ASSUME w' = w PROVE Busy(cr) /\ SameCopy(w')
    BY <1>1 DEF SameCopy
  <1>2. ASSUME NEW d \in CR, TimerFires(d) \/ StartFails(d) PROVE Busy(cr) /\ SameCopy(w')
    BY <1>1, <1>2 DEF TimerFires, StartFails
  <1>3. ASSUME NEW d \in CR, Start(d)
        PROVE  /\ crs[cr] # Nil /\ UNCHANGED cluster /\ w'.pc = "gate"
               /\ w'.uid = uids[cr] /\ w'.gen = crs[cr].gen /\ w'.spec = crs[cr].spec
    <2>1. crs[d] # Nil
      BY <1>3, IdleType DEF Start
    <2>2. w' = [Idle EXCEPT !.pc = "gate", !.cr = d, !.uid = uids[d],
                            !.gen = crs[d].gen, !.spec = crs[d].spec, !.fresh = TRUE]
      BY <1>3, <2>1 DEF Start
    <2>3. /\ w'.pc = "gate" /\ w'.cr = d /\ w'.uid = uids[d]
          /\ w'.gen = crs[d].gen /\ w'.spec = crs[d].spec
      BY <2>2, IdleType DEF Worker
    <2> QED
      BY <1>3, <2>1, <2>3 DEF Start
  <1>4. CASE Pass
    BY <1>4, PassCopy, IdleType DEF SameCopy
  <1>5. CASE Environment
    BY <1>5, EnvironmentWorker DEF SameCopy, SamePlace
  <1>6. CASE Restart
    BY <1>6, IdleType DEF Restart
  <1> QED
    BY <1>1, <1>2, <1>3, <1>4, <1>5, <1>6 DEF Next, vars

\* What a step does to one resource.
Untouched(cr) == crs'[cr] = crs[cr] /\ uids'[cr] = uids[cr]
Created(cr) == /\ crs[cr] = Nil /\ uids'[cr] = uids[cr] + 1
               /\ crs'[cr].gen = 1 /\ crs'[cr].observed = 0 /\ crs'[cr].avail = "none"
Edited(cr) == /\ crs[cr] # Nil /\ uids'[cr] = uids[cr] /\ crs'[cr].gen = crs[cr].gen + 1
              /\ crs'[cr].observed = crs[cr].observed
Deleted(cr) == crs'[cr] = Nil /\ uids'[cr] = uids[cr]
Refused(cr) == /\ Busy(cr) /\ w.pc = "refuse" /\ crs[cr] # Nil /\ uids'[cr] = uids[cr]
               /\ crs'[cr] = [crs[cr] EXCEPT !.avail = w.reason]
Judged(cr) == /\ Busy(cr) /\ w.pc = "write" /\ w.fresh /\ w' = Idle /\ crs[cr] # Nil
              /\ uids'[cr] = uids[cr] /\ objs' = objs
              /\ \E r \in Reasons : crs'[cr] = [crs[cr] EXCEPT !.avail = r, !.observed = w.gen,
                                                              !.judged = w.spec]

LEMMA ResourceStep ==
  ASSUME TypeOK, CopyInv, [Next]_vars, NEW cr \in CR
  PROVE  \/ Untouched(cr) \/ Created(cr) \/ Edited(cr) \/ Deleted(cr)
         \/ Refused(cr) \/ Judged(cr)
  <1>0. /\ crs \in [CR -> Resource \cup {Nil}] /\ uids \in [CR -> 0 .. MaxUid]
        /\ w.cr \in CR
    BY DEF TypeOK, Worker
  <1>1. ASSUME UNCHANGED <<crs, uids>> PROVE Untouched(cr)
    BY <1>1 DEF Untouched
  <1>2. ASSUME NEW d \in CR, CreateResource(d) PROVE Untouched(cr) \/ Created(cr)
    <2>1. CASE d = cr
      BY <1>0, <1>2, <2>1 DEF CreateResource, Created
    <2>2. CASE d # cr
      BY <1>0, <1>2, <2>2 DEF CreateResource, Untouched
    <2> QED
      BY <2>1, <2>2
  <1>3. ASSUME NEW d \in CR, EditSpec(d) PROVE Untouched(cr) \/ Edited(cr)
    <2>1. CASE d = cr
      <3>1. crs[cr] \in Resource
        BY <1>0, <1>3, <2>1 DEF EditSpec
      <3> QED
        BY <1>0, <1>3, <2>1, <3>1 DEF EditSpec, Edited, Resource
    <2>2. CASE d # cr
      BY <1>0, <1>3, <2>2 DEF EditSpec, Untouched
    <2> QED
      BY <2>1, <2>2
  <1>4. ASSUME NEW d \in CR, DeleteResource(d) PROVE Untouched(cr) \/ Deleted(cr)
    BY <1>0, <1>4 DEF DeleteResource, Untouched, Deleted
  <1>5. CASE RefuseStatus
    <2>1. \/ crs' = crs
          \/ w.fresh /\ crs' = [crs EXCEPT ![w.cr].avail = w.reason]
      BY <1>5 DEF RefuseStatus, Stored
    <2>2. w.pc = "refuse" /\ uids' = uids
      BY <1>5 DEF RefuseStatus
    <2>3. w.fresh => crs[w.cr] # Nil
      BY <2>2 DEF CopyInv
    <2> QED
      BY <1>0, <1>1, <2>1, <2>2, <2>3 DEF Untouched, Refused, Busy
  <1>6. CASE updateComponentStatuses
    <2>1. \/ crs' = crs
          \/ /\ w.fresh
             /\ \E r \in Reasons :
                  crs' = [crs EXCEPT ![w.cr] = [crs[w.cr] EXCEPT !.avail = r, !.observed = w.gen,
                                                                 !.judged = w.spec]]
      BY <1>0, <1>6 DEF updateComponentStatuses, Stored, WithVerdict, Reasons
    <2>2. w.pc = "write" /\ UNCHANGED <<uids, objs>> /\ w' = Idle
      BY <1>6 DEF updateComponentStatuses, EndAfterDelay, EndWithError
    <2>3. w.fresh => crs[w.cr] # Nil
      BY <2>2 DEF CopyInv
    <2> QED
      BY <1>0, <1>1, <2>1, <2>2, <2>3 DEF Untouched, Judged, Busy
  <1>7. CASE Environment
    BY <1>1, <1>2, <1>3, <1>4, <1>7 DEF Environment, PlatformChanges, GarbageCollect, Drift,
                                        PodsReady, PodsFail, cluster
  <1>8. CASE Ensure
    BY <1>1, <1>8, EnsureCases DEF Upsert, RefusedByWebhook, BuildArgsPanics, cluster
  <1>9. CASE Restart \/ PlatformGate \/ Cleanup \/ ReadComponentStatus \/ UNCHANGED vars
    BY <1>1, <1>9 DEF Restart, PlatformGate, Cleanup, ReadComponentStatus, cluster, vars
  <1>10. ASSUME NEW d \in CR, TimerFires(d) \/ Start(d) \/ StartFails(d) PROVE Untouched(cr)
    BY <1>1, <1>10 DEF TimerFires, Start, StartFails, cluster
  <1> QED
    BY <1>5, <1>6, <1>7, <1>8, <1>9, <1>10 DEF Next, Pass

\* Uids, and with them what the collector may take, follow the creations.
LEMMA UidStep ==
  ASSUME TypeOK, TypeOK', CopyInv, PassInv, UidInv, [Next]_vars
  PROVE  UidInv'
  <1>0. /\ crs \in [CR -> Resource \cup {Nil}] /\ uids \in [CR -> 0 .. MaxUid]
        /\ objs \in [Keys -> Content \cup {Nil}]
        /\ w.cr \in CR /\ w'.cr \in CR /\ w.comp \in Comp /\ w.kind \in Kinds
        /\ w.uid \in Nat /\ \A cr \in CR : uids[cr] \in Nat /\ uids'[cr] \in Nat
    BY ConstantsAssumption DEF TypeOK, Worker
  <1>1. \A cr \in CR : uids[cr] <= uids'[cr] /\ (crs'[cr] # Nil => uids'[cr] # 0)
    <2> SUFFICES ASSUME NEW cr \in CR
                 PROVE  uids[cr] <= uids'[cr] /\ (crs'[cr] # Nil => uids'[cr] # 0)
      OBVIOUS
    <2>1. /\ uids'[cr] = uids[cr] \/ uids'[cr] = uids[cr] + 1
          /\ crs'[cr] # Nil => crs[cr] # Nil \/ uids'[cr] = uids[cr] + 1
      BY ResourceStep, Zenon DEF Untouched, Created, Edited, Deleted, Refused, Judged
    <2>2. crs[cr] # Nil => uids[cr] # 0
      BY DEF UidInv
    <2> QED
      BY <1>0, <2>1, <2>2
  <1>2. w'.pc # "idle" => w'.uid # 0 /\ w'.uid <= uids'[w'.cr]
    <2> SUFFICES ASSUME NEW cr \in CR, Busy(cr)' PROVE w'.uid # 0 /\ w'.uid <= uids'[cr]
      BY <1>0 DEF Busy
    <2>1. uids[cr] <= uids'[cr]
      BY <1>1
    <2>2. CASE Busy(cr) /\ SameCopy(w')
      <3>1. w'.uid = w.uid /\ w.uid # 0 /\ w.uid <= uids[cr]
        BY <2>2 DEF Busy, SameCopy, UidInv
      <3> QED
        BY <1>0, <2>1, <3>1
    <2>3. CASE crs[cr] # Nil /\ w'.uid = uids[cr]
      <3>1. w'.uid = uids[cr] /\ uids[cr] # 0
        BY <2>3 DEF UidInv
      <3> QED
        BY <2>1, <3>1
    <2> QED
      BY <2>2, <2>3, CopyKept
  <1>3. ASSUME NEW key \in Keys, objs'[key] # Nil, key.kind \notin ClusterScoped
        PROVE  objs'[key].uid # 0 /\ objs'[key].uid <= uids'[key.owner]
    <2>1. key.owner \in CR
      BY <1>3 DEF Keys, Key
    <2>2. ASSUME objs[key] # Nil, objs'[key].uid = objs[key].uid
          PROVE  objs'[key].uid # 0 /\ objs'[key].uid <= uids'[key.owner]
      <3>1. objs[key].uid # 0 /\ objs[key].uid <= uids[key.owner] /\ objs[key].uid \in Nat
        BY <1>0, <1>3, <2>2, ConstantsAssumption DEF UidInv, Content
      <3> QED
        BY <1>0, <1>1, <2>1, <2>2, <3>1
    <2>3. ASSUME NEW d \in Keys, objs' = [objs EXCEPT ![d] = Nil]
          PROVE  objs[key] # Nil /\ objs'[key].uid = objs[key].uid
      BY <1>0, <1>3, <2>3
    <2>4. ASSUME NEW d \in Keys, NEW b \in BOOLEAN, objs[d] # Nil,
                 objs' = [objs EXCEPT ![d].up = b]
          PROVE  objs[key] # Nil /\ objs'[key].uid = objs[key].uid
      <3>1. objs[d] \in Content
        BY <1>0, <2>4
      <3>2. [objs[d] EXCEPT !.up = b].uid = objs[d].uid
        BY <3>1 DEF Content
      <3> QED
        BY <1>0, <1>3, <2>4, <3>2
    <2>5. ASSUME objs' = objs PROVE objs[key] # Nil /\ objs'[key].uid = objs[key].uid
      BY <1>3, <2>5
    <2>6. CASE Ensure
      <3> DEFINE own == Key(w.cr, w.comp, w.kind)
      <3>1. own \in Keys /\ own.kind = w.kind
        BY <1>0, KeyFacts
      <3>2. CASE objs' = objs
        BY <2>2, <2>5, <3>2
      <3>3. ASSUME NEW new \in Upserts(w.kind), objs' = [objs EXCEPT ![own] = new]
            PROVE  objs'[key].uid # 0 /\ objs'[key].uid <= uids'[key.owner]
        <4>1. CASE key # own
          BY <1>0, <1>3, <2>2, <3>1, <3>3, <4>1
        <4>2. CASE key = own
          <5>1. w.kind \in Kinds \ ClusterScoped /\ key.owner = w.cr /\ objs'[key] = new
            BY <1>0, <1>3, <3>1, <3>3, <4>2, KeyFacts
          <5>2. \/ new.uid = w.uid
                \/ Existing(w.kind) # Nil /\ new.uid = Existing(w.kind).uid
            BY <5>1, UpsertUid
          <5>3. Existing(w.kind) = objs[key]
            BY <4>2 DEF Existing
          <5>4. CASE new.uid = w.uid
            <6>1. w.uid # 0 /\ w.uid <= uids[w.cr]
              BY <2>6, EnsureObjects DEF UidInv
            <6> QED
              BY <1>0, <1>1, <5>1, <5>4, <6>1
          <5> QED
            BY <2>2, <5>1, <5>2, <5>3, <5>4
        <4> QED
          BY <4>1, <4>2
      <3> QED
        BY <2>6, <3>2, <3>3, EnsureObjects
    <2>7. CASE Cleanup
      <3>1. Target \in Keys
        BY <1>0, KeyFacts DEF Target
      <3>2. objs' = objs \/ objs' = [objs EXCEPT ![Target] = Nil]
        BY <2>7 DEF Cleanup, NothingToDelete, LookupFails, DeleteObject
      <3> QED
        BY <2>2, <2>3, <2>5, <3>1, <3>2
    <2>8. CASE Environment
      <3>1. \/ objs' = objs
            \/ \E d \in Keys : objs' = [objs EXCEPT ![d] = Nil]
            \/ \E d \in Keys, b \in BOOLEAN : objs[d] # Nil /\ objs' = [objs EXCEPT ![d].up = b]
        BY <2>8 DEF Environment, CreateResource, EditSpec, DeleteResource, Written,
                    PlatformChanges, GarbageCollect, Drift, PodsReady, PodsFail, cluster
      <3> QED
        BY <2>2, <2>3, <2>4, <2>5, <3>1
    <2>9. ASSUME NEW cr \in CR, TimerFires(cr) \/ Start(cr) \/ StartFails(cr) PROVE objs' = objs
      BY <2>9 DEF TimerFires, Start, StartFails, cluster
    <2>10. ASSUME Restart \/ PlatformGate \/ RefuseStatus \/ ReadComponentStatus
                    \/ updateComponentStatuses \/ UNCHANGED vars
           PROVE  objs' = objs
      BY <2>10 DEF Restart, PlatformGate, RefuseStatus, ReadComponentStatus,
                   updateComponentStatuses, cluster, vars
    <2> QED
      BY <2>2, <2>5, <2>6, <2>7, <2>8, <2>9, <2>10 DEF Next, Pass
  <1> QED
    BY <1>1, <1>2, <1>3 DEF UidInv

\* A verdict is never of a later generation than its resource or its pass.
LEMMA GenStep ==
  ASSUME TypeOK, TypeOK', CopyInv, PassInv, UidInv, GenInv, [Next]_vars
  PROVE  GenInv'
  <1> SUFFICES ASSUME NEW cr \in CR, Original(cr)'
               PROVE  /\ crs'[cr].observed <= crs'[cr].gen
                      /\ Busy(cr)' => /\ w'.gen <= crs'[cr].gen
                                      /\ crs'[cr].observed <= w'.gen
                                      /\ w'.gen = crs'[cr].gen => w'.spec = crs'[cr].spec
    BY DEF GenInv
  <1>0. /\ crs[cr] # Nil => crs[cr] \in Resource
        /\ crs[cr] # Nil => crs[cr].gen \in Nat /\ crs[cr].observed \in Nat
        /\ w.gen \in Nat /\ uids[cr] \in Nat /\ w.uid \in Nat
        /\ w.pc # "idle" => w.cr \in CR
    BY ConstantsAssumption DEF TypeOK, Worker, Resource
  <1>1. /\ Busy(cr)' => \/ Busy(cr) /\ SameCopy(w')
                        \/ /\ crs[cr] # Nil /\ UNCHANGED cluster
                           /\ w'.gen = crs[cr].gen /\ w'.spec = crs[cr].spec
    BY CopyKept
  <1>2. CASE Untouched(cr)
    <2>1. Original(cr)
      BY <1>2 DEF Untouched, Original
    <2> QED
      BY <1>0, <1>1, <1>2, <2>1 DEF Untouched, Original, GenInv, SameCopy
  <1>3. CASE Created(cr)
    <2>1. uids[cr] = 0 /\ crs[cr] = Nil
      BY <1>0, <1>3 DEF Created, Original
    <2>2. ~Busy(cr)
      BY <1>0, <2>1 DEF UidInv, Busy
    <2> QED
      BY <1>1, <1>3, <2>1, <2>2 DEF Created
  <1>4. CASE Edited(cr)
    <2>1. Original(cr)
      BY <1>4 DEF Edited, Original
    <2>2. Busy(cr)' => Busy(cr) /\ SameCopy(w')
      <3>1. crs' # crs
        BY <1>0, <1>4 DEF Edited
      <3> QED
        BY <1>1, <3>1 DEF cluster
    <2> QED
      BY <1>0, <1>4, <2>1, <2>2 DEF Edited, GenInv, SameCopy
  <1>5. CASE Refused(cr)
    <2>1. Original(cr)
      BY <1>5 DEF Refused, Original
    <2>2. /\ crs'[cr].gen = crs[cr].gen /\ crs'[cr].spec = crs[cr].spec
          /\ crs'[cr].observed = crs[cr].observed
      BY <1>0, <1>5 DEF Refused, Resource
    <2> QED
      BY <1>0, <1>1, <1>5, <2>1, <2>2 DEF Refused, GenInv, SameCopy
  <1>6. CASE Judged(cr)
    <2>1. w.gen = crs[cr].gen
      BY <1>6 DEF Judged, Busy, CopyInv
    <2>2. crs'[cr].gen = crs[cr].gen /\ crs'[cr].observed = w.gen
      BY <1>0, <1>6 DEF Judged, Resource
    <2>3. ~Busy(cr)'
      BY <1>6, IdleType DEF Judged, Busy
    <2> QED
      BY <1>0, <2>1, <2>2, <2>3
  <1>7. CASE Deleted(cr)
    BY <1>7 DEF Deleted, Original
  <1> QED
    BY <1>2, <1>3, <1>4, <1>5, <1>6, <1>7, ResourceStep

\* A resource that has been created once was there before, or nobody works on it.
LEMMA OriginalStep ==
  ASSUME TypeOK, CopyInv, UidInv, [Next]_vars, NEW cr \in CR, Original(cr)'
  PROVE  Original(cr) \/ (Created(cr) /\ ~Busy(cr))
  <1>0. uids[cr] \in Nat /\ w.uid \in Nat
    BY ConstantsAssumption DEF TypeOK, Worker
  <1>1. ASSUME Created(cr) PROVE ~Busy(cr)
    <2>1. uids[cr] = 0
      BY <1>0, <1>1 DEF Created, Original
    <2> QED
      BY <1>0, <2>1 DEF UidInv, Busy
  <1>2. ASSUME Untouched(cr) \/ Edited(cr) \/ Refused(cr) \/ Judged(cr) PROVE Original(cr)
    BY <1>2 DEF Untouched, Edited, Refused, Judged, Original
  <1>3. ~Deleted(cr)
    BY DEF Deleted, Original
  <1> QED
    BY <1>1, <1>2, <1>3, ResourceStep

\* Faults are counted and never forgotten.
LEMMA FaultsGrow ==
  ASSUME TypeOK, [Next]_vars, faults' = 0
  PROVE  faults = 0
  <1>0. faults \in Nat
    BY ConstantsAssumption DEF TypeOK
  <1>1. ASSUME NEW o, Charge(o) PROVE faults = 0
    BY <1>0, <1>1 DEF Charge
  <1>2. CASE UNCHANGED faults
    BY <1>2
  <1>3. CASE Environment
    BY <1>0, <1>3 DEF Environment, CreateResource, EditSpec, DeleteResource, Written,
                      PlatformChanges, GarbageCollect, Drift, PodsReady, PodsFail
  <1>4. CASE Ensure
    BY <1>1, <1>4, EnsureCases DEF Upsert, RefusedByWebhook, BuildArgsPanics
  <1>5. CASE PlatformGate \/ RefuseStatus \/ ReadComponentStatus \/ updateComponentStatuses
    BY <1>1, <1>5 DEF PlatformGate, RefuseStatus, ReadComponentStatus, updateComponentStatuses
  <1>6. CASE Cleanup
    BY <1>1, <1>6 DEF Cleanup, NothingToDelete, LookupFails, DeleteObject
  <1>7. CASE Restart
    BY <1>0, <1>7 DEF Restart
  <1>8. ASSUME NEW cr \in CR, TimerFires(cr) \/ Start(cr) \/ StartFails(cr) PROVE faults = 0
    BY <1>1, <1>8 DEF TimerFires, Start, StartFails
  <1> QED
    BY <1>2, <1>3, <1>4, <1>5, <1>6, <1>7, <1>8 DEF Next, Pass, vars

\* Nobody else's key is one of cr's.
LEMMA KeyIsOwn ==
  ASSUME NEW cr \in CR, NameIsOwn(cr), NEW c \in Comp, NEW k \in Kinds,
         NEW d \in CR, NEW e \in Comp, NEW l \in Kinds, Key(d, e, l) = Key(cr, c, k)
  PROVE  d = cr /\ e = c /\ l = k
  <1>1. e = c /\ l = k
    BY KeyFacts
  <1>2. (IF k \in ClusterScoped THEN NameOf[d] ELSE d)
          = (IF k \in ClusterScoped THEN NameOf[cr] ELSE cr)
    BY <1>1, KeyFacts
  <1> QED
    BY <1>1, <1>2 DEF NameIsOwn

\* One upsert adds at most one object, of the worker's resource.
LEMMA EnsurePresence ==
  ASSUME TypeOK, Ensure, NEW cr \in CR, NameIsOwn(cr), NEW c \in Comp, NEW k \in Kinds
  PROVE  /\ Present(cr, c, k) => Present(cr, c, k)'
         /\ Present(cr, c, k)' => \/ Present(cr, c, k)
                                  \/ w.cr = cr /\ w.comp = c /\ w.kind = k
  <1>0. /\ w.cr \in CR /\ w.comp \in Comp /\ w.kind \in Kinds
        /\ objs \in [Keys -> Content \cup {Nil}] /\ Nil \notin Content
    BY ConstantsAssumption DEF TypeOK, Worker
  <1> DEFINE own == Key(cr, c, k)
             key == Key(w.cr, w.comp, w.kind)
  <1>1. own \in Keys /\ key \in Keys
    BY <1>0, KeyFacts
  <1>2. own = key => w.cr = cr /\ w.comp = c /\ w.kind = k
    BY <1>0, KeyIsOwn
  <1>3. objs' = objs \/ \E new \in Content : objs' = [objs EXCEPT ![key] = new]
    BY EnsureObjects
  <1>4. /\ objs[own] # Nil => objs'[own] # Nil
        /\ objs'[own] # Nil => objs[own] # Nil \/ own = key
    <2> HIDE DEF own, key
    <2> QED
      BY <1>0, <1>1, <1>3
  <1> QED
    BY <1>2, <1>4 DEF Present

\* A cleanup takes away at most one object, of the worker's resource.
LEMMA CleanupPresence ==
  ASSUME TypeOK, PassInv, Cleanup, NEW cr \in CR, NameIsOwn(cr), NEW c \in Comp, NEW k \in Kinds
  PROVE  /\ Present(cr, c, k)' => Present(cr, c, k)
         /\ Present(cr, c, k) => \/ Present(cr, c, k)'
                                 \/ w.cr = cr /\ w.comp = c /\ w.kind = k
  <1>0. /\ w.cr \in CR /\ w.comp \in Comp /\ w.kind \in Kinds
        /\ objs \in [Keys -> Content \cup {Nil}]
    BY DEF TypeOK, Worker
  <1> DEFINE own == Key(cr, c, k)
  <1>1. own \in Keys /\ Target \in Keys
    BY <1>0, KeyFacts DEF Target
  <1>2. own = Target => w.cr = cr /\ w.comp = c /\ w.kind = k
    BY <1>0, KeyIsOwn DEF Target
  <1>3. objs' = objs \/ objs' = [objs EXCEPT ![Target] = Nil]
    BY DEF Cleanup, NothingToDelete, LookupFails, DeleteObject
  <1>4. /\ objs'[own] # Nil => objs[own] # Nil
        /\ objs[own] # Nil => objs'[own] # Nil \/ own = Target
    <2> HIDE DEF own
    <2> QED
      BY <1>0, <1>1, <1>3
  <1> QED
    BY <1>2, <1>4 DEF Present

\* Users, kubelets and the collector take nothing from a resource that was created
\* once and exists, if outsiders do not.
LEMMA EnvironmentPresence ==
  ASSUME TypeOK, UidInv, DriftKinds = {}, Environment,
         NEW cr \in CR, Original(cr), NEW c \in Comp, NEW k \in Kinds
  PROVE  Present(cr, c, k)' <=> Present(cr, c, k)
  <1> DEFINE own == Key(cr, c, k)
  <1>0. /\ own \in Keys /\ own.kind = k
        /\ k \notin ClusterScoped => own.owner = cr
    BY KeyFacts
  <1>1. objs \in [Keys -> Content \cup {Nil}] /\ Nil \notin Content
    BY ConstantsAssumption DEF TypeOK
  <1> SUFFICES objs'[own] # Nil <=> objs[own] # Nil
    BY DEF Present
  <1> HIDE DEF own
  <1>2. ASSUME NEW key \in Keys, GarbageCollect(key) PROVE objs'[own] # Nil <=> objs[own] # Nil
    <2>1. key # own
      <3> SUFFICES ASSUME key = own PROVE FALSE
        OBVIOUS
      <3>1. objs[own] # Nil /\ k \notin ClusterScoped /\ ~Live(own)
        BY <1>0, <1>2 DEF GarbageCollect
      <3>2. objs[own].uid # 0 /\ objs[own].uid <= uids[cr] /\ objs[own].uid \in Nat
        BY <1>0, <1>1, <3>1, ConstantsAssumption DEF UidInv, Content
      <3>3. objs[own].uid = 1
        BY <3>2 DEF Original
      <3> QED
        BY <1>0, <3>1, <3>3 DEF Live, Original
    <2> QED
      BY <1>0, <1>1, <1>2, <2>1 DEF GarbageCollect
  <1>3. ASSUME NEW key \in Keys, Drift(key) PROVE FALSE
    BY <1>3 DEF Drift
  <1>4. ASSUME NEW key \in Keys, PodsReady(key) \/ PodsFail(key)
        PROVE  objs'[own] # Nil <=> objs[own] # Nil
    <2>1. PICK b \in BOOLEAN : objs[key] # Nil /\ objs' = [objs EXCEPT ![key].up = b]
      BY <1>4 DEF PodsReady, PodsFail
    <2>2. [objs[key] EXCEPT !.up = b] \in Content
      BY <1>1, <2>1 DEF Content
    <2> QED
      BY <1>0, <1>1, <2>1, <2>2
  <1>5. ASSUME NEW d \in CR, CreateResource(d) \/ EditSpec(d) \/ DeleteResource(d)
        PROVE  objs' = objs
    BY <1>5 DEF CreateResource, EditSpec, DeleteResource, Written
  <1>6. ASSUME PlatformChanges PROVE objs' = objs
    BY <1>6 DEF PlatformChanges, cluster
  <1> QED
    BY <1>2, <1>3, <1>4, <1>5, <1>6 DEF Environment

\* What an upsert that lets the pass go on has made.
LEMMA EnsureWorker ==
  ASSUME TypeOK, PassInv, Ensure
  PROVE  \/ w' = Idle
         \/ w' = Advance /\ (w.kind = "scc" \/ objs'[Key(w.cr, w.comp, w.kind)] # Nil)
  <1>0. /\ w.cr \in CR /\ w.comp \in Comp /\ w.kind \in Kinds
        /\ objs \in [Keys -> Content \cup {Nil}] /\ Nil \notin Content
    BY ConstantsAssumption DEF TypeOK, Worker
  <1>1. ASSUME NEW k \in Kinds, NEW new \in Upserts(k), Upsert(k, new)
        PROVE  \/ w' = Idle
               \/ w' = Advance /\ (w.kind = "scc" \/ objs'[Key(w.cr, w.comp, w.kind)] # Nil)
    <2> DEFINE key == Key(w.cr, w.comp, w.kind)
    <2>1. PICK o \in Outcomes :
            /\ objs' = IF o = "refused" THEN objs
                                        ELSE [objs EXCEPT ![Key(w.cr, w.comp, k)] = new]
            /\ AfterUpsert(o, k)
      BY <1>1 DEF Upsert
    <2>2. w.kind = k /\ key \in Keys /\ new \in Content
      <3>1. w.kind = k
        BY <1>1 DEF Upsert
      <3>2. key \in Keys
        BY <1>0, KeyFacts
      <3>3. new \in Content
        BY BuiltFacts DEF Upserts
      <3> QED
        BY <3>1, <3>2, <3>3
    <2>3. CASE w' = Advance /\ o = "ok"
      <3>1. objs' = [objs EXCEPT ![key] = new]
        BY <2>1, <2>2, <2>3
      <3>2. objs'[key] # Nil
        <4> HIDE DEF key
        <4> QED
          BY <1>0, <2>2, <3>1
      <3> QED
        BY <2>3, <3>2
    <2> QED
      BY <2>1, <2>2, <2>3 DEF AfterUpsert, EndAfterDelay
  <1>2. CASE RefusedByWebhook \/ BuildArgsPanics
    BY <1>2 DEF RefusedByWebhook, BuildArgsPanics, EndAfterDelay, EndWithError
  <1> QED
    BY <1>1, <1>2, EnsureCases

\* As long as nothing fails, a cleanup leaves nothing behind.
LEMMA CleanupWorker ==
  ASSUME TypeOK, Cleanup
  PROVE  /\ w.pc = "clean" /\ w' \in {NextCleanup, Leave(w.comp)}
         /\ faults' = 0 => w' = NextCleanup /\ objs'[Target] = Nil
  <1>0. /\ w.cr \in CR /\ w.comp \in Comp /\ w.kind \in Kinds /\ faults \in Nat
        /\ objs \in [Keys -> Content \cup {Nil}]
    BY ConstantsAssumption DEF TypeOK, Worker
  <1>1. Target \in Keys
    BY <1>0, KeyFacts DEF Target
  <1>2. w.pc = "clean"
    BY DEF Cleanup
  <1>3. CASE NothingToDelete
    BY <1>2, <1>3 DEF NothingToDelete
  <1>4. CASE LookupFails
    <2>1. faults' # 0
      BY <1>0, <1>4 DEF LookupFails, Charge
    <2> QED
      BY <1>2, <1>4, <2>1 DEF LookupFails
  <1>5. CASE DeleteObject
    <2>1. PICK o \in Outcomes :
            /\ Charge(o)
            /\ objs' = IF o = "refused" THEN objs ELSE [objs EXCEPT ![Target] = Nil]
            /\ w' = IF o = "ok" THEN NextCleanup ELSE Leave(w.comp)
      BY <1>5 DEF DeleteObject
    <2>2. faults' = 0 => o = "ok"
      BY <1>0, <2>1 DEF Charge
    <2> QED
      BY <1>0, <1>1, <1>2, <2>1, <2>2
  <1> QED
    BY <1>3, <1>4, <1>5 DEF Cleanup

\* The worker's next steps, as far as its place is concerned.
LEMMA PathStep ==
  ASSUME TypeOK, PassInv, PathInv, [Next]_vars
  PROVE  PathInv'
  <1>0. /\ w \in Worker /\ w.comp \in Comp
    BY DEF TypeOK, Worker
  <1>1. ASSUME SameCopy(w'), SamePlace(w') PROVE PathInv'
    BY <1>1 DEF PathInv, SameCopy, SamePlace
  <1>2. ASSUME w'.pc \notin {"ensure", "clean", "refuse"} PROVE PathInv'
    BY <1>2 DEF PathInv
  <1>3. ASSUME w' = Idle PROVE PathInv'
    BY <1>2, <1>3, IdleType
  <1>4. ASSUME w' = Leave(w.comp) PROVE PathInv'
    BY <1>0, <1>4, LeavePlace DEF PathInv, SameCopy
  <1>5. CASE Environment
    BY <1>1, <1>5, EnvironmentWorker
  <1>6. ASSUME NEW cr \in CR, TimerFires(cr) \/ StartFails(cr) PROVE PathInv'
    BY <1>6 DEF TimerFires, StartFails, PathInv
  <1>7. ASSUME NEW cr \in CR, Start(cr) PROVE PathInv'
    <2>1. w' = Idle \/ w'.pc = "gate"
      BY <1>7, IdleType DEF Start, Worker
    <2> QED
      BY <1>2, <1>3, <2>1
  <1>8. CASE PlatformGate
    BY <1>8, GateSteps DEF PathInv, SameCopy
  <1>9. CASE RefuseStatus \/ updateComponentStatuses \/ Restart
    BY <1>3, <1>9 DEF RefuseStatus, updateComponentStatuses, Restart, EndAfterDelay, EndWithError
  <1>10. CASE Ensure
    <2>1. w.pc = "ensure"
      BY <1>10, EnsureObjects
    <2>2. CASE w' = Advance /\ ~Last(w.comp, w.kind)
      BY <2>1, <2>2, AdvancePlace DEF PathInv, SameCopy
    <2> QED
      BY <1>3, <1>4, <1>10, <2>1, <2>2, EnsureWorker, AdvancePlace
  <1>11. CASE Cleanup
    <2>1. w.pc = "clean" /\ (w' = NextCleanup \/ w' = Leave(w.comp))
      BY <1>11, CleanupWorker
    <2>2. CASE w' = [w EXCEPT !.kind = "webhook"] /\ w.comp = "admission"
      BY <1>0, <2>1, <2>2 DEF PathInv, Worker
    <2> QED
      BY <1>4, <2>1, <2>2 DEF NextCleanup
  <1>12. CASE ReadComponentStatus
    <2>1. w'.pc \in {"write", "read"}
      BY <1>0, <1>12 DEF ReadComponentStatus, Worker
    <2> QED
      BY <1>2, <2>1
  <1>13. CASE UNCHANGED vars
    BY <1>13 DEF vars, PathInv
  <1> QED
    BY <1>5, <1>6, <1>7, <1>8, <1>9, <1>10, <1>11, <1>12, <1>13 DEF Next, Pass

\* What a pass has done stays done until it ends.
LEMMA DoneStep ==
  ASSUME TypeOK, TypeOK', CopyInv, PassInv, UidInv, PathInv, DoneInv, DriftKinds = {}, [Next]_vars
  PROVE  DoneInv'
  <1> SUFFICES ASSUME NEW cr \in CR, Original(cr)', NameIsOwn(cr), Busy(cr)'
               PROVE  /\ \A c \in Behind(w') \cap w'.spec.on : Made(cr, c)'
                      /\ w'.pc = "ensure" =>
                           \A k \in Before(w'.comp, w'.kind) : objs'[Key(cr, w'.comp, k)] # Nil
                      /\ faults' = 0 =>
                           /\ \A c \in Behind(w') \ w'.spec.on : Gone(cr, c)'
                           /\ w'.pc = "clean" /\ w'.kind = "webhook"
                                => ~Present(cr, "admission", "work")'
    BY DEF DoneInv, NameIsOwn, Present
  <1> DEFINE Goal == /\ \A c \in Behind(w') \cap w'.spec.on : Made(cr, c)'
                     /\ w'.pc = "ensure" =>
                          \A k \in Before(w'.comp, w'.kind) : objs'[Key(cr, w'.comp, k)] # Nil
                     /\ faults' = 0 =>
                          /\ \A c \in Behind(w') \ w'.spec.on : Gone(cr, c)'
                          /\ w'.pc = "clean" /\ w'.kind = "webhook"
                               => ~Present(cr, "admission", "work")'
  <1>0. /\ w \in Worker /\ w.comp \in Comp /\ w.kind \in Kinds /\ w' \in Worker
        /\ detected \in BOOLEAN
        /\ \A v \in {w, w'} : Behind(v) \subseteq Comp
        /\ \A c \in Comp : KindsOf(c) \subseteq Kinds
        /\ {"work", "webhook"} \subseteq Kinds /\ "admission" \in Comp
    BY ConstantsAssumption DEF TypeOK, Worker, Detections, Behind, Earlier, Comp, Kinds, KindsOf
  <1>1. CASE w'.pc = "gate"
    BY <1>1 DEF Behind
  <1>2. w'.pc = "gate" \/ (Busy(cr) /\ SameCopy(w'))
    BY CopyKept
  <1>3. SUFFICES ASSUME Busy(cr), SameCopy(w') PROVE Goal
    BY <1>1, <1>2
  <1>4. Original(cr)
    BY <1>3, OriginalStep
  <1>5. /\ \A c \in Behind(w) \cap w.spec.on : Made(cr, c)
        /\ w.pc = "ensure" => \A k \in Before(w.comp, w.kind) : Present(cr, w.comp, k)
        /\ faults' = 0 => /\ \A c \in Behind(w) \ w.spec.on : Gone(cr, c)
                          /\ w.pc = "clean" /\ w.kind = "webhook"
                               => ~Present(cr, "admission", "work")
    BY <1>3, <1>4, FaultsGrow DEF DoneInv
  <1>6. w'.spec = w.spec /\ w.cr = cr
    BY <1>3 DEF SameCopy, Busy
  <1>7. ASSUME \/ SamePlace(w')
               \/ w.pc \in {"read", "write"} /\ w'.pc \in {"read", "write"},
               \A c \in Comp, k \in Kinds : Present(cr, c, k)' <=> Present(cr, c, k)
        PROVE  Goal
    <2>1. Behind(w') = Behind(w)
      BY <1>7 DEF SamePlace, Behind
    <2>2. w'.pc \in {"ensure", "clean"} => SamePlace(w')
      BY <1>7
    <2>3. \A c \in Comp : (Made(cr, c) => Made(cr, c)') /\ (Gone(cr, c) => Gone(cr, c)')
      BY <1>0, <1>7 DEF Made, Gone
    <2>4. w'.pc = "ensure" =>
            \A k \in Before(w'.comp, w'.kind) : objs'[Key(cr, w'.comp, k)] # Nil
      <3> SUFFICES ASSUME w'.pc = "ensure", NEW k \in Before(w'.comp, w'.kind)
                   PROVE  objs'[Key(cr, w'.comp, k)] # Nil
        OBVIOUS
      <3>1. w'.comp = w.comp /\ w'.kind = w.kind /\ w.pc = "ensure"
        BY <2>2 DEF SamePlace
      <3>2. PICK c \in Comp : c = w.comp
        BY <1>0
      <3>3. PICK l \in Kinds : l = w.kind
        BY <1>0
      <3>4. k \in Before(c, l)
        BY <3>1, <3>2, <3>3
      <3>5. k \in Kinds
        BY <1>0, <3>4 DEF Before, Kinds
      <3>6. Present(cr, c, k)
        BY <1>5, <3>1, <3>2, <3>3, <3>4
      <3>7. Present(cr, c, k)'
        BY <1>7, <3>5, <3>6
      <3> QED
        BY <3>1, <3>2, <3>7 DEF Present
    <2>5. faults' = 0 /\ w'.pc = "clean" /\ w'.kind = "webhook"
            => ~Present(cr, "admission", "work")'
      BY <1>0, <1>5, <1>7, <2>2 DEF SamePlace
    <2> QED
      BY <1>0, <1>5, <1>6, <2>1, <2>3, <2>4, <2>5
  <1>8. CASE Environment
    BY <1>4, <1>7, <1>8, EnvironmentWorker, EnvironmentPresence
  <1>9. ASSUME objs' = objs, w' = w PROVE Goal
    BY <1>7, <1>9 DEF SamePlace, Present
  <1>10. ASSUME NEW d \in CR, TimerFires(d) \/ StartFails(d) \/ UNCHANGED vars PROVE Goal
    BY <1>9, <1>10 DEF TimerFires, StartFails, cluster, vars
  <1>11. ASSUME NEW d \in CR, Start(d) PROVE FALSE
    BY <1>3, <1>11 DEF Start, Busy
  <1>12. ASSUME RefuseStatus \/ updateComponentStatuses \/ Restart PROVE FALSE
    BY <1>12, IdleType DEF RefuseStatus, updateComponentStatuses, Restart, EndAfterDelay,
                           EndWithError, Busy
  <1>13. CASE PlatformGate
    <2>1. Behind(w') = {}
      BY <1>13, GateSteps DEF Behind, Earlier
    <2>2. w'.pc = "ensure" => Before(w'.comp, w'.kind) = {}
      BY <1>13, GateSteps DEF Before
    <2>3. w'.pc = "clean" => w'.kind = "work"
      BY <1>13, GateSteps
    <2> QED
      BY <2>1, <2>2, <2>3
  <1>14. CASE ReadComponentStatus
    <2>1. w.pc = "read" /\ w'.pc \in {"read", "write"} /\ objs' = objs
      BY <1>0, <1>14 DEF ReadComponentStatus, Worker, cluster
    <2> QED
      BY <1>7, <2>1 DEF Present
  <1>15. CASE Ensure
    <2>1. /\ w.pc = "ensure" /\ w.comp \in w.spec.on /\ w.kind \in KindsOf(w.comp)
          /\ w' = Advance /\ Behind(w) = Earlier(w.comp)
          /\ w.kind = "scc" \/ objs'[Key(w.cr, w.comp, w.kind)] # Nil
      BY <1>15, EnsureObjects, EnsureWorker, IdleType DEF PathInv, PassInv, Busy, Behind
    <2>2. PICK c0 \in Comp, k0 \in Kinds :
            c0 = w.comp /\ k0 = w.kind /\ k0 \in KindsOf(c0)
      BY <1>0, <2>1
    <2>3. \A c \in Behind(w) \cap w.spec.on : Made(cr, c)'
      BY <1>0, <1>5, <1>15, EnsurePresence DEF Made
    <2>4. faults' = 0 => \A c \in Behind(w) \ w.spec.on : Gone(cr, c)'
      BY <1>0, <1>5, <1>15, <2>1, EnsurePresence DEF Gone
    <2>5. \A k \in (Before(c0, k0) \cup {k0}) \ {"scc"} : Present(cr, c0, k)'
      <3> SUFFICES ASSUME NEW k \in (Before(c0, k0) \cup {k0}) \ {"scc"}
                   PROVE  Present(cr, c0, k)'
        OBVIOUS
      <3>1. k \in Kinds
        BY <1>0, <2>2 DEF Before, KindsOf, Kinds
      <3>2. CASE k \in Before(c0, k0)
        <4>1. Present(cr, c0, k)
          BY <1>5, <2>1, <2>2, <3>2
        <4> QED
          BY <1>15, <3>1, <4>1, EnsurePresence
      <3>3. CASE k = k0
        BY <1>6, <2>1, <2>2, <3>3 DEF Present
      <3> QED
        BY <3>2, <3>3
    <2>6. CASE Last(c0, k0)
      <3>1. w' = Leave(c0)
        BY <2>1, <2>2, <2>6, AdvancePlace
      <3>2. Behind(w') = Behind(w) \cup {c0}
        BY <1>0, <2>1, <2>2, <3>1, LeavePlace
      <3>3. Made(cr, c0)'
        BY <2>2, <2>5, <2>6, BeforeFacts, <1>0 DEF Made
      <3>4. w'.pc = "ensure" => w'.kind = "sa"
        BY <1>0, <3>1, LeavePlace
      <3>5. w'.pc = "clean" => w'.kind = "work"
        BY <1>0, <3>1, LeavePlace
      <3>6. Before(w'.comp, "sa") = {}
        BY DEF Before
      <3> QED
        BY <1>6, <2>1, <2>2, <2>3, <2>4, <3>2, <3>3, <3>4, <3>5, <3>6
    <2>7. CASE ~Last(c0, k0)
      <3>1. w'.pc = "ensure" /\ w'.comp = c0 /\ w'.kind = After(c0, k0)
        BY <2>1, <2>2, <2>7, AdvancePlace
      <3>2. Behind(w') = Behind(w)
        BY <2>1, <2>2, <3>1 DEF Behind
      <3>3. \A k \in Before(c0, After(c0, k0)) : Present(cr, c0, k)'
        BY <1>0, <2>2, <2>5, <2>7, BeforeFacts
      <3> QED
        BY <1>6, <2>3, <2>4, <3>1, <3>2, <3>3 DEF Present
    <2> QED
      BY <2>6, <2>7
  <1>16. CASE Cleanup
    <2>1. /\ w.pc = "clean" /\ w.comp \notin w.spec.on /\ w.kind \in {"work", "webhook"}
          /\ w.kind = "webhook" => w.comp = "admission"
          /\ w' = NextCleanup \/ w' = Leave(w.comp)
          /\ faults' = 0 => w' = NextCleanup /\ objs'[Target] = Nil
          /\ Behind(w) = Earlier(w.comp)
      BY <1>16, CleanupWorker DEF PathInv, PassInv, Behind
    <2>2. PICK c0 \in Comp, k0 \in {"work", "webhook"} : c0 = w.comp /\ k0 = w.kind
      BY <1>0, <2>1
    <2>3. \A c \in Comp \cap w.spec.on : Made(cr, c) => Made(cr, c)'
      BY <1>0, <1>16, <2>1, CleanupPresence DEF Made
    <2>4. \A c \in Comp : Gone(cr, c) => Gone(cr, c)'
      BY <1>0, <1>16, CleanupPresence DEF Gone
    <2>5. faults' = 0 => ~Present(cr, c0, k0)'
      BY <1>6, <2>1, <2>2 DEF Target, Present
    <2>6. CASE w' = [w EXCEPT !.kind = "webhook"] /\ c0 = "admission" /\ k0 = "work"
      <3>1. w'.pc = "clean" /\ w'.comp = w.comp
        BY <1>0, <2>1, <2>6 DEF Worker
      <3>2. Behind(w') = Behind(w)
        BY <2>1, <3>1 DEF Behind
      <3> QED
        BY <1>0, <1>5, <1>6, <2>3, <2>4, <2>5, <2>6, <3>1, <3>2
    <2>7. CASE w' = Leave(c0)
      <3>1. Behind(w') = Behind(w) \cup {c0}
        BY <2>1, <2>2, <2>7, <1>0, LeavePlace
      <3>2. w'.pc = "ensure" => w'.kind = "sa"
        BY <1>0, <2>7, LeavePlace
      <3>3. w'.pc = "clean" => w'.kind = "work"
        BY <1>0, <2>7, LeavePlace
      <3>4. Before(w'.comp, "sa") = {}
        BY DEF Before
      <3>5. faults' = 0 => Gone(cr, c0)'
        <4> SUFFICES ASSUME faults' = 0 PROVE Gone(cr, c0)'
          OBVIOUS
        <4>1. CASE k0 = "webhook"
          <5>1. c0 = "admission" /\ ~Present(cr, "admission", "work")
            BY <1>5, <2>1, <2>2, <4>1
          <5>2. ~Present(cr, "admission", "work")'
            BY <1>0, <1>16, <5>1, CleanupPresence
          <5> QED
            BY <2>5, <4>1, <5>1, <5>2 DEF Gone
        <4>2. CASE k0 = "work" /\ c0 # "admission"
          BY <2>5, <4>2 DEF Gone
        <4>3. ~(k0 = "work" /\ c0 = "admission")
          <5> SUFFICES ASSUME k0 = "work", c0 = "admission" PROVE FALSE
            OBVIOUS
          <5>1. w' = [w EXCEPT !.kind = "webhook"]
            BY <2>1, <2>2 DEF NextCleanup
          <5>2. w'.kind = "webhook" /\ w'.pc = "clean"
            BY <1>0, <2>1, <5>1 DEF Worker
          <5> QED
            BY <3>3, <5>2
        <4> QED
          BY <4>1, <4>2, <4>3
      <3> QED
        BY <1>0, <1>5, <1>6, <2>1, <2>2, <2>3, <2>4, <3>1, <3>2, <3>3, <3>4, <3>5
    <2> QED
      BY <2>1, <2>2, <2>6, <2>7 DEF NextCleanup
  <1> QED
    BY <1>8, <1>10, <1>11, <1>12, <1>13, <1>14, <1>15, <1>16 DEF Next, Pass

\* What a verdict of cr that is in force vouches for.
AsAsked(cr) == /\ \A c \in crs[cr].spec.on : Made(cr, c)
               /\ faults = 0 => \A c \in Comp \ crs[cr].spec.on : Gone(cr, c)

\* AvailableMeansDeployed in these words.
LEMMA DeployedMeans ==
  AvailableMeansDeployed <=> \A cr \in CR : Vouched(cr) => AsAsked(cr)
  <1>1. "admission" \in Comp
    BY DEF Comp
  <1> QED
    BY <1>1 DEF AvailableMeansDeployed, AsAsked, Made, Gone

\* A pass that gives or outlives a verdict in force works on the spec it is about.
LEMMA VerdictStands ==
  ASSUME TypeOK, GenInv, NEW cr \in CR, Vouched(cr), Busy(cr)
  PROVE  w.spec = crs[cr].spec
  <1>1. crs[cr].gen \in Nat /\ w.gen \in Nat
    BY ConstantsAssumption DEF TypeOK, Worker, Resource, Vouched, Original
  <1> QED
    BY <1>1 DEF GenInv, Vouched

\* While a verdict is in force nothing it vouches for is taken away.
LEMMA DeployedStays ==
  ASSUME TypeOK, PassInv, UidInv, GenInv, PathInv, [Next]_vars,
         NEW cr \in CR, Vouched(cr), AsAsked(cr)
  PROVE  /\ \A c \in crs[cr].spec.on : Made(cr, c)'
         /\ faults' = 0 => \A c \in Comp \ crs[cr].spec.on : Gone(cr, c)'
  <1> DEFINE Goal == /\ \A c \in crs[cr].spec.on : Made(cr, c)'
                     /\ faults' = 0 => \A c \in Comp \ crs[cr].spec.on : Gone(cr, c)'
  <1>0. /\ crs[cr].spec.on \subseteq Comp
        /\ \A c \in Comp : KindsOf(c) \subseteq Kinds
        /\ {"work", "webhook"} \subseteq Kinds
    BY ConstantsAssumption DEF TypeOK, Resource, Vouched, Original, Kinds, KindsOf
  <1>1. faults' = 0 => faults = 0
    BY FaultsGrow
  <1>2. ASSUME \A c \in Comp, k \in Kinds : Present(cr, c, k)' <=> Present(cr, c, k)
        PROVE  Goal
    BY <1>0, <1>1, <1>2 DEF AsAsked, Made, Gone
  <1>3. ASSUME objs' = objs PROVE Goal
    BY <1>2, <1>3 DEF Present
  <1>4. CASE Environment
    BY <1>2, <1>4, EnvironmentPresence DEF Vouched
  <1>5. CASE Ensure
    <2>1. w.cr = cr => w.comp \in crs[cr].spec.on
      BY <1>5, EnsureObjects, VerdictStands DEF PathInv, Busy
    <2>2. \A c \in Comp, k \in Kinds : Present(cr, c, k) => Present(cr, c, k)'
      BY <1>5, EnsurePresence DEF Vouched
    <2>3. \A c \in Comp \ crs[cr].spec.on, k \in Kinds : Present(cr, c, k)' => Present(cr, c, k)
      BY <1>5, <2>1, EnsurePresence DEF Vouched
    <2> QED
      BY <1>0, <1>1, <2>2, <2>3 DEF AsAsked, Made, Gone
  <1>6. CASE Cleanup
    <2>1. w.cr = cr => w.comp \notin crs[cr].spec.on
      BY <1>6, CleanupWorker, VerdictStands DEF PathInv, Busy
    <2>2. \A c \in Comp, k \in Kinds : Present(cr, c, k)' => Present(cr, c, k)
      BY <1>6, CleanupPresence DEF Vouched
    <2>3. \A c \in crs[cr].spec.on, k \in Kinds : Present(cr, c, k) => Present(cr, c, k)'
      BY <1>0, <1>6, <2>1, CleanupPresence DEF Vouched
    <2> QED
      BY <1>0, <1>1, <2>2, <2>3 DEF AsAsked, Made, Gone
  <1>7. ASSUME NEW d \in CR, TimerFires(d) \/ Start(d) \/ StartFails(d) PROVE Goal
    BY <1>3, <1>7 DEF TimerFires, Start, StartFails, cluster
  <1>8. CASE Restart \/ PlatformGate \/ RefuseStatus \/ ReadComponentStatus
               \/ updateComponentStatuses \/ UNCHANGED vars
    BY <1>3, <1>8 DEF Restart, PlatformGate, RefuseStatus, ReadComponentStatus,
                      updateComponentStatuses, cluster, vars
  <1> QED
    BY <1>4, <1>5, <1>6, <1>7, <1>8 DEF Next, Pass

\* A verdict in force was so before, or is given now by a pass over the stored spec
\* that has come to its end.
LEMMA VouchedStep ==
  ASSUME TypeOK, CopyInv, GenInv, PathInv, [Next]_vars, NEW cr \in CR, Vouched(cr)'
  PROVE  \/ Vouched(cr) /\ Untouched(cr)
         \/ /\ Original(cr) /\ Busy(cr) /\ Behind(w) = Comp /\ objs' = objs
            /\ crs'[cr].spec = w.spec
  <1>0. /\ crs[cr] # Nil => crs[cr] \in Resource
        /\ crs[cr] # Nil => crs[cr].gen \in Nat /\ crs[cr].observed \in Nat
        /\ crs'[cr] # Nil /\ uids'[cr] = 1
        /\ crs'[cr].avail = "AllComponentsReady" /\ crs'[cr].observed = crs'[cr].gen
    BY ConstantsAssumption DEF TypeOK, Resource, Vouched, Original
  <1>1. CASE Untouched(cr)
    BY <1>0, <1>1 DEF Untouched, Vouched, Original, NameIsOwn
  <1>2. ~Created(cr) /\ ~Deleted(cr)
    BY <1>0 DEF Created, Deleted
  <1>3. ~Edited(cr)
    BY <1>0 DEF Edited, GenInv, Original
  <1>4. ~Refused(cr)
    <2> SUFFICES ASSUME Refused(cr) PROVE FALSE
      OBVIOUS
    <2>1. w.reason # "AllComponentsReady"
      BY DEF Refused, PathInv
    <2>2. crs'[cr].avail = w.reason
      BY <1>0 DEF Refused, Resource
    <2> QED
      BY <1>0, <2>1, <2>2
  <1>5. CASE Judged(cr)
    <2>1. Original(cr) /\ Busy(cr) /\ Behind(w) = Comp /\ objs' = objs
      BY <1>0, <1>5 DEF Judged, Original, Behind
    <2>2. crs'[cr].spec = w.spec
      <3>1. crs'[cr].spec = crs[cr].spec
        BY <1>0, <1>5 DEF Judged, Resource
      <3> QED
        BY <1>5, <3>1 DEF Judged, CopyInv, Busy
    <2> QED
      BY <2>1, <2>2
  <1> QED
    BY <1>1, <1>2, <1>3, <1>4, <1>5, ResourceStep

\* A verdict is given by a pass that has done what it vouches for.
LEMMA DeployedStep ==
  ASSUME TypeOK, CopyInv, PassInv, UidInv, GenInv, PathInv, DoneInv, DriftKinds = {},
         \A cr \in CR : Vouched(cr) => AsAsked(cr), [Next]_vars
  PROVE  (\A cr \in CR : Vouched(cr) => AsAsked(cr))'
  <1> SUFFICES ASSUME NEW cr \in CR, Vouched(cr)' PROVE AsAsked(cr)'
    OBVIOUS
  <1>1. CASE Vouched(cr) /\ Untouched(cr)
    BY <1>1, DeployedStays DEF Untouched, AsAsked
  <1>2. CASE /\ Original(cr) /\ Busy(cr) /\ Behind(w) = Comp /\ objs' = objs
             /\ crs'[cr].spec = w.spec
    <2>1. NameIsOwn(cr) /\ w.spec.on \subseteq Comp
      BY ConstantsAssumption DEF Vouched, NameIsOwn, TypeOK, Worker
    <2>2. /\ \A c \in w.spec.on : Made(cr, c)
          /\ faults = 0 => \A c \in Comp \ w.spec.on : Gone(cr, c)
      BY <1>2, <2>1 DEF DoneInv
    <2>3. \A c : Made(cr, c)' = Made(cr, c) /\ Gone(cr, c)' = Gone(cr, c)
      BY <1>2 DEF Made, Gone, Present
    <2> QED
      BY <1>2, <2>2, <2>3, FaultsGrow DEF AsAsked
  <1> QED
    BY <1>1, <1>2, VouchedStep

\* The first state has neither verdicts nor objects.
LEMMA InitDeploys ==
  ASSUME Init
  PROVE  UidInv /\ GenInv /\ PathInv /\ DoneInv /\ \A cr \in CR : Vouched(cr) => AsAsked(cr)
  <1>1. \A cr \in CR : ~Original(cr)
    BY DEF Init, Original
  <1>2. UidInv /\ PathInv
    BY IdleType DEF Init, UidInv, PathInv
  <1> QED
    BY <1>1, <1>2 DEF GenInv, DoneInv, Vouched

\* What holds of every pass as long as no outsider deletes objects.
PassesInv == TypeOK /\ CopyInv /\ PassInv /\ UidInv /\ GenInv /\ PathInv /\ DoneInv

LEMMA PassesInvStep ==
  ASSUME DriftKinds = {}, PassesInv, [Next]_vars
  PROVE  PassesInv'
  <1> USE DEF PassesInv
  <1>1. TypeOK' /\ CopyInv'
    BY TypeStep
  <1>2. PassInv'
    BY PassInvStep DEF RightsSafe
  <1>3. UidInv' /\ GenInv' /\ PathInv' /\ DoneInv'
    BY <1>1, UidStep, GenStep, PathStep, DoneStep
  <1> QED
    BY <1>1, <1>2, <1>3

\* Passes are what they should be, from the first state on.
LEMMA PassesKeep ==
  ASSUME DriftKinds = {}
  PROVE  Spec => []PassesInv
  <1>1. Init => PassesInv
    BY InitEstablishes, InitDeploys DEF PassesInv
  <1>2. PassesInv /\ [Next]_vars => PassesInv'
    BY PassesInvStep
  <1> QED
    BY <1>1, <1>2, PTL DEF Spec

\* Available=True for the current generation means that what the resource asks for
\* has been made, and, if no call failed, that the rest is gone, whichever passes
\* were abandoned, repeated or overtaken before, for any number of resources.
THEOREM AvailableIsDeployed == Spec => []AvailableMeansDeployed
  <1> DEFINE Vouches == \A cr \in CR : Vouched(cr) => AsAsked(cr)
  <1>1. CASE DriftKinds = {}
    <2>1. Init => Vouches
      BY InitDeploys
    <2>2. PassesInv /\ Vouches /\ [Next]_vars => Vouches'
      BY <1>1, DeployedStep DEF PassesInv
    <2>3. Vouches => AvailableMeansDeployed
      BY DeployedMeans
    <2>4. Spec => []PassesInv
      BY <1>1, PassesKeep
    <2> QED
      BY <2>1, <2>2, <2>3, <2>4, PTL DEF Spec
  <1>2. CASE DriftKinds # {}
    <2>1. AvailableMeansDeployed
      BY <1>2, DeployedMeans DEF Vouched
    <2> QED
      BY <2>1, PTL
  <1> QED
    BY <1>1, <1>2
=============================================================================
