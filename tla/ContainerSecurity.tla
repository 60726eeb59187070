-------------------------- MODULE ContainerSecurity --------------------------
(***************************************************************************)
(* QualysContainerSecurityReconciler                                       *)
(* (internal/controller/qualyscontainersecurity_controller.go).            *)
(*                                                                         *)
(* One worker takes a QualysContainerSecurity from the work queue, reads   *)
(* it, passes the platform gate, and then walks through the four           *)
(* components in a fixed order.  Each upsert or delete it sends to the API *)
(* server is one step, so that users, the garbage collector, the kubelets  *)
(* and a crash of the operator can come between any two of them.           *)
(*                                                                         *)
(* What a field of the cluster state holds is abstracted to what the       *)
(* properties tell apart; see Template.  A resourceVersion is the flag     *)
(* w.fresh: nobody has written the resource since the worker read it.      *)
(***************************************************************************)
EXTENDS Naturals, FiniteSets

CONSTANTS
  CR,           \* the QualysContainerSecurity resources (namespace and name)
  Name,         \* their names
  NameOf,       \* NameOf[cr]: what its cluster-scoped objects are named after
  Specs,        \* the specs a user may write
  Platforms,    \* what reads of the QualysPlatformConfig and its secret may yield
  OnOpenShift,  \* whether the cluster serves the SCC API
  DriftKinds,   \* the kinds of object an outsider may delete
  MaxGen,       \* bound: generations of one resource
  MaxUid,       \* bound: times a resource of one name is created
  MaxFaults,    \* bound: API errors, crashes and outside deletions
  Nil           \* no object, no resource, no template

Comp == {"container", "cluster", "admission", "runtime"}
Kinds == {"sa", "role", "binding", "scc", "cm", "svc", "work", "webhook"}

\* The kinds the reconciler makes for a component ("work" is its DaemonSet or
\* Deployment).
KindsOf(c) == {"sa", "role", "binding", "work"}
                \cup (IF c # "admission" THEN {"scc"} ELSE {"svc", "webhook"})
                \cup (IF c = "container" THEN {"cm"} ELSE {})

ClusterScoped == {"role", "binding", "scc", "webhook"}

(***************************************************************************)
(* What decides the content of a generated object: env stands for the      *)
(* number of environment variables of the container sensor, rest for every *)
(* other field of the component's section, conf for the platform settings. *)
(***************************************************************************)
Template == [env : {s.env : s \in Specs}, rest : {s.rest : s \in Specs}, conf : {p.conf : p \in Platforms}]

\* uid: the owner reference (0: none).  cr: whose namespace the object names.
\* up: a workload's status reports every pod ready.  fail: failurePolicy Fail.
Content == [uid : 0 .. MaxUid, cr : CR, tpl : Template \cup {Nil},
            up : BOOLEAN, fail : BOOLEAN]

Key(cr, c, k) == [owner |-> IF k \in ClusterScoped THEN NameOf[cr] ELSE cr,
                  comp |-> c, kind |-> k]
Keys == {Key(cr, c, k) : cr \in CR, c \in Comp, k \in Kinds}

Reasons == {"none", "PlatformConfigNotFound", "CredentialsNotReady", "SecretRefError",
            "ComponentsNotReady", "AllComponentsReady"}

\* judged is history, which no action reads: the spec of the copy that the last
\* stored verdict and its component statuses were made from.
Resource == [spec : Specs, gen : 1 .. MaxGen, avail : Reasons, observed : 0 .. MaxGen,
             judged : Specs \cup {Nil}]

ASSUME ConstantsAssumption ==
  /\ NameOf \in [CR -> Name]
  /\ CR # {} /\ CR \cap Name = {}
  /\ Specs # {} /\ Platforms # {}
  /\ \A s \in Specs : s.on \subseteq Comp /\ s.fail \in BOOLEAN
  /\ \A p \in Platforms : p.state \in {"absent", "notReady", "refError", "ready"}
  /\ OnOpenShift \in BOOLEAN
  /\ DriftKinds \subseteq Kinds
  /\ MaxGen \in Nat \ {0} /\ MaxUid \in Nat \ {0} /\ MaxFaults \in Nat
  /\ Nil \notin Content /\ Nil \notin Resource /\ Nil \notin Template /\ Nil \notin Specs

VARIABLES
  crs,       \* [CR -> Resource or Nil]: the resources the API server stores
  uids,      \* uids[cr]: the uid given to the last creation of cr
  objs,      \* [Keys -> Content or Nil]: the generated objects
  platform,  \* the outcome of the gate, the settings, those whose secret resolves
  detected,  \* the cached answer of IsOpenShift
  queue,     \* the work queue
  delayed,   \* the RequeueAfter timers that are running
  w,         \* the worker
  faults     \* faults so far

cluster == <<crs, uids, objs>>
queues == <<queue, delayed>>
vars == <<crs, uids, objs, platform, detected, queue, delayed, w, faults>>

\* The worker's control state, and the copy of the resource it read.
PCs == {"idle", "gate", "refuse", "ensure", "clean", "read", "write"}
Worker == [pc : PCs, comp : Comp, kind : Kinds, cr : CR, uid : 0 .. MaxUid,
           gen : 0 .. MaxGen, spec : Specs, fresh : BOOLEAN, conf : {p.conf : p \in Platforms},
           reason : Reasons, allReady : BOOLEAN]

Idle == [pc |-> "idle", comp |-> "container", kind |-> "sa",
         cr |-> CHOOSE cr \in CR : TRUE, uid |-> 0, gen |-> 0,
         spec |-> CHOOSE s \in Specs : TRUE, fresh |-> FALSE,
         conf |-> (CHOOSE p \in Platforms : TRUE).conf, reason |-> "none", allReady |-> TRUE]

\* The first call of IsOpenShift caches its answer for the life of the process;
\* a failed call to the API server answers FALSE.
Detections == {FALSE, OnOpenShift}

Init ==
  /\ crs = [cr \in CR |-> Nil]
  /\ uids = [cr \in CR |-> 0]
  /\ objs = [key \in Keys |-> Nil]
  /\ platform \in Platforms
  /\ detected \in Detections
  /\ queue = {} /\ delayed = {}
  /\ w = Idle
  /\ faults = 0

-----------------------------------------------------------------------------
(***************************** Users and Kubernetes ************************)

\* A write to cr that is not the worker's: its copy is out of date, and the
\* watch puts cr in the queue.
Written(cr) ==
  /\ w' = IF w.pc # "idle" /\ w.cr = cr THEN [w EXCEPT !.fresh = FALSE] ELSE w
  /\ queue' = queue \cup {cr}
  /\ UNCHANGED <<objs, platform, detected, delayed, faults>>

CreateResource(cr) ==
  /\ crs[cr] = Nil /\ uids[cr] < MaxUid
  /\ \E s \in Specs :
       crs' = [crs EXCEPT ![cr] = [spec |-> s, gen |-> 1, avail |-> "none",
                                   observed |-> 0, judged |-> Nil]]
  /\ uids' = [uids EXCEPT ![cr] = @ + 1]
  /\ Written(cr)

EditSpec(cr) ==
  /\ crs[cr] # Nil /\ crs[cr].gen < MaxGen
  /\ \E s \in Specs \ {crs[cr].spec} :
       crs' = [crs EXCEPT ![cr].spec = s, ![cr].gen = @ + 1]
  /\ UNCHANGED uids
  /\ Written(cr)

\* There is no finalizer: a delete removes the resource at once.
DeleteResource(cr) ==
  /\ crs[cr] # Nil
  /\ crs' = [crs EXCEPT ![cr] = Nil]
  /\ UNCHANGED uids
  /\ Written(cr)

\* The platform side: its resource, its conditions and its secret.  None of
\* them is watched by this controller, so nothing is queued.
PlatformChanges ==
  /\ platform' \in Platforms \ {platform}
  /\ UNCHANGED <<cluster, detected, queues, w, faults>>

\* SetupWithManager: a change of an object with an owner reference queues the
\* resource it names; cluster-scoped objects carry none.
Events(key) == IF key.kind \in ClusterScoped THEN {} ELSE {key.owner}

Live(key) == crs[key.owner] # Nil /\ uids[key.owner] = objs[key].uid

GarbageCollect(key) ==
  /\ objs[key] # Nil /\ key.kind \notin ClusterScoped /\ ~Live(key)
  /\ objs' = [objs EXCEPT ![key] = Nil]
  /\ queue' = queue \cup Events(key)
  /\ UNCHANGED <<crs, uids, platform, detected, delayed, w, faults>>

Drift(key) ==
  /\ objs[key] # Nil /\ key.kind \in DriftKinds /\ faults < MaxFaults
  /\ objs' = [objs EXCEPT ![key] = Nil]
  /\ queue' = queue \cup Events(key)
  /\ faults' = faults + 1
  /\ UNCHANGED <<crs, uids, platform, detected, delayed, w>>

\* The backend a webhook points at answers when its Service exists and the
\* admission pods are up.
Backend(cr) ==
  /\ objs[Key(cr, "admission", "svc")] # Nil
  /\ objs[Key(cr, "admission", "work")] # Nil
  /\ objs[Key(cr, "admission", "work")].up

\* The webhook's rules cover pods, DaemonSets and Deployments, on CREATE and
\* UPDATE: with failurePolicy Fail and no backend every such request is refused.
\* Pods that exist may become ready nevertheless.
Blocked == \E key \in Keys : /\ key.kind = "webhook" /\ objs[key] # Nil
                             /\ objs[key].fail /\ ~Backend(objs[key].cr)

PodsReady(key) ==
  /\ key.kind = "work" /\ objs[key] # Nil /\ ~objs[key].up
  /\ objs' = [objs EXCEPT ![key].up = TRUE]
  /\ queue' = queue \cup Events(key)
  /\ UNCHANGED <<crs, uids, platform, detected, delayed, w, faults>>

PodsFail(key) ==
  /\ key.kind = "work" /\ objs[key] # Nil /\ objs[key].up
  /\ objs' = [objs EXCEPT ![key].up = FALSE]
  /\ queue' = queue \cup Events(key)
  /\ UNCHANGED <<crs, uids, platform, detected, delayed, w, faults>>

-----------------------------------------------------------------------------
(***************************** The work queue ******************************)

Begin(c) == IF c \in w.spec.on
              THEN [w EXCEPT !.pc = "ensure", !.comp = c, !.kind = "sa"]
              ELSE [w EXCEPT !.pc = "clean", !.comp = c, !.kind = "work"]

\* Reconcile walks the components in the order of its four blocks.
NextComp == [container |-> "cluster", cluster |-> "admission", admission |-> "runtime",
             runtime |-> "container"]

Leave(c) == IF c = "runtime"
              THEN [w EXCEPT !.pc = "read", !.comp = "container"]
              ELSE Begin(NextComp[c])

\* The order of the calls of reconcileContainerSensor, reconcileClusterSensor,
\* reconcileAdmissionController and reconcileRuntimeSensor.
WithoutService(c) == IF c = "container" THEN "cm" ELSE "work"   \* mutant
AfterBinding(c) == CASE c = "admission" -> "svc"
                     [] c # "admission" /\ detected -> "scc"
                     [] c # "admission" /\ ~detected -> IF c = "container" THEN "cm" ELSE "work"

After(c, k) == CASE k = "sa" -> "role"
                 [] k = "role" -> "binding"
                 [] k = "binding" -> AfterBinding(c)
                 [] k = "scc" -> IF c = "container" THEN "cm" ELSE "work"
                 [] k \in {"cm", "svc"} -> "work"
                 [] k \in {"work", "webhook"} -> "webhook"

Last(c, k) == k = IF c = "admission" THEN "webhook" ELSE "work"

Advance == IF Last(w.comp, w.kind) THEN Leave(w.comp)
                                   ELSE [w EXCEPT !.kind = After(w.comp, w.kind)]

\* A pass that returns RequeueAfter, and one that returns an error.
NoTimer == w' = Idle /\ UNCHANGED delayed   \* mutant: an empty Result is returned
EndAfterDelay == w' = Idle /\ delayed' = delayed \cup {w.cr}
\* Mutant: the error is dropped.
Dropped(events) == w' = Idle /\ queue' = queue \cup events /\ UNCHANGED delayed
EndWithError(events) == /\ w' = Idle
                        /\ queue' = queue \cup events \cup {w.cr}
                        /\ UNCHANGED delayed

\* An API call succeeds, is refused, or is executed but its reply is lost.
Outcomes == {"ok", "refused", "lost"}
Charge(o) == IF o = "ok" THEN UNCHANGED faults
                         ELSE faults < MaxFaults /\ faults' = faults + 1

TimerFires(cr) ==
  /\ cr \in delayed
  /\ delayed' = delayed \ {cr}
  /\ queue' = queue \cup {cr}
  /\ UNCHANGED <<cluster, platform, detected, w, faults>>

(***************************** Reconcile ***********************************)

\* The Get of the resource.  A resource that is gone ends the pass for good.
Start(cr) ==
  /\ w.pc = "idle" /\ cr \in queue
  /\ queue' = queue \ {cr}
  /\ w' = IF crs[cr] = Nil THEN Idle
          ELSE [Idle EXCEPT !.pc = "gate", !.cr = cr, !.uid = uids[cr],
                            !.gen = crs[cr].gen, !.spec = crs[cr].spec, !.fresh = TRUE]
  /\ UNCHANGED <<cluster, platform, detected, delayed, faults>>

\* A Get that fails for another reason returns the error: cr stays queued.
StartFails(cr) ==
  /\ w.pc = "idle" /\ cr \in queue
  /\ Charge("refused")
  /\ UNCHANGED <<cluster, platform, detected, queues, w>>

Refuse(reason) == w' = [w EXCEPT !.pc = "refuse", !.reason = reason]

\* The Get of the QualysPlatformConfig, the CredentialsReady condition and
\* GetSecretRef; any failure of the Get counts as "not found".
PlatformGate ==
  /\ w.pc = "gate"
  /\ \E o \in {"ok", "refused"} :
       /\ Charge(o)
       /\ CASE o = "refused" \/ platform.state = "absent" -> Refuse("PlatformConfigNotFound")
            [] o = "ok" /\ platform.state = "notReady" -> Refuse("CredentialsNotReady")
            [] o = "ok" /\ platform.state = "refError" -> Refuse("SecretRefError")
            [] o = "ok" /\ platform.state = "ready" ->
                 w' = [Begin("container") EXCEPT !.conf = platform.conf]
  /\ UNCHANGED <<cluster, platform, detected, queues>>

\* Status().Update carries the copy's resourceVersion: it is refused with a
\* conflict when somebody wrote the resource in between.
Unconditional(o) == o # "refused" /\ crs[w.cr] # Nil   \* mutant: no precondition
Stored(o) == o # "refused" /\ w.fresh
Changed == IF crs' # crs THEN {w.cr} ELSE {}

\* The early return of the gate; a failed status update is only logged.
RefuseStatus ==
  /\ w.pc = "refuse"
  /\ \E o \in Outcomes :
       /\ Charge(o)
       /\ crs' = IF Stored(o) THEN [crs EXCEPT ![w.cr].avail = w.reason] ELSE crs
  /\ queue' = queue \cup Changed
  /\ EndAfterDelay
  /\ UNCHANGED <<uids, objs, platform, detected>>

Tpl(k) == IF k \in {"work", "cm"} \/ (k = "scc" /\ w.comp = "container")
            THEN [env |-> w.spec.env, rest |-> w.spec.rest, conf |-> w.conf]
            ELSE Nil

\* The object the builders make for this pass.
Fresh(k) == [uid |-> IF k \in ClusterScoped THEN 0 ELSE w.uid, cr |-> w.cr,
             tpl |-> Tpl(k), up |-> FALSE, fail |-> k = "webhook" /\ w.spec.fail]

\* Mutant: no error is returned.
GoOn(o, k) == w' = Advance /\ UNCHANGED delayed

\* An error ends the pass without a status update; only an SCC's is logged
\* and the pass goes on.
AfterUpsert(o, k) == IF o = "ok" \/ k = "scc" THEN w' = Advance /\ UNCHANGED delayed
                                              ELSE EndAfterDelay

\* One upsert: Get, then Create or Update of the object.  An update keeps the
\* owner reference and the status of what exists.
Upsert(k, new) ==
  LET key == Key(w.cr, w.comp, k) IN
  /\ w.pc = "ensure" /\ w.kind = k
  /\ \E o \in Outcomes :
       /\ Charge(o)
       /\ objs' = IF o = "refused" THEN objs ELSE [objs EXCEPT ![key] = new]
       /\ queue' = queue \cup (IF objs' # objs THEN Events(key) ELSE {})
       /\ AfterUpsert(o, k)
  /\ UNCHANGED <<crs, uids, platform, detected>>

Existing(k) == objs[Key(w.cr, w.comp, k)]

\* Only labels, rules or ports, the same for every spec, are rewritten.
reconcileServiceAccount ==
  Upsert("sa", IF Existing("sa") = Nil THEN Fresh("sa") ELSE Existing("sa"))
reconcileClusterRole == Upsert("role", Fresh("role"))
reconcileAdmissionService ==
  Upsert("svc", IF Existing("svc") = Nil THEN Fresh("svc") ELSE Existing("svc"))

\* The subject, the users and the webhook's service are those of this resource.
reconcileClusterRoleBinding == Upsert("binding", Fresh("binding"))
reconcileSCC == Upsert("scc", Fresh("scc"))
reconcileValidatingWebhook == Upsert("webhook", Fresh("webhook"))

reconcileContainerSensorConfigMap ==
  Upsert("cm", IF Existing("cm") = Nil THEN Fresh("cm")
                                       ELSE [Existing("cm") EXCEPT !.tpl = Tpl("cm")])

\* A DaemonSet or Deployment: the request, if the code sends one, may be
\* refused by a webhook that has no backend.
Workload(c, sent, new) ==
  /\ w.comp = c
  /\ IF sent /\ Blocked
       THEN /\ w.pc = "ensure" /\ w.kind = "work"
            /\ EndAfterDelay
            /\ UNCHANGED <<cluster, platform, detected, queue, faults>>
       ELSE Upsert("work", new)

\* Mutant: what exists is left alone.
KeepExisting == IF Existing("work") = Nil THEN Fresh("work") ELSE Existing("work")

Rebuilt == IF Existing("work") = Nil THEN Fresh("work")
                                     ELSE [Existing("work") EXCEPT !.tpl = Tpl("work")]

\* An existing DaemonSet is rewritten only if its environment has another length.
reconcileContainerSensorDaemonSet ==
  LET differs == Existing("work") = Nil \/ Existing("work").tpl.env # w.spec.env
  IN  Workload("container", differs, IF differs THEN Rebuilt ELSE Existing("work"))

\* The arguments of the cluster and runtime sensors hold the credentials of the
\* secret that the settings read at the gate refer to.
Resolves == w.conf \in platform.usable

\* An existing Deployment is left as it is.
reconcileClusterSensorDeployment ==
  LET absent == Existing("work") = Nil
  IN  Resolves /\ Workload("cluster", absent, IF absent THEN Fresh("work") ELSE Existing("work"))

reconcileAdmissionDeployment == Workload("admission", TRUE, Rebuilt)

reconcileRuntimeSensorDaemonSet == Resolves /\ Workload("runtime", TRUE, Rebuilt)

\* buildClusterSensorArgs and buildRuntimeSensorArgs drop the error of Resolve,
\* or of its Get, and dereference its nil result; the recovered panic is returned
\* as an error.
BuildArgsPanics ==
  /\ w.pc = "ensure" /\ w.kind = "work" /\ w.comp \in {"cluster", "runtime"}
  /\ Charge(IF Resolves THEN "refused" ELSE "ok")
  /\ EndWithError({})
  /\ UNCHANGED <<cluster, platform, detected>>

(***************************************************************************)
(* Cleanup of a component that is not enabled: its workload and, for the   *)
(* admission controller, then its webhook.  A failed Get counts as "not    *)
(* there"; a failed Delete abandons the rest of this component's cleanup   *)
(* and is logged, and the pass goes on.                                    *)
(***************************************************************************)
KeepWebhook == Leave(w.comp)   \* mutant: the webhook is forgotten

NextCleanup == IF w.comp = "admission" /\ w.kind = "work"
                 THEN [w EXCEPT !.kind = "webhook"] ELSE Leave(w.comp)

WrongTarget == Key(w.cr, NextComp[w.comp], w.kind)   \* mutant: another component's object
Target == Key(w.cr, w.comp, w.kind)

\* Mutant: cleanup returns when the workload is gone.
StopWhenAbsent == objs[Target] = Nil /\ w' = Leave(w.comp) /\ UNCHANGED <<objs, queue, faults>>

NothingToDelete == objs[Target] = Nil /\ w' = NextCleanup /\ UNCHANGED <<objs, queue, faults>>

LookupFails ==
  objs[Target] # Nil /\ w' = NextCleanup /\ Charge("refused") /\ UNCHANGED <<objs, queue>>

DeleteObject ==
  /\ objs[Target] # Nil
  /\ \E o \in Outcomes :
       /\ Charge(o)
       /\ objs' = IF o = "refused" THEN objs ELSE [objs EXCEPT ![Target] = Nil]
       /\ queue' = queue \cup (IF objs' # objs THEN Events(Target) ELSE {})
       /\ w' = IF o = "ok" THEN NextCleanup ELSE Leave(w.comp)

Cleanup ==
  /\ w.pc = "clean"
  /\ NothingToDelete \/ LookupFails \/ DeleteObject
  /\ UNCHANGED <<crs, uids, platform, detected, delayed>>

\* getDaemonSetComponentStatus and getDeploymentComponentStatus, one Get each;
\* any error of the Get counts as "not ready".
ReadComponentStatus ==
  LET key == Key(w.cr, w.comp, "work")
      next(ready) == [w EXCEPT !.allReady = @ /\ ready,
                               !.pc = IF w.comp = "runtime" THEN "write" ELSE "read",
                               !.comp = NextComp[@]]
  IN
  /\ w.pc = "read"
  /\ \E o \in {"ok", "refused"} :
       /\ Charge(o)
       /\ w' = next(w.comp \in w.spec.on => o = "ok" /\ objs[key] # Nil /\ objs[key].up)
  /\ UNCHANGED <<cluster, platform, detected, queues>>

(***************************************************************************)
(* The status update that ends a pass.  Progressing went to "Reconciling"  *)
(* and back within the pass, so its lastTransitionTime, kept in seconds,   *)
(* is usually new: an update that changes nothing else may raise an event. *)
(***************************************************************************)
\* Mutants: the generation is not recorded, or is off by one.
NoGeneration(reason) == [crs EXCEPT ![w.cr].avail = reason, ![w.cr].judged = w.spec]
NextGeneration(reason) == [crs EXCEPT ![w.cr].avail = reason, ![w.cr].observed = w.gen + 1,
                                      ![w.cr].judged = w.spec]

WithVerdict(reason) == [crs EXCEPT ![w.cr].avail = reason, ![w.cr].observed = w.gen,
                                   ![w.cr].judged = w.spec]

updateComponentStatuses ==
  LET reason == IF w.allReady THEN "AllComponentsReady" ELSE "ComponentsNotReady" IN
  /\ w.pc = "write"
  /\ \E o \in Outcomes :
       /\ Charge(o)
       /\ crs' = IF Stored(o) THEN WithVerdict(reason) ELSE crs
       /\ \E touched \in {{}, IF Stored(o) THEN {w.cr} ELSE {}} :
            IF o = "ok" /\ Stored(o)
              THEN queue' = queue \cup Changed \cup touched /\ EndAfterDelay
              ELSE EndWithError(Changed)
  /\ UNCHANGED <<uids, objs, platform, detected>>

\* The operator stops anywhere and starts again: the pass, the queue and the
\* timers are lost, the cached platform is read anew, and the initial list queues
\* every resource.
Restart ==
  /\ faults < MaxFaults /\ faults' = faults + 1
  /\ w' = Idle
  /\ queue' = {cr \in CR : crs[cr] # Nil}
  /\ delayed' = {}
  /\ detected' \in Detections
  /\ platform' \in Platforms
  /\ UNCHANGED cluster

-----------------------------------------------------------------------------
Ensure ==
  \/ reconcileServiceAccount
  \/ reconcileClusterRole
  \/ reconcileClusterRoleBinding
  \/ reconcileSCC
  \/ reconcileContainerSensorConfigMap
  \/ reconcileContainerSensorDaemonSet
  \/ reconcileClusterSensorDeployment
  \/ reconcileAdmissionService
  \/ reconcileAdmissionDeployment
  \/ reconcileValidatingWebhook
  \/ reconcileRuntimeSensorDaemonSet
  \/ BuildArgsPanics

\* The steps of a pass that has read its resource.
Pass ==
  \/ PlatformGate
  \/ RefuseStatus
  \/ Ensure
  \/ Cleanup
  \/ ReadComponentStatus
  \/ updateComponentStatuses

Environment ==
  \/ \E cr \in CR : CreateResource(cr) \/ EditSpec(cr) \/ DeleteResource(cr)
  \/ PlatformChanges
  \/ \E key \in Keys : GarbageCollect(key) \/ Drift(key) \/ PodsReady(key) \/ PodsFail(key)

Next ==
  \/ \E cr \in CR : TimerFires(cr) \/ Start(cr) \/ StartFails(cr)
  \/ Pass
  \/ Restart
  \/ Environment

Spec == Init /\ [][Next]_vars

\* The queue is first-in first-out, so no resource is passed over for ever; the
\* timers run out; Kubernetes collects garbage.
Fairness ==
  /\ WF_vars(Pass)
  /\ \A cr \in CR : SF_vars(Start(cr)) /\ WF_vars(TimerFires(cr))
  /\ \A key \in Keys : WF_vars(GarbageCollect(key))

FairSpec == Spec /\ Fairness

-----------------------------------------------------------------------------
(***************************** Properties **********************************)

\* Every variable has its type.
TypeOK ==
  /\ crs \in [CR -> Resource \cup {Nil}]
  /\ uids \in [CR -> 0 .. MaxUid]
  /\ objs \in [Keys -> Content \cup {Nil}]
  /\ platform \in Platforms
  /\ detected \in Detections
  /\ queue \subseteq CR /\ delayed \subseteq CR
  /\ w \in Worker
  /\ faults \in 0 .. MaxFaults

Present(cr, c, k) == objs[Key(cr, c, k)] # Nil

\* Nobody shares the cluster-scoped objects of cr.
NameIsOwn(cr) == \A other \in CR \ {cr} : NameOf[other] # NameOf[cr]

\* The binding's subject is the account in cr's namespace.
Grants(binding, cr) == binding # Nil /\ binding.cr = cr

\* Whatever pass is abandoned, repeated or cut by a crash, a workload never exists
\* without the cluster role and the binding its pods need: the order of the upserts
\* in the reconcileX functions.  A binding under a name of its own grants the rights
\* to the pods next to it; one that resources of the same name in several namespaces
\* share grants them to the last one that wrote it, and only to that one.
RightsBeforeWorkload ==
  \A cr \in CR, c \in Comp :
    Present(cr, c, "work") =>
      /\ Present(cr, c, "role")
      /\ \E sharer \in CR : /\ NameOf[sharer] = NameOf[cr]
                            /\ Grants(objs[Key(cr, c, "binding")], sharer)
      /\ NameIsOwn(cr) => Grants(objs[Key(cr, c, "binding")], cr)

\* A status update says what a pass found out about the very spec that is
\* stored: an edit or a re-creation that overtakes a pass is never credited
\* with its verdict (the resourceVersion carried through Reconcile).
VerdictMatchesSpec ==
  [][\A cr \in CR :
       crs[cr] # Nil /\ crs'[cr] # Nil /\ crs'[cr].avail # crs[cr].avail
         => /\ w.cr = cr /\ w.uid = uids'[cr]
            /\ w.gen = crs'[cr].gen /\ w.spec = crs'[cr].spec]_vars

\* A client's view of a stored resource: Available=True for the current generation
\* claims that the components of the spec it was judged by are ready.
SpecOf(r) == IF r = Nil THEN Nil ELSE r.spec
ClaimOf(r) == IF r # Nil /\ r.avail = "AllComponentsReady" /\ r.observed = r.gen
                THEN r.judged ELSE Nil

Client == INSTANCE ConfirmedSpec WITH
            Res <- CR, Claim <- [s \in Specs |-> s], None <- Nil,
            desired <- [cr \in CR |-> SpecOf(crs[cr])],
            claim <- [cr \in CR |-> ClaimOf(crs[cr])]

\* Whatever pass is overtaken, repeated or cut by a crash, Available=True for the
\* current generation is the verdict on the spec that stands, not on the one an edit
\* or a re-creation replaced while the components were examined: both void the
\* claim, and no pass over an older copy brings one back.
ConfirmsSpec == Client!Spec

\* A resource that exists is never forgotten: it is in the queue, waits for a
\* timer, or is being worked on.  Most failures are swallowed, the platform is
\* not watched, and a crash loses the queue, so that one path out of a pass
\* without an error or a RequeueAfter would leave the resource for good.
NeverForgotten ==
  \A cr \in CR :
    crs[cr] # Nil => cr \in queue \cup delayed \/ (w.pc # "idle" /\ w.cr = cr)

\* cr exists and has been created once.
Original(cr) == crs[cr] # Nil /\ uids[cr] = 1

\* cr reports Available=True for the current generation, and nobody took from it
\* what its passes made: no outsider, no collector, no resource of the same name.
Vouched(cr) == /\ DriftKinds = {} /\ Original(cr) /\ NameIsOwn(cr)
               /\ crs[cr].avail = "AllComponentsReady" /\ crs[cr].observed = crs[cr].gen

\* Available=True for the current generation means that everything the enabled
\* components need has been made, and, if no call ever failed, that what
\* the others had is gone: a component that fails or is refused half-way can
\* not be passed over by the passes that follow.  (Reads of the generated objects
\* do not lag here.)
AvailableMeansDeployed ==
  \A cr \in CR : Vouched(cr) =>
    /\ \A c \in crs[cr].spec.on : \A k \in KindsOf(c) \ {"scc"} : Present(cr, c, k)
    /\ faults = 0 => /\ \A c \in Comp \ crs[cr].spec.on : ~Present(cr, c, "work")
                     /\ Present(cr, "admission", "webhook") => "admission" \in crs[cr].spec.on

\* The object is built from the section of the stored spec (and from settings
\* that may have changed since).
OfSpec(cr, c, k) == /\ Present(cr, c, k)
                    /\ objs[Key(cr, c, k)].tpl.env = crs[cr].spec.env
                    /\ objs[Key(cr, c, k)].tpl.rest = crs[cr].spec.rest

\* Available=True for the current generation is not said of what an older spec
\* left behind: the objects the passes keep in step are built from the stored spec,
\* and no pass over an older copy, no lost reply and no abandoned pass brings an
\* older one back.
AvailableMeansCurrent ==
  \A cr \in CR : Vouched(cr) =>
    /\ \A c \in crs[cr].spec.on \cap {"admission", "runtime"} : OfSpec(cr, c, "work")
    /\ "container" \in crs[cr].spec.on =>
         /\ OfSpec(cr, "container", "cm")
         /\ objs[Key(cr, "container", "work")].tpl.env = crs[cr].spec.env
    /\ "admission" \in crs[cr].spec.on =>
         objs[Key(cr, "admission", "webhook")].fail = crs[cr].spec.fail

\* A webhook never refuses for want of a backend nobody makes: it comes after its
\* Service and Deployment, whatever pass is abandoned, and, if no call ever failed,
\* its Deployment is gone only while the worker is between its two deletes.
WebhookHasBackend ==
  \A cr \in CR :
    DriftKinds = {} /\ Original(cr) /\ NameIsOwn(cr) /\ Present(cr, "admission", "webhook")
      => /\ \A k \in {"sa", "role", "binding", "svc"} : Present(cr, "admission", k)
         /\ faults = 0 => \/ Present(cr, "admission", "work")
                          \/ w.pc = "clean" /\ w.kind = "webhook" /\ w.cr = cr

\* The resource is there, the platform gate is open and credentials resolve.
Stable(cr) ==
  crs[cr] # Nil /\ platform.state = "ready" /\ platform.conf \in platform.usable

Wanted(cr) == [env |-> crs[cr].spec.env, rest |-> crs[cr].spec.rest, conf |-> platform.conf]

\* What the code keeps in step with the spec: everything but the template of the
\* container sensor's DaemonSet and of the cluster sensor's Deployment.
Deployed(cr) ==
  /\ crs[cr] # Nil
  /\ \A c \in crs[cr].spec.on :
       /\ \A k \in KindsOf(c) \ {"scc"} : Present(cr, c, k)
       /\ detected /\ c # "admission" => Present(cr, c, "scc")
       /\ c \in {"admission", "runtime"} => objs[Key(cr, c, "work")].tpl = Wanted(cr)
  /\ \A c \in Comp \ crs[cr].spec.on : ~Present(cr, c, "work")
  /\ IF "admission" \in crs[cr].spec.on
       THEN objs[Key(cr, "admission", "webhook")].fail = crs[cr].spec.fail
       ELSE ~Present(cr, "admission", "webhook")

\* The components of cr are deployed, what the collector watches is owned by cr, and
\* a pass over cr that is under way is not one over an older cr or older settings.
Settled(cr) ==
  /\ Deployed(cr)
  /\ \A c \in Comp, k \in Kinds \ ClusterScoped :
       Present(cr, c, k) => objs[Key(cr, c, k)].uid = uids[cr]
  /\ w.pc # "idle" /\ w.cr = cr =>
       /\ w.uid = uids[cr] /\ w.spec = crs[cr].spec
       /\ w.pc \in {"ensure", "clean"} => w.conf = platform.conf

\* Once converged, always converged: as long as nobody edits or deletes cr, changes
\* the settings or deletes its objects, no pass, crash, lost reply, closed gate,
\* failing pod or other resource ever takes its components apart again, not even for
\* the time between two upserts.
StaysSettled ==
  [][\A cr \in CR :
       /\ Settled(cr) /\ NameIsOwn(cr) /\ DriftKinds = {}
       /\ crs'[cr] # Nil /\ crs'[cr].spec = crs[cr].spec
       /\ platform'.conf = platform.conf /\ detected' = detected
       => Settled(cr)']_vars

\* Once users and the platform leave a resource alone, and no webhook without a
\* backend refuses its workloads, its components converge to the spec, whatever
\* passes failed, panicked or crashed before, whatever the collector takes from
\* an earlier resource of the same name, and although neither the platform nor
\* cluster-scoped objects are watched: every pass leaves a timer or a queue
\* entry behind.
Converges ==
  \A cr \in CR, p \in Platforms :
    <>[](Stable(cr) /\ platform = p /\ ~Blocked) => <>[]Deployed(cr)

\* If in addition the pods of the enabled components stay up, Available=True is
\* reported for the current generation, for good.
BecomesAvailable ==
  \A cr \in CR :
    <>[](Stable(cr) /\ \A c \in crs[cr].spec.on : /\ Present(cr, c, "work")
                                                   /\ objs[Key(cr, c, "work")].up)
      => <>[](crs[cr] # Nil /\ crs[cr].avail = "AllComponentsReady"
                            /\ crs[cr].observed = crs[cr].gen)

\* If the platform stays unusable, Available=True is withdrawn, although nothing
\* tells this controller that the platform changed.
AvailableIsWithdrawn ==
  \A cr \in CR :
    <>[](crs[cr] # Nil /\ platform.state # "ready")
      => <>[](crs[cr] # Nil => crs[cr].avail # "AllComponentsReady")

\* A webhook with failurePolicy Fail that refuses every pod and workload goes
\* away for good once all components are disabled: its removal sends no request
\* the webhook itself could refuse.
DisablingUnblocks ==
  \A cr \in CR :
    <>[](Stable(cr) /\ crs[cr].spec.on = {})
      => <>[]~Present(cr, "admission", "webhook")

\* What docs/blog.md:557 says of reconciliation: the managed sensors follow the
\* custom resource.  The container sensor's DaemonSet and the cluster sensor's
\* Deployment do not.
SensorsFollowResource ==
  \A cr \in CR, p \in Platforms :
    <>[](Stable(cr) /\ platform = p)
      => <>[](/\ crs[cr] # Nil
              /\ \A c \in crs[cr].spec.on : /\ Present(cr, c, "work")
                                           /\ objs[Key(cr, c, "work")].tpl = Wanted(cr))

=============================================================================
