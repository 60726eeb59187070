--------------------------- MODULE CachedReconcile ----------------------------
(***************************************************************************)
(* One component's share of QualysContainerSecurityReconciler.Reconcile,   *)
(* seen through the manager's client: every Get is answered by the         *)
(* informer cache, which may lag behind the API server for the resource    *)
(* and for its workload, and behind the reconciler's own writes.  An       *)
(* Update carries the resourceVersion of the copy it was made from; a      *)
(* Create finds what the cache does not show; a Delete carries none.       *)
(*                                                                         *)
(* ContainerSecurity leaves the lag out and has the components' order,     *)
(* their other objects, owners and names instead.                          *)
(***************************************************************************)
EXTENDS Conditions

CONSTANTS
  Sensors,    \* the components to choose from
  Specs,      \* the sections a user may write: enabled, workload's environment
  MaxGen,     \* bound: generations of the resource
  MaxFaults,  \* bound: failed calls, crashes and outside deletions
  Nil         \* no resource, no workload

\* judged is history, which no action reads: the spec of the copy that the last
\* stored verdict was made from.
Resource == [spec : Specs, gen : 1 .. MaxGen, observed : 0 .. MaxGen, conds : Seq(Condition),
             judged : Specs \cup {Nil}]

(***************************************************************************)
(* A copy of the resource.  Its status is left out: a status derived from  *)
(* an older one is never stored, so that at the writes that succeed the    *)
(* copy's conditions are the stored ones.                                  *)
(***************************************************************************)
Copy == [spec : Specs, gen : 1 .. MaxGen]
CopyOf(r) == IF r = Nil THEN Nil ELSE [spec |-> r.spec, gen |-> r.gen]

\* up: the workload's status reports every pod ready.
Workload == [env : {0, 1}, up : BOOLEAN]

ASSUME ConstantsAssumption ==
  /\ Sensors # {} /\ Sensors \subseteq {"container", "cluster", "runtime"}
  /\ Specs # {} /\ Specs \subseteq [on : BOOLEAN, env : {0, 1}]
  /\ MaxGen \in Nat \ {0} /\ MaxFaults \in Nat
  /\ Nil \notin Resource /\ Nil \notin Copy /\ Nil \notin Workload /\ Nil \notin Specs

VARIABLES
  sensor,      \* the component
  open,        \* the platform gate is open and the secret resolves
  res,         \* the stored resource, or Nil
  resCache,    \* the cache's copy of it
  resSynced,   \* the copy is of the stored resourceVersion
  work,        \* the stored workload, or Nil
  workCache, workSynced,
  queued,      \* the resource is in the work queue
  timer,       \* its RequeueAfter timer runs
  w,           \* the worker
  faults       \* faults so far

stored == <<res, work>>
caches == <<resCache, resSynced, workCache, workSynced>>
vars == <<sensor, open, stored, caches, queued, timer, w, faults>>

PCs == {"idle", "gate", "refuse", "apply", "read", "write"}
Worker == [pc : PCs, spec : Specs, gen : 0 .. MaxGen, fresh : BOOLEAN, ready : BOOLEAN]

Idle == [pc |-> "idle", spec |-> CHOOSE s \in Specs : TRUE, gen |-> 0,
         fresh |-> FALSE, ready |-> FALSE]

Init ==
  /\ sensor \in Sensors /\ open \in BOOLEAN
  /\ res = Nil /\ resCache = Nil /\ resSynced = TRUE
  /\ work = Nil /\ workCache = Nil /\ workSynced = TRUE
  /\ queued = FALSE /\ timer = FALSE
  /\ w = Idle
  /\ faults = 0

-----------------------------------------------------------------------------
(***************************** Users and Kubernetes ************************)

\* A user's write gives the resource a new resourceVersion.
Written ==
  /\ resSynced' = FALSE
  /\ w' = [w EXCEPT !.fresh = FALSE]
  /\ UNCHANGED <<sensor, open, work, resCache, workCache, workSynced, queued, timer, faults>>

CreateResource ==
  /\ res = Nil
  /\ \E s \in Specs :
       res' = [spec |-> s, gen |-> 1, observed |-> 0, conds |-> <<>>, judged |-> Nil]
  /\ Written

EditSpec ==
  /\ res # Nil /\ res.gen < MaxGen
  /\ \E s \in Specs \ {res.spec} : res' = [res EXCEPT !.spec = s, !.gen = @ + 1]
  /\ Written

\* The config, its condition or its secret; not watched.
PlatformChanges ==
  /\ open' = ~open
  /\ UNCHANGED <<sensor, stored, caches, queued, timer, w, faults>>

WorkWritten(new) ==
  /\ work' = new
  /\ workSynced' = FALSE
  /\ UNCHANGED <<sensor, open, res, resCache, resSynced, workCache, queued, timer, w>>

PodsChange ==
  /\ work # Nil
  /\ WorkWritten([work EXCEPT !.up = ~@])
  /\ UNCHANGED faults

Drift ==
  /\ work # Nil /\ faults < MaxFaults /\ faults' = faults + 1
  /\ WorkWritten(Nil)

\* A watch brings the newest version into the cache and queues the resource.
DeliverResource ==
  /\ ~resSynced
  /\ resCache' = CopyOf(res) /\ resSynced' = TRUE
  /\ queued' = TRUE
  /\ UNCHANGED <<sensor, open, stored, workCache, workSynced, timer, w, faults>>

DeliverWork ==
  /\ ~workSynced
  /\ workCache' = work /\ workSynced' = TRUE
  /\ queued' = TRUE
  /\ UNCHANGED <<sensor, open, stored, resCache, resSynced, timer, w, faults>>

TimerFires ==
  /\ timer
  /\ timer' = FALSE /\ queued' = TRUE
  /\ UNCHANGED <<sensor, open, stored, caches, w, faults>>

-----------------------------------------------------------------------------
(***************************** Reconcile ***********************************)

\* An API call succeeds, is refused, or is executed but its reply is lost.
Outcomes == {"ok", "refused", "lost"}
Charge(o) == IF o = "ok" THEN UNCHANGED faults
                         ELSE faults < MaxFaults /\ faults' = faults + 1

\* A pass that returns RequeueAfter, and one that returns an error.
NoTimer == w' = Idle /\ UNCHANGED <<queued, timer>>   \* mutant: an empty Result
EndAfterDelay == w' = Idle /\ timer' = TRUE /\ UNCHANGED queued
EndWithError == w' = Idle /\ queued' = TRUE /\ UNCHANGED timer

Start ==
  /\ w.pc = "idle" /\ queued
  /\ queued' = FALSE
  /\ w' = IF resCache = Nil THEN Idle
          ELSE [Idle EXCEPT !.pc = "gate", !.spec = resCache.spec, !.gen = resCache.gen,
                            !.fresh = resSynced]
  /\ UNCHANGED <<sensor, open, stored, caches, timer, faults>>

\* A Get that fails for another reason than absence returns the error.
StartFails ==
  /\ w.pc = "idle" /\ queued
  /\ Charge("refused")
  /\ UNCHANGED <<sensor, open, stored, caches, queued, timer, w>>

PlatformGate ==
  /\ w.pc = "gate"
  /\ w' = [w EXCEPT !.pc = IF open THEN "apply" ELSE "refuse"]
  /\ UNCHANGED <<sensor, open, stored, caches, queued, timer, faults>>

\* Status().Update is refused if somebody wrote the resource after the copy.
Stored(o) == o # "refused" /\ w.fresh

\* Mutant: after a conflict the same verdict is written to the latest version.
RetryOnConflict(o, new) ==
  /\ res' = CASE o = "refused" -> res
              [] o # "refused" /\ Stored(o) -> new
              [] o # "refused" /\ ~Stored(o) -> [new EXCEPT !.observed = res.gen]
  /\ resSynced' = FALSE
  /\ UNCHANGED <<sensor, open, work, resCache, workCache, workSynced>>

\* Transition times are kept in seconds: an update that changes nothing else may
\* still make a new version.
StoreStatus(o, new) ==
  /\ res' = IF Stored(o) THEN new ELSE res
  /\ \E newTime \in BOOLEAN :
       resSynced' = (resSynced /\ res' = res /\ ~(newTime /\ Stored(o)))
  /\ UNCHANGED <<sensor, open, work, resCache, workCache, workSynced>>

RefuseStatus ==
  /\ w.pc = "refuse"
  /\ \E o \in Outcomes : Charge(o) /\ StoreStatus(o, [res EXCEPT !.conds = Refused(@, w.gen)])
  /\ EndAfterDelay

\* What each reconcileX does with an existing workload: the container sensor's
\* DaemonSet is rewritten if its environment has another length, the cluster
\* sensor's Deployment never, the runtime sensor's DaemonSet always.
Rewrites(existing) == \/ sensor = "container" /\ existing.env # w.spec.env
                      \/ sensor = "runtime"

\* The request, if one is sent, and whether the API server grants it.
Wanted == IF workCache = Nil THEN [env |-> w.spec.env, up |-> FALSE]
                             ELSE [work EXCEPT !.env = w.spec.env]
Sent == workCache = Nil \/ Rewrites(workCache)
Granted == Sent => IF workCache = Nil THEN work = Nil ELSE workSynced

Unchanged(o) == ~Sent \/ o = "refused" \/ ~Granted

\* The Get before the request may fail as the request may.
Ensure ==
  /\ w.pc = "apply" /\ w.spec.on
  /\ \E o \in Outcomes :
       /\ Charge(o)
       /\ work' = IF Unchanged(o) THEN work ELSE Wanted
       /\ workSynced' = (workSynced /\ work' = work)
       /\ IF o = "ok" /\ Granted
            THEN w' = [w EXCEPT !.pc = "read"] /\ UNCHANGED <<queued, timer>>
            ELSE EndAfterDelay
  /\ UNCHANGED <<sensor, open, res, resCache, resSynced, workCache>>

\* The nil result of a Resolve that failed is dereferenced; the recovered panic is
\* returned as an error.
BuildArgsPanics ==
  /\ w.pc = "apply" /\ w.spec.on /\ sensor \in {"cluster", "runtime"}
  /\ Charge(IF open THEN "refused" ELSE "ok")
  /\ EndWithError
  /\ UNCHANGED <<sensor, open, stored, caches>>

\* A failed Delete is only logged.
Cleanup ==
  /\ w.pc = "apply" /\ ~w.spec.on
  /\ w' = [w EXCEPT !.pc = "read"]
  /\ IF workCache = Nil THEN UNCHANGED <<work, workSynced, faults>>
     ELSE \E o \in Outcomes :
            /\ Charge(o)
            /\ work' = IF o = "refused" THEN work ELSE Nil
            /\ workSynced' = (workSynced /\ work' = work)
  /\ UNCHANGED <<sensor, open, res, resCache, resSynced, workCache, queued, timer>>

\* Any error of the Get counts as "not ready".
ReadComponentStatus ==
  /\ w.pc = "read"
  /\ \E o \in {"ok", "refused"} :
       /\ Charge(o)
       /\ w' = [w EXCEPT !.pc = "write",
                         !.ready = w.spec.on => o = "ok" /\ workCache # Nil /\ workCache.up]
  /\ UNCHANGED <<sensor, open, stored, caches, queued, timer>>

\* Mutants: another generation is recorded, or none.
NextGeneration ==
  [res EXCEPT !.observed = w.gen + 1, !.judged = w.spec,
              !.conds = Concluded(Reconciling(@, w.gen), w.ready, w.gen)]
NoGeneration ==
  [res EXCEPT !.judged = w.spec,
              !.conds = Concluded(Reconciling(@, w.gen), w.ready, w.gen)]

\* Progressing was set when the gate was passed.
NewStatus ==
  [res EXCEPT !.observed = w.gen, !.judged = w.spec,
              !.conds = Concluded(Reconciling(@, w.gen), w.ready, w.gen)]

updateComponentStatuses ==
  /\ w.pc = "write"
  /\ \E o \in Outcomes :
       /\ Charge(o)
       /\ StoreStatus(o, NewStatus)
       /\ IF o = "ok" /\ Stored(o) THEN EndAfterDelay ELSE EndWithError

\* The operator stops anywhere and starts again with fresh lists.
Restart ==
  /\ faults < MaxFaults /\ faults' = faults + 1
  /\ resCache' = CopyOf(res) /\ resSynced' = TRUE
  /\ workCache' = work /\ workSynced' = TRUE
  /\ queued' = (res # Nil) /\ timer' = FALSE
  /\ w' = Idle
  /\ UNCHANGED <<sensor, open, stored>>

-----------------------------------------------------------------------------
Pass == \/ PlatformGate \/ RefuseStatus \/ Ensure \/ BuildArgsPanics \/ Cleanup
        \/ ReadComponentStatus \/ updateComponentStatuses

Next == \/ CreateResource \/ EditSpec \/ PlatformChanges \/ PodsChange \/ Drift
        \/ DeliverResource \/ DeliverWork \/ TimerFires
        \/ Start \/ StartFails \/ Pass \/ Restart

Spec == Init /\ [][Next]_vars

\* No step of a pass waits for anything, so that every pass comes to an end (what
\* WF_vars(Pass) says, at less expense to TLC); the worker comes round to the
\* queue; the timer runs out; watches deliver.
Fairness == /\ []<>(w.pc = "idle") /\ SF_vars(Start)
            /\ WF_vars(TimerFires) /\ WF_vars(DeliverResource) /\ WF_vars(DeliverWork)

FairSpec == Spec /\ Fairness

-----------------------------------------------------------------------------
(***************************** Properties **********************************)

\* Every variable has its type.
TypeOK ==
  /\ sensor \in Sensors /\ open \in BOOLEAN
  /\ res \in Resource \cup {Nil} /\ resCache \in Copy \cup {Nil} /\ resSynced \in BOOLEAN
  /\ {work, workCache} \subseteq Workload \cup {Nil} /\ workSynced \in BOOLEAN
  /\ queued \in BOOLEAN /\ timer \in BOOLEAN
  /\ w \in Worker
  /\ faults \in 0 .. MaxFaults

Stands(type) == GetCondition(res.conds, type)
Available == res # Nil /\ Stands("Available").status = "True"

\* The stored list has one entry per type, so that GetCondition's first match is
\* the only one, whatever passes and refusals appended before.
OneEntryPerType == res # Nil => OnePerType(res.conds)

\* A stored Available=True comes with the rest of its verdict: nothing in
\* progress, nothing degraded, for the generation that status names.  Reconcile
\* sets Progressing long before it knows, and gives up in many places after
\* that; the half-way list is never stored.
VerdictIsWhole ==
  res # Nil =>
    /\ Stands("Progressing").reason # "Reconciling"
    /\ Available => /\ Stands("Progressing").reason = "DeploymentComplete"
                    /\ Stands("Progressing").gen = res.observed
                    /\ Stands("Degraded").status = "False"

\* Available=True may carry an older observedGeneration than the verdict it
\* stands for, never a newer one: who waits for it to reach the resource's
\* generation may wait in vain but is not told too early.
GenerationIsSafe ==
  Available => /\ Stands("Available").gen <= res.observed
               /\ Stands("Available").gen = res.gen => res.observed = res.gen

\* A client's view of the resource: Available=True for the current generation claims
\* that the section it was judged by is deployed.
SpecSeen == IF res = Nil THEN Nil ELSE res.spec
ClaimSeen == IF Available /\ res.observed = res.gen THEN res.judged ELSE Nil

Client == INSTANCE ConfirmedSpec WITH
            Res <- {"res"}, Claim <- [s \in Specs |-> s], None <- Nil,
            desired <- [r \in {"res"} |-> SpecSeen],
            claim <- [r \in {"res"} |-> ClaimSeen]

\* Although the resource is read from a cache and the status is merged into the
\* conditions of earlier passes, Available=True for the current generation is the
\* verdict on the spec that stands, not on the one of a stale copy: an edit voids it
\* and nothing made from the copies of before brings it back.
ConfirmsSpec == Client!Spec

\* The workload is there exactly if it is wanted, with the environment of the spec
\* where the code promises that.
InStep == /\ res # Nil
          /\ IF res.spec.on THEN work # Nil /\ (sensor # "cluster" => work.env = res.spec.env)
                            ELSE work = Nil

\* Whatever stale copies made passes skip, repeat or collide with, once the
\* resource and the platform are left alone the workload follows the spec.  Its
\* pods must stop changing too: a status update between the cached Get and the
\* Update makes a conflict, and a workload that flaps could do so in every pass.
Settles ==
  \A up \in BOOLEAN :
    <>[](res # Nil /\ open /\ (work # Nil => work.up = up)) => <>[]InStep

\* A pass that read a stale workload may report Available=True for one that is
\* down or gone; that does not last.  The platform must be left alone, usable or not:
\* a secret that comes and goes could panic every pass before it has a verdict.
DownIsReported ==
  \A usable \in BOOLEAN :
    <>[](res # Nil /\ res.spec.on /\ (work = Nil \/ ~work.up) /\ open = usable)
      => <>[]~Available

\* And pods that stay up are reported for the current generation, although every
\* status update may bring the resource back into the queue.
UpIsReported ==
  <>[](res # Nil /\ open /\ (res.spec.on => work # Nil /\ work.up))
    => <>[](Available /\ res.observed = res.gen)

=============================================================================
