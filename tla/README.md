# Verification of the Qualys Nanny operator

TLA+ modules, TLC models and TLAPS proofs kept beside the operator. Sources are
named below by their file under `src/`; "controller.go" is
`internal/controller/qualyscontainersecurity_controller.go`.

## The system

A Kubernetes operator with two reconcilers in one process (`cmd/main.go`, one
worker per reconciler, one active replica through leader election).

| Component | State it keeps | Operations | What is hard | What makes it correct |
|---|---|---|---|---|
| QualysPlatformConfig reconciler (`qualysplatformconfig_controller.go`, `credentials/resolver.go`) | the `CredentialsReady` condition, `credentialSource`, `observedGeneration` of a cluster-scoped resource | `Reconcile`: Get from the informer cache, resolve the secret, update the status, requeue after 30 s or 5 min | secrets are not watched; the copy may be stale; edits during the lookup; lost replies; crashes | what it reports is true of the spec that is stored; what changes unseen is found out |
| QualysContainerSecurity reconciler (`controller.go`) | the `Available` condition and `observedGeneration` of a namespaced resource; up to 22 generated objects | `Reconcile`: Get, platform gate, then for the container sensor, cluster sensor, admission controller and runtime sensor in turn upsert or cleanup, then readiness and the status update | some 30 API calls that others interleave with; swallowed errors retried by timers; a panic on a vanished secret; cluster-scoped objects shared by name and never watched; a webhook that can refuse the operator's own requests | order of creation; verdicts belong to the spec they judge; convergence; removal of what is disabled |
| Builders (`controller.go`, `api/v1`, `resources/scc.go`) | none | spec to DaemonSet, Deployment, SCC | settings decided in five places must fit the API server's validation and OpenShift's admission | exactly the supported specs run |
| OpenShift detection (`platform/detector.go`) | one cached answer | `IsOpenShift` | a failed call is cached as "no" for the life of the process | |
| Conditions (`api/v1/common_types.go`) | a list with one entry per type | `SetCondition`, `GetCondition` | an entry that does not change keeps its old generation and time | one entry per type |

The reconcilers interact only through the cluster: the platform reconciler
writes `CredentialsReady`, the other one reads it (and the secret, again) at the
start of a pass and is not told when it changes. Users edit both resources; the
garbage collector, the DaemonSet and Deployment controllers and the API server
act on what was generated.

`PROJECT.json` lists the hazards, each with its line and the properties aimed at it.

## Modules

| Module | Models | State | Actions |
|---|---|---|---|
| `PlatformConfig` | the platform reconciler and the resolver | API server and cache copies of each resource, secrets, queue, timers, the worker's copy of a resource | `Start` (the Get), `StartFails`, `Resolve`, `Report` (status update and requeue); `CreateConfig`, `EditSpec`, `DeleteConfig`, `SecretChanges`, `Deliver`, `TimerFires`, `Restart` |
| `ContainerSecurity` | the other reconciler | stored resources, generated objects, the platform as a pass sees it, the cached detection, queue, timers, the worker | one per API call: `Start`, `PlatformGate`, `RefuseStatus`, `reconcileServiceAccount` .. `reconcileRuntimeSensorDaemonSet`, `Cleanup`, `ReadComponentStatus`, `updateComponentStatuses`; `BuildArgsPanics`; users, collector, kubelets, outsiders, `Restart` |
| `SensorPods` | builders, SCCs, validation and admission | the spec, the SCC and template of each sensor, where the pass is | `ReconcileSensor`, `PassAgain`, `EditSpec` |
| `Operator` | the manager process with both reconcilers (`cmd/main.go`) | that of `PlatformConfig` and that of `ContainerSecurity`, whose `platform` is replaced by `PlatformView` | `PlatformStep`, `SensorStep`, `OperatorRestart` (one crash stops both) |
| `Conditions` | `SetCondition`, `GetCondition` and the conditions a pass sets (`api/v1/common_types.go`) | none | |
| `CachedReconcile` | one component's share of the sensors' `Reconcile` behind the informer cache | the resource with its list of conditions, its workload, the cache's copies of both, queue, timer, worker | `Start`, `StartFails`, `PlatformGate`, `RefuseStatus`, `Ensure`, `BuildArgsPanics`, `Cleanup`, `ReadComponentStatus`, `updateComponentStatuses`, `Restart`; users, `PodsChange`, `Drift`, `DeliverResource`, `DeliverWork`, `TimerFires` |
| `ConfirmedSpec` | abstract: what a client that compares `observedGeneration` with the generation may believe | the stored spec of each resource, and what its status claims of that spec | `Write`, `Delete`, `Confirm`, `Withdraw` |
| `PlatformConfigProofs`, `ContainerSecurityProofs`, `DeploymentProofs`, `StabilityProofs`, `SensorPodsProofs`, `OperatorProofs`, `CachedReconcileProofs` | theorems | | |
| `MCPlatformConfig`, `MCContainerSecurity`, `MCSensorPods`, `MCOperator`, `MCCachedReconcile` | instances for TLC | | |

Three levels of detail meet. `ContainerSecurity` has all components and every
call of a pass, and takes the platform as something that changes at will and the
reads as current. `Operator` puts the platform reconciler in the place of that
platform and shows that it is one (`ImplementsContainerSecurity`).
`CachedReconcile` narrows the view to one component and lets every read lag.
Above all three stands `ConfirmedSpec`, which has neither generations nor copies:
each of them takes it as `Client` with a refinement mapping, and `ConfirmsSpec` says
that it implements it. The mapping reads the status as a client does: Available=True
or CredentialsReady=True is a claim if it stands beside the current generation, and
nothing otherwise. What it claims is, for the platform, the secret it names, and for
the sensors the spec of the copy the verdict was made from. That spec is not in the
status; the history variable `judged`, which no action reads, keeps it. `Confirm` allows a
claim about the stored spec only, so that a status that comes too late, one written
again after a conflict, or one whose `observedGeneration` is overtaken and caught up
with, would make a claim that no step of `ConfirmedSpec` explains.

How state corresponds to code:

- A `resourceVersion` is one bit: `fresh` says that nobody has written the
  resource since the worker read it. `Status().Update` succeeds exactly when it
  holds (`Stored`).
- An object is absent, or a record of what the properties tell apart: the uid of
  its owner reference, the namespace it names, the template, whether its pods
  are up, the webhook's failure policy. A template has the number of environment
  variables, the rest of the section, and the platform's settings, because the
  code compares the first and copies the others.
- An upsert (Get, then Create or Update) is one step that succeeds, is refused,
  or is executed with its reply lost. The Update carries the version that was
  read and the Create fails on an existing name, so a write by another client
  between the two calls shows as a refusal.
- Early returns, requeue intervals and swallowed errors are kept: `EndAfterDelay`
  leaves a timer, `EndWithError` a queue entry, and a resource that is gone
  neither. The condition `Progressing` and its reason `Reconciling` are only
  written together with the verdict; what they change is that a status update
  is usually a new version (`touched`), which queues the resource again.
- The secret is read through the same cache as everything else: `platform.usable`
  is the set of settings whose secret a read would find complete.
- The cache (`cache`, `resCache`, `workCache`) jumps to the newest version when a
  watch delivers, as an informer does that lists again or merges events; a copy
  is synced or it is some older version.
- Specs in `ContainerSecurity` stand for specs whose objects the API server
  accepts; `SensorPods` says which those are. In `SensorPods` a sensor's step is
  atomic and users edit between passes; interleaving and faults are the subject
  of `ContainerSecurity`. The cluster and runtime sensors have their default
  sections there.
- In `ContainerSecurity` reads do not lag: a stale copy of the resource has the
  same effect as an edit right after the Get, which is allowed. In
  `PlatformConfig` and in `CachedReconcile` the lag is explicit, in the latter for
  the generated object too: a Create meets what the cache does not show, an Update
  carries an old version, a cleanup skips what it does not see.
- Pods that become ready are not asked about by the webhook, which is called for
  CREATE and UPDATE of pods and workloads only (`controller.go:707`): it refuses the operator's
  upserts (`Blocked`) and not `PodsReady`.
- In `CachedReconcile` the copy has no status of its own: one derived from an older
  version is never stored. An update that changes nothing but a transition time,
  which has seconds, may or may not make a new version (`newTime`). The resource
  is not deleted there; `ContainerSecurity` has deletion and re-creation.

Definitions commented "Mutant" are deliberate faults; nothing uses them. They record that each
property notices a plausible mistake (`PROJECT.json`, "mutants").

## What the runs check

| Run | Question | Bounds |
|---|---|---|
| `pc` | `ReadyDescribesSpec`: an up-to-date Ready names the secret of the stored spec; `NeverForgotten`: no step drops a resource; `ConfirmsSpec`; `UsableIsReported`, `UnusableIsReported`: stable credentials are reported as they are | 1 resource, 2 secrets, 3 specs (one with a missing reference), 2 generations, 1 fault |
| `cs_safety` | `RightsBeforeWorkload`, `NeverForgotten`; what Available=True means for the objects (`AvailableMeansDeployed`) and for their templates (`AvailableMeansCurrent`); `WebhookHasBackend`: no abandoned pass leaves a webhook alone; `StaysSettled`: what has converged is never taken apart again | 1 resource, 3 specs: two halves of the components, the first of them with two contents; 2 generations, 1 fault |
| `cs_converge` | `Converges`, `BecomesAvailable` | 2 specs, 2 generations, 1 fault or outside deletion of a workload |
| `cs_platform` | `Converges`, `AvailableIsWithdrawn` on OpenShift, through every outcome of the gate, the panic, changing settings and a deleted binding | 6 platform views, 1 generation, 1 fault or deletion |
| `cs_webhook` | `Converges`, `DisablingUnblocks` with failurePolicy Fail; with a resource that is edited, deleted and created again under its name, that no spec is credited with another's verdict: in each status update (`VerdictMatchesSpec`) and in what a client concludes (`ConfirmsSpec`) | 2 specs, 2 generations, 2 uids, 1 fault |
| `operator` | `SettingsNameASecret`, `GateIsVouchedFor`: what the gate lets through, read from copies of different age; `UsableReachesSensors`, `LossReachesResource`: credentials gained or lost reach the other reconciler's resource through a condition, a cache and two timers | 1 config with or without a reference, 2 generations, 1 secret, 1 resource with the runtime sensor, no faults |
| `operator_refines` | `ImplementsContainerSecurity`, step by step | the same with 1 reference and 1 generation, crashes and 1 failed call on each side |
| `cached` | `OneEntryPerType`, `VerdictIsWhole`, `GenerationIsSafe`: what the stored conditions say; `ConfirmsSpec`: what a client may conclude; `Settles`, `DownIsReported`, `UpIsReported`: stale reads, conflicts and collisions do not last | the container or the runtime sensor, 3 sections (off, and on with either environment), 2 generations, 1 fault or outside deletion |
| `pods` | `RunsExactlyIfSupported`, `OthersRun` | 192 sections, 2 edits, both kinds of cluster |

Disagreements between the code and its documentation, each a run that TLC
refutes: `cs_follow` (sensors do not follow the resource), `pods_unprivileged`
(an undeclared volume) and `pods_privileged` (the SCC of privileged mode).
`PROJECT.json` "findings" quotes the lines. Two more have no run of their own:

- `GenerationIsSafe` is the most that can be said of a condition's own
  `observedGeneration`. The CRD says that it "represents the .metadata.generation
  that the condition was set based upon"
  (`config/crd/bases/qualys.io_qualyscontainersecurities.yaml:2048`); since
  `SetCondition` keeps an entry whose verdict is the same (`common_types.go:131`),
  Available stays at the generation that first earned the verdict.
- The CRD allows the seccomp type `Localhost`
  (`qualyscontainersecurity_types.go:296`), but the builder never sets
  `localhostProfile` (`controller.go:877-879`), which the API server requires with
  it; `Supported` in `SensorPods` therefore admits `Localhost` in privileged mode only,
  where the profile is not set at all.

Why the bounds are enough: the faults are independent of each other, so one per
behaviour puts a failure, a lost reply, a crash or an outside deletion before
and after every other step. Two generations give the edit that overtakes a pass;
two uids give the re-creation. There is one worker, so a second resource matters
only where objects are shared, by resources of one name in several namespaces. No
run has that case; the theorem `RightsComeFirst` is about any number of resources and
says of shared names only what the code does (see "What is not modelled"). One more environment variable or spec adds no case to a
comparison for equality. In `operator` the platform side is the subject, so the
sensors' side is the shortest pass that has an upsert; its own faults are the
subject of the `cs_*` runs and, with both sides' crashes, of `operator_refines`.
`Removable` says which configs and resources users may delete; it is empty in
these two runs, since re-creations are in `cs_webhook`, and a config that is
absent or names no secret is reached without a deletion (not yet created, an
edit). `SecretStates` leaves out the empty secret where it only repeats what `pc`
shows. `cached` leaves out the cluster sensor: its
Deployment is never rewritten, which is what the container sensor's DaemonSet meets as
long as its environment stays; the theorems about `CachedReconcile` are about all three.
Users and faults stop at the bounds, pods and platform views change for
ever.

Deadlock is checked in the runs of `PlatformConfig` and `SensorPods`. It is not
checked in those of `ContainerSecurity`, `Operator` and `CachedReconcile`: once
users and faults have used up their bounds, nothing changes and no timer runs
(after the last resource is deleted, say), the operator is idle and may stay so.

### Fairness

- The worker goes on with a pass (`WF_vars(Pass)`; `Resolve` and `Report` in
  `PlatformConfig`): API calls return.
- Each queued resource is started infinitely often if it is queued again and
  again (`SF_vars(Start)`): the work queue is first-in first-out, so the passes
  a resource queues for itself do not starve another.
- Timers run out, watches deliver, the collector collects (`WF`). In `Operator` the
  collector is one process with many objects, and one condition says that it
  does not stop.
- In `CachedReconcile` that a pass comes to an end is written `[]<>(w.pc = "idle")`.
  No step of a pass waits, so that weak fairness of the steps says the same, and
  the formula is cheaper to check.
- Nothing is assumed of users, kubelets, secrets or the platform: properties
  name the stability they need (`<>[]Stable(cr)`). `Settles` needs pods that stay up
  or stay down: a workload whose status changes between the cached Get and the
  Update makes a conflict, and one that flaps for ever could make one in every
  pass. `DownIsReported` needs a platform that is left alone, usable or not: a
  secret that comes and goes could make every pass of the cluster or runtime
  sensor panic (`BuildArgsPanics`) before it has a verdict.

## What is proved

`tlapm` checks these for every value of the constants, under
`ConstantsAssumption` of the module.

- `PlatformConfigProofs!TypeCorrect`: types.
- `PlatformConfigProofs!ReadyIsOfStoredSpec`: `ReadyDescribesSpec`. It is not
  inductive: a status update must be known to start from what is stored. `IInv`
  adds that a `synced` cache copy is the stored resource (`CacheInv`), that a
  `fresh` worker's spec and generation are the stored ones (`CopyInv`), that only
  a reference that is there is found usable (`VerdictInv`), and that no status is
  of a generation yet to come (`ObservedInv`), so that an edit always outdates it.
- `ContainerSecurityProofs!TypeCorrect`: types, with `CopyInv` (a fresh copy is
  the stored resource of the current uid), from which
  `VerdictIsOfStoredSpec` proves the action property `VerdictMatchesSpec`.
- `PlatformConfigProofs!NothingIsForgotten` and `DeploymentProofs!NothingIsForgotten`:
  `NeverForgotten` of either reconciler. In the latter `PassHandsOn` goes through
  the ends of a pass, a panic among them: the worker keeps the resource, or a
  queue entry or timer has it.
- `ContainerSecurityProofs!RightsComeFirst`: `RightsBeforeWorkload`, assuming that
  outsiders delete neither roles nor bindings (`RightsSafe`). `BindingInv` says whom a
  binding grants its role to: always a resource that has the binding's name, and
  so, under a name of its own, the resource itself. The strengthening
  `PassInv` says which objects a pass that has come to a kind has already made
  sure of; `RightsStay` shows that no step removes a role or binding and
  `WorkloadMade` that a workload appears only in the upsert that follows them.
- `DeploymentProofs!AvailableIsDeployed`: `AvailableMeansDeployed`. A verdict
  vouches for objects made over many steps, so four invariants are added: `UidInv`
  (the collector takes nothing from a resource created once), `GenInv` (a pass over
  an older spec never has the current generation), `PathInv` (only enabled
  components are made, only the others cleaned up) and `DoneInv`, which says for
  every point of a pass what is already there and, without faults, what is
  already gone. When the status is stored, the copy is fresh, and what `DoneInv`
  says of the copy's spec it says of the stored one.
- `StabilityProofs!WebhookIsBacked`: `WebhookHasBackend`. A webhook is made many
  steps after its backend, by a pass that may be the third to try: `DoneInv` says
  what the present pass has made sure of, `NothingYet` that a resource which has not been created has no
  objects, and `ObjectFate` splits what a step does to one object into
  the cases that matter.
- `StabilityProofs!AvailableIsCurrent`: `AvailableMeansCurrent`. `ContentInv` says, for
  every point of a pass, that each template the pass has come by is built from the
  pass's copy of the spec; with a fresh copy that is the stored one. Afterwards
  only a pass over another spec could undo it (`BuiltStays`), and `GenInv` says that
  there is none while the generation stands.
- `StabilityProofs!ConvergedStays`: the action property `StaysSettled`, the safety half
  of `Converges` (that a settled state is reached is liveness and model-checked).
  `Settled` has to exclude a pass that began under an older spec or older settings
  (`NoOlderPass`); with that every step keeps it: an upsert of something that is in
  place writes what is there (`InPlace`), and a cleanup finds nothing.
- `ConfirmsTheSpec` in `ContainerSecurityProofs`, `PlatformConfigProofs` and
  `CachedReconcileProofs`: the three refinements of `ConfirmedSpec`. Each `ClientStep`
  shows that a step is one of the client's or invisible to him (`ClientSees`). It
  needs `CopyInv` (a status that is stored was made from the stored spec, and so is
  what it is `judged` by), `ObservedInv` (no status is of a generation yet to come,
  so that an edit always voids the claim and none revives) and that a refusal,
  which leaves `judged` alone, never reports Available=True (`RefusalInv`,
  `RefusedFacts`).
- `OperatorProofs!ImplementsSensors`: `OperatorSpec => S!Spec`. `ViewType` and
  `PlatformStepImplements` show that each step of the platform side is a change of
  the platform or a stutter; `ImplementsPlatformConfig` and `PlatformSide` say the same
  of the other side.
- `OperatorProofs!SensorsSide` and `SensorsRightsComeFirst`: so the theorems about
  `ContainerSecurity` hold of the operator. They are reached through `P`, an instance
  of `StabilityProofs` with the substitutions of `S`; `SameNext`, `SameSpec` and
  `SensorsAlone` show that `P` and `S` are the same specification and that its
  properties mean the same.
- `OperatorProofs!SettingsAlwaysNameASecret`: `SettingsNameASecret`. What a pass works
  with comes from an open gate and stays for the pass, and what an object keeps comes
  from a pass (`SettingsAreOfAnOpenGate` with `FromOpenGate`, in `StabilityProofs`).
- `OperatorProofs!GateReadsTheVerdict`: `GateIsVouchedFor`, from both sides: `GateGives`
  says which copy the sensors' gate lets through, `CachedIsVouchedFor` (in
  `PlatformConfigProofs`) that every copy in the cache was once stored, and so is
  described by its own verdict.
- `CachedReconcileProofs`: types, `OneEntryPerType`, `VerdictIsWhole` and
  `GenerationIsSafe`. `SetConditionFacts` reduces the list to what `GetCondition`
  sees of it; `CopyInv` says that a copy that is still current has the stored spec
  and generation, and that a synced cache has what is stored; `StatusInv` is what
  the stored list says of its generations and of a verdict's parts.
- `SensorPodsProofs!SupportedSpecsRun` and `OtherSensorsRun`:
  `RunsExactlyIfSupported` and `OthersRun` for every set of sections and any
  number of edits. Lemmas read validity and admission off a section
  (`ValidFacts`, `RunFacts`, `OtherPods`); the invariant ties each sensor's SCC to
  the spec once a pass has reached it (`ConstraintsInv`), says that only accepted
  pods are stored (`TemplatesInv`), and that a pass is refused for its container
  sensor only (`PassInv`). `UnsetAssumption` says that a workload is not the value
  that stands for its absence.

No theorem assumes that faults, edits or resources are few. Those that vouch for
objects name their conditions in the property: nobody else deletes the objects
(`DriftKinds = {}`), no other resource has the name, the resource has been created once
(`Original`), and `faults = 0` only where the code
swallows an error of a delete.

Only model-checked: liveness (`Converges`, `BecomesAvailable`,
`AvailableIsWithdrawn`, `DisablingUnblocks`, `UsableIsReported`,
`UnusableIsReported`, `UsableReachesSensors`, `LossReachesResource`, `Settles`,
`DownIsReported`, `UpIsReported`), which needs ENABLED and fairness and is out of
the prover's reach. Every safety property that a passing run checks is also
proved. No definition is recursive, so nothing rests on induction over data.

## What is not modelled

- Arguments, environment values, labels, scheduling, resources and image settings
  of the generated objects: formatting of a spec that no control depends on.
- Events and logs, among them all of `validatePrivilegeModeFeatures`.
- Dropped capabilities, SELinux options, fsGroup and volume types in SCCs.
- `resources/configmap.go` and the node and runtime detection in
  `platform/detector.go`: called by no controller.
- Flags, TLS, metrics, probes and leader election; generated deepcopy code;
  manifests; the end-to-end tests.
- What the code never does: deleting a resource leaves its cluster roles, bindings,
  SCCs and webhook behind (there is no finalizer), disabling a component removes
  its workload (and webhook) only, and `Degraded=False` is never withdrawn. The
  models keep these facts; no property hides or condemns them.
- Rights under a shared name: resources of the same name in several namespaces have one
  ClusterRoleBinding, and every upsert replaces its only subject by the account of its own
  namespace (`controller.go:481-484`), so that the other namespaces' pods lose their
  rights until their own resource's next pass takes them back. The model does
  exactly this (`Grants`), no document promises otherwise, and `RightsBeforeWorkload` asks a
  shared binding to name one of the sharers and no more. `AvailableMeansDeployed`,
  `WebhookHasBackend` and `StaysSettled` leave shared names out (`NameIsOwn`).
- Passes that fail for ever, say while a webhook with failurePolicy Fail refuses every
  upsert: they end before the verdict, and an earlier Available=True stays. Faults
  are bounded, `Converges` and `BecomesAvailable` ask for no blocking webhook or for pods
  that are up, and `DownIsReported` for a platform left alone.
- The locking in `platform/detector.go`: `IsOpenShift` is called by the sensors'
  reconciler only, which has one worker.
- A lagging cache for more than one generated object at a time: each upsert looks
  at its own object only, `CachedReconcile` takes the workload, and all of them
  together are out of TLC's reach.
- The namespace of `secretRef`: the sensors name the secret in their own namespace,
  the resolver checks the one that the reference names.

## Plan

Done, in order of importance: `ContainerSecurity`, `PlatformConfig`, `SensorPods`,
their composition `Operator`, `Conditions` with `CachedReconcile`, each with its
proofs, and `ConfirmedSpec` with the proofs that the three reconciler models implement it.

What would add most next:

1. An abstract specification of a pass (check, make, remove, report) that
   `ContainerSecurity` implements, above the order of single calls.
2. `StaysSettled` with a lagging cache: the same for one component in `CachedReconcile`.
3. Rollouts of the DaemonSet controller: `getDaemonSetComponentStatus` reads neither
   `observedGeneration` nor `updatedNumberScheduled`, so that counters of an earlier
   template may count for the present one.
4. The operator's own permissions (`config/rbac/role.yaml`) against the calls each
   action makes.
