---------------------------- MODULE OperatorProofs ----------------------------
(***************************************************************************)
(* Each reconciler, run next to the other in one process, behaves as its   *)
(* own module says: what is proved of the modules holds of the operator.   *)
(***************************************************************************)
EXTENDS Operator, PlatformConfigProofs

\* Every step of the process is one of the platform side, or leaves that alone.
LEMMA PlatformSteps == [OperatorNext]_ovars => [Next]_vars
  <1> SUFFICES ASSUME OperatorNext PROVE [Next]_vars
    BY DEF ovars
  <1>1. CASE PlatformStep
    BY <1>1 DEF PlatformStep, Next
  <1>2. CASE SensorStep
    BY <1>2 DEF SensorStep
  <1>3. CASE OperatorRestart
    BY <1>3 DEF OperatorRestart, Next
  <1> QED
    BY <1>1, <1>2, <1>3 DEF OperatorNext

\* The platform reconciler of the process is the one of PlatformConfig: sharing a
\* process with the other reconciler disturbs nothing.
THEOREM ImplementsPlatformConfig == OperatorSpec => Spec
  <1>1. OperatorInit => Init
    BY DEF OperatorInit
  <1> QED
    BY <1>1, PlatformSteps, PTL DEF OperatorSpec, Spec

\* What is proved of the platform side in PlatformConfigProofs holds here.
THEOREM PlatformSide == OperatorSpec => [](TypeOK /\ ReadyDescribesSpec /\ NeverForgotten)
  BY ImplementsPlatformConfig, TypeCorrect, ReadyIsOfStoredSpec, NothingIsForgotten, PTL

\* Well-typed reads yield a platform that ContainerSecurity knows.
LEMMA ViewType == TypeOK => PlatformView \in Platforms
  <1> SUFFICES ASSUME TypeOK PROVE PlatformView \in Platforms
    OBVIOUS
  <1>1. Ref \in Config /\ Specs # {}
    BY OperatorAssumption, ConstantsAssumption
  <1>2. cache[Ref] = Nil \/ cache[Ref].spec \in Specs
    BY <1>1 DEF TypeOK, Resource
  <1>3. Gate(cache[Ref]) \in {"absent", "notReady", "refError", "ready"}
    BY DEF Gate
  <1>4. Gate(cache[Ref]) = "ready" => cache[Ref] # Nil /\ RefOf(cache[Ref].spec) # Nil
    BY DEF Gate
  <1>5. PlatformView \in [state : {"absent", "notReady", "refError", "ready"},
                          conf : Specs, usable : SUBSET Specs]
    BY <1>1, <1>2, <1>3 DEF PlatformView
  <1>6. PlatformView.state = "ready" => RefOf(PlatformView.conf) # Nil
    BY <1>4 DEF PlatformView
  <1> QED
    BY <1>5, <1>6 DEF Platforms

\* A step on the platform side is a change of the platform, seen from the sensors.
LEMMA PlatformStepImplements ==
  ASSUME PlatformView' \in Platforms, PlatformStep PROVE [S!Next]_S!vars
  <1>1. UNCHANGED svars
    BY DEF PlatformStep
  <1>2. CASE PlatformView' = PlatformView
    BY <1>1, <1>2 DEF svars, S!vars
  <1>3. CASE PlatformView' # PlatformView
    <2>1. S!PlatformChanges
      BY <1>1, <1>3 DEF svars, S!PlatformChanges, S!cluster, S!queues
    <2> QED
      BY <2>1 DEF S!Next, S!Environment
  <1> QED
    BY <1>2, <1>3

\* A step on the sensors' side is one of ContainerSecurity.
LEMMA SensorStepImplements == SensorStep => S!Next
  BY DEF SensorStep, S!Next, S!Environment

\* The operator implements ContainerSecurity: the cached copy, the other
\* reconciler's condition and the secret change as its platform may.
THEOREM ImplementsSensors == OperatorSpec => ImplementsContainerSecurity
  <1>1. OperatorInit => S!Init
    BY DEF OperatorInit
  <1>2. (PlatformView \in Platforms)' /\ [OperatorNext]_ovars => [S!Next]_S!vars
    <2> SUFFICES ASSUME (PlatformView \in Platforms)', [OperatorNext]_ovars
                 PROVE  [S!Next]_S!vars
      OBVIOUS
    <2>1. CASE PlatformStep
      BY <2>1, PlatformStepImplements DEF Platforms
    <2>2. CASE SensorStep
      BY <2>2, SensorStepImplements
    <2>3. CASE OperatorRestart
      BY <2>3 DEF OperatorRestart, S!Next
    <2>4. CASE UNCHANGED ovars
      BY <2>4 DEF ovars, vars, svars, S!vars, PlatformView, Gate
    <2> QED
      BY <2>1, <2>2, <2>3, <2>4 DEF OperatorNext
  <1>3. OperatorSpec => [](PlatformView \in Platforms)
    BY PlatformSide, ViewType, PTL
  <1> QED
    BY <1>1, <1>2, <1>3, PTL DEF OperatorSpec, ImplementsContainerSecurity, S!Spec

-----------------------------------------------------------------------------
(***************************************************************************)
(* What is proved of the sensors' reconciler in its own module.  P is S    *)
(* with the theorems: an instance of a module that extends                 *)
(* ContainerSecurity, so that each definition of S comes a second time.    *)
(***************************************************************************)
P == INSTANCE StabilityProofs WITH
       Specs <- SensorSpecs, MaxGen <- MaxSensorGen, MaxFaults <- MaxSensorFaults,
       platform <- PlatformView,
       queue <- squeue, delayed <- sdelayed, w <- sw, faults <- sfaults

\* The two instances make the same assumption.
LEMMA SameAssumption == S!ConstantsAssumption <=> P!ConstantsAssumption
  BY DEF S!ConstantsAssumption, S!Comp, S!Kinds, S!Content, S!Resource, S!Template, S!Reasons,
         P!ConstantsAssumption, P!Comp, P!Kinds, P!Content, P!Resource, P!Template, P!Reasons

\* The two instances take the same steps.
LEMMA SameNext == S!Next <=> P!Next
  BY DEF
         S!cluster, S!queues, S!Comp, S!Kinds, S!KindsOf, S!ClusterScoped, S!Key,
         S!Keys, S!Detections, S!Idle, S!Events, S!Live, S!Backend, S!Blocked,
         S!Written, S!CreateResource, S!EditSpec, S!DeleteResource, S!PlatformChanges,
         S!GarbageCollect, S!Drift, S!PodsReady, S!PodsFail, S!Begin, S!NextComp,
         S!Leave, S!AfterBinding, S!After, S!Last, S!Advance, S!EndAfterDelay,
         S!EndWithError, S!Outcomes, S!Charge, S!TimerFires, S!Start, S!StartFails,
         S!Refuse, S!PlatformGate, S!Stored, S!Changed, S!RefuseStatus, S!Tpl, S!Fresh,
         S!Existing, S!AfterUpsert, S!Upsert, S!Workload, S!Rebuilt, S!Resolves,
         S!reconcileServiceAccount, S!reconcileClusterRole, S!reconcileAdmissionService,
         S!reconcileClusterRoleBinding, S!reconcileSCC, S!reconcileValidatingWebhook,
         S!reconcileContainerSensorConfigMap, S!reconcileContainerSensorDaemonSet,
         S!reconcileClusterSensorDeployment, S!reconcileAdmissionDeployment,
         S!reconcileRuntimeSensorDaemonSet, S!BuildArgsPanics, S!NextCleanup, S!Target,
         S!NothingToDelete, S!LookupFails, S!DeleteObject, S!Cleanup,
         S!ReadComponentStatus, S!WithVerdict, S!updateComponentStatuses, S!Restart,
         S!Ensure, S!Pass, S!Environment, S!Next,
         P!cluster, P!queues, P!Comp, P!Kinds, P!KindsOf, P!ClusterScoped, P!Key,
         P!Keys, P!Detections, P!Idle, P!Events, P!Live, P!Backend, P!Blocked,
         P!Written, P!CreateResource, P!EditSpec, P!DeleteResource, P!PlatformChanges,
         P!GarbageCollect, P!Drift, P!PodsReady, P!PodsFail, P!Begin, P!NextComp,
         P!Leave, P!AfterBinding, P!After, P!Last, P!Advance, P!EndAfterDelay,
         P!EndWithError, P!Outcomes, P!Charge, P!TimerFires, P!Start, P!StartFails,
         P!Refuse, P!PlatformGate, P!Stored, P!Changed, P!RefuseStatus, P!Tpl, P!Fresh,
         P!Existing, P!AfterUpsert, P!Upsert, P!Workload, P!Rebuilt, P!Resolves,
         P!reconcileServiceAccount, P!reconcileClusterRole, P!reconcileAdmissionService,
         P!reconcileClusterRoleBinding, P!reconcileSCC, P!reconcileValidatingWebhook,
         P!reconcileContainerSensorConfigMap, P!reconcileContainerSensorDaemonSet,
         P!reconcileClusterSensorDeployment, P!reconcileAdmissionDeployment,
         P!reconcileRuntimeSensorDaemonSet, P!BuildArgsPanics, P!NextCleanup, P!Target,
         P!NothingToDelete, P!LookupFails, P!DeleteObject, P!Cleanup,
         P!ReadComponentStatus, P!WithVerdict, P!updateComponentStatuses, P!Restart,
         P!Ensure, P!Pass, P!Environment, P!Next

\* The two instances have the same behaviours.
LEMMA SameSpec == S!Spec => P!Spec
  <1>1. S!Init <=> P!Init
    BY DEF S!Init, S!Idle, S!Keys, S!Key, S!Comp, S!Kinds, S!ClusterScoped, S!Detections,
           P!Init, P!Idle, P!Keys, P!Key, P!Comp, P!Kinds, P!ClusterScoped, P!Detections
  <1>2. [S!Next]_S!vars => [P!Next]_P!vars
    BY SameNext DEF S!vars, P!vars
  <1> QED
    BY <1>1, <1>2, PTL DEF S!Spec, P!Spec

\* What is proved of ContainerSecurity, in its own words.
THEOREM SensorsAlone ==
  S!Spec => /\ [](S!TypeOK /\ S!NeverForgotten /\ S!AvailableMeansDeployed
                  /\ S!AvailableMeansCurrent /\ S!WebhookHasBackend)
            /\ S!VerdictMatchesSpec /\ S!StaysSettled
  <1>1. P!TypeOK <=> S!TypeOK
    BY DEF P!TypeOK, P!Resource, P!Content, P!Template, P!Worker, P!PCs, P!Comp, P!Kinds, P!Keys,
           P!Key, P!ClusterScoped, P!Reasons, P!Detections,
           S!TypeOK, S!Resource, S!Content, S!Template, S!Worker, S!PCs, S!Comp, S!Kinds, S!Keys,
           S!Key, S!ClusterScoped, S!Reasons, S!Detections
  <1>2. P!NeverForgotten => S!NeverForgotten
    BY DEF P!NeverForgotten, S!NeverForgotten
  <1> USE DEF P!Original, P!NameIsOwn, P!Vouched, P!Present, P!KindsOf, P!Comp, P!Kinds, P!Key,
              P!ClusterScoped,
              S!Original, S!NameIsOwn, S!Vouched, S!Present, S!KindsOf, S!Comp, S!Kinds, S!Key,
              S!ClusterScoped
  <1>3. P!AvailableMeansDeployed => S!AvailableMeansDeployed
    BY DEF P!AvailableMeansDeployed, S!AvailableMeansDeployed
  <1>4. P!AvailableMeansCurrent => S!AvailableMeansCurrent
    BY DEF P!AvailableMeansCurrent, P!OfSpec, S!AvailableMeansCurrent, S!OfSpec
  <1>5. P!WebhookHasBackend => S!WebhookHasBackend
    BY DEF P!WebhookHasBackend, S!WebhookHasBackend
  <1>6. P!VerdictMatchesSpec => S!VerdictMatchesSpec
    BY PTL DEF P!VerdictMatchesSpec, P!vars, S!VerdictMatchesSpec, S!vars
  <1>7. P!StaysSettled => S!StaysSettled
    BY PTL DEF P!StaysSettled, P!Settled, P!Deployed, P!Wanted, P!vars,
               S!StaysSettled, S!Settled, S!Deployed, S!Wanted, S!vars
  <1>8. P!Spec => /\ []P!TypeOK /\ []P!NeverForgotten /\ []P!AvailableMeansDeployed
                  /\ []P!AvailableMeansCurrent /\ []P!WebhookHasBackend
                  /\ P!VerdictMatchesSpec /\ P!StaysSettled
    BY SameAssumption, OperatorAssumption, P!TypeCorrect, P!NothingIsForgotten,
       P!AvailableIsDeployed, P!AvailableIsCurrent, P!WebhookIsBacked,
       P!VerdictIsOfStoredSpec, P!ConvergedStays, PTL
  <1> QED
    BY <1>1, <1>2, <1>3, <1>4, <1>5, <1>6, <1>7, <1>8, SameSpec, PTL

\* The same for the client's view of the sensors' reconciler.
LEMMA SameClient == P!ConfirmsSpec => S!ConfirmsSpec
  <1>1. P!Client!Init <=> S!Client!Init
    BY DEF P!Client!Init, P!SpecOf, P!ClaimOf, S!Client!Init, S!SpecOf, S!ClaimOf
  <1>2. P!Client!Next <=> S!Client!Next
    BY DEF P!Client!Next, P!Client!Write, P!Client!Delete, P!Client!Confirm, P!Client!Withdraw,
           P!SpecOf, P!ClaimOf,
           S!Client!Next, S!Client!Write, S!Client!Delete, S!Client!Confirm, S!Client!Withdraw,
           S!SpecOf, S!ClaimOf
  <1>3. (UNCHANGED P!Client!cvars) <=> (UNCHANGED S!Client!cvars)
    BY DEF P!Client!cvars, P!SpecOf, P!ClaimOf, S!Client!cvars, S!SpecOf, S!ClaimOf
  <1> QED
    BY <1>1, <1>2, <1>3, PTL DEF P!ConfirmsSpec, P!Client!Spec, S!ConfirmsSpec, S!Client!Spec

\* The gate lets a pass through with the settings of the cached copy, and only if
\* the condition of that copy is True and it names a secret.
LEMMA GateGives ==
  ASSUME P!TypeOK, [P!Next]_P!vars, sw.pc = "gate", sw'.pc \in {"ensure", "clean"}
  PROVE  /\ cache[Ref] # Nil /\ cache[Ref].ready = "CredentialsReady"
         /\ sw'.conf = cache[Ref].spec
  <1>1. PlatformView.state = "ready" /\ sw'.conf = PlatformView.conf
    BY SameAssumption, OperatorAssumption, P!ConfKept
  <1>2. Gate(cache[Ref]) = "ready"
    BY <1>1 DEF PlatformView
  <1>3. cache[Ref] # Nil /\ cache[Ref].ready = "CredentialsReady"
    BY <1>2 DEF Gate
  <1> QED
    BY <1>1, <1>3 DEF PlatformView

\* The operator takes the steps of P, from well-typed states.
LEMMA OperatorTakesSteps == OperatorSpec => [](P!TypeOK) /\ [][P!Next]_P!vars
  <1>1. S!Spec => P!Spec
    BY SameSpec
  <1>2. P!Spec => []P!TypeOK
    BY SameAssumption, OperatorAssumption, P!TypeCorrect, PTL
  <1> QED
    BY <1>1, <1>2, ImplementsSensors, PTL DEF ImplementsContainerSecurity, P!Spec

\* No pass works with settings that name no secret: the reconciler looks at the
\* reference itself, behind a condition that may be out of date
\* (resolvePlatformConfig), and keeps what it saw for the whole pass.
THEOREM SettingsAlwaysNameASecret == OperatorSpec => []SettingsNameASecret
  <1>1. P!FromOpenGate => SettingsNameASecret
    <2>1. ASSUME NEW conf \in P!OpenConfs PROVE RefOf(conf) # Nil
      BY <2>1 DEF P!OpenConfs, Platforms
    <2> QED
      BY <2>1 DEF P!FromOpenGate, SettingsNameASecret, P!Keys, P!Key, P!Comp, P!Kinds,
                  P!ClusterScoped, S!Keys, S!Key, S!Comp, S!Kinds, S!ClusterScoped
  <1>2. P!Spec => []P!FromOpenGate
    BY SameAssumption, OperatorAssumption, P!SettingsAreOfAnOpenGate
  <1> QED
    BY <1>1, <1>2, SameSpec, ImplementsSensors, PTL DEF ImplementsContainerSecurity

\* A verdict of the one reconciler on the generation the other one reads names the
\* secret the other one hands to the sensors (ResolveCredentials and
\* resolvePlatformConfig).
THEOREM GateReadsTheVerdict == OperatorSpec => GateIsVouchedFor
  <1> DEFINE Gated == sw.pc = "gate" /\ sw'.pc \in {"ensure", "clean"}
             Vouch == /\ cache[Ref].ready = "CredentialsReady"
                      /\ cache[Ref].observed = cache[Ref].gen
                           => cache[Ref].source = SourceOf(sw'.conf)
  <1>1. P!TypeOK /\ CachedDescribesSpec /\ [P!Next]_P!vars => (Gated => Vouch)
    <2> SUFFICES ASSUME P!TypeOK, CachedDescribesSpec, [P!Next]_P!vars, Gated PROVE Vouch
      OBVIOUS
    <2>1. /\ cache[Ref] # Nil /\ cache[Ref].ready = "CredentialsReady"
          /\ sw'.conf = cache[Ref].spec
      BY GateGives
    <2> QED
      BY <2>1, OperatorAssumption DEF CachedDescribesSpec
  <1>2. OperatorSpec => []CachedDescribesSpec
    BY ImplementsPlatformConfig, CachedIsVouchedFor, PTL
  <1>3. (Gated => Vouch) => [Gated => Vouch]_ovars
    OBVIOUS
  <1> QED
    BY <1>1, <1>2, <1>3, OperatorTakesSteps, PTL DEF GateIsVouchedFor

\* What ContainerSecurity promises holds of the process with both reconcilers,
\* and so does what a client may rely on.
THEOREM SensorsSide ==
  OperatorSpec => /\ [](S!TypeOK /\ S!NeverForgotten /\ S!AvailableMeansDeployed
                        /\ S!AvailableMeansCurrent /\ S!WebhookHasBackend)
                  /\ S!VerdictMatchesSpec /\ S!StaysSettled /\ S!ConfirmsSpec
  <1>1. P!Spec => P!ConfirmsSpec
    BY SameAssumption, OperatorAssumption, P!ConfirmsTheSpec
  <1> QED
    BY <1>1, SameSpec, SameClient, SensorsAlone, ImplementsSensors, PTL
       DEF ImplementsContainerSecurity

\* Rights come before workloads if outsiders do not delete them.
THEOREM SensorsRightsComeFirst ==
  ASSUME DriftKinds \cap {"role", "binding"} = {}
  PROVE  OperatorSpec => []S!RightsBeforeWorkload
  <1>1. P!RightsBeforeWorkload <=> S!RightsBeforeWorkload
    BY DEF P!RightsBeforeWorkload, P!Present, P!NameIsOwn, P!Grants, P!Key, P!ClusterScoped, P!Comp,
           S!RightsBeforeWorkload, S!Present, S!NameIsOwn, S!Grants, S!Key, S!ClusterScoped, S!Comp
  <1>2. P!Spec => []P!RightsBeforeWorkload
    BY SameAssumption, OperatorAssumption, P!RightsComeFirst DEF P!RightsSafe
  <1> QED
    BY <1>1, <1>2, SameSpec, ImplementsSensors, PTL DEF ImplementsContainerSecurity
=============================================================================
