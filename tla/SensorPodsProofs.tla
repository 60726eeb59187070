--------------------------- MODULE SensorPodsProofs ---------------------------
(***************************************************************************)
(* Which sensors run, for any set of container sensor sections and any     *)
(* number of edits.                                                        *)
(***************************************************************************)
EXTENDS SensorPods, TLAPS

\* The sections the API server accepts a DaemonSet of.
Accepted(s) == /\ s.mode # "unprivileged" /\ s.rolling # "number"
               /\ s.mode # "privileged" => s.seccomp # "Localhost"

\* Of an accepted section, OpenShift admits the pod.
Admissible(s) == s.mode # "privileged" /\ (s.mode = "minimal" => s.seccomp # "Unconfined")

\* The init container's volume is the only mount that may be undeclared.
LEMMA MountsDeclared ==
  ASSUME NEW s \in Fields
  PROVE  (\A c \in ContainerPod(s).containers : c.mounts \subseteq ContainerPod(s).volumes)
           <=> s.mode # "unprivileged"
  <1>1. ContainerPod(s).containers = {InitCacheDir, Main(s)}
    BY DEF ContainerPod
  <1>2. ContainerPod(s).volumes = HostPaths(s) \cup EmptyDirs(s)
    BY DEF ContainerPod
  <1>3. Main(s).mounts = HostPaths(s) \cup EmptyDirs(s)
    BY DEF Main
  <1>4. InitCacheDir.mounts = {"qscanner-cache"}
    BY DEF InitCacheDir
  <1>5. s.mode \in Modes
    BY DEF Fields
  <1>6. "qscanner-cache" \in HostPaths(s) \cup EmptyDirs(s) <=> s.mode # "unprivileged"
    <2>1. "qscanner-cache" \notin HostPaths(s)
      BY <1>5 DEF HostPaths, Modes
    <2>2. "qscanner-cache" \in EmptyDirs(s) <=> s.mode # "unprivileged"
      BY <1>5 DEF EmptyDirs, Modes
    <2> QED
      BY <2>1, <2>2
  <1> QED
    BY <1>1, <1>2, <1>3, <1>4, <1>6

\* The profile the builder writes out is Localhost only if the section says so.
LEMMA SeccompFacts ==
  ASSUME NEW s \in Fields
  PROVE  /\ EffectiveSeccomp(s) \in Profiles
         /\ EffectiveSeccomp(s) = "Localhost" <=> s.seccomp = "Localhost"
         /\ s.mode = "minimal" /\ s.seccomp # "Localhost"
              => (EffectiveSeccomp(s) = "RuntimeDefault" <=> s.seccomp # "Unconfined")
  BY ConstantsAssumption DEF Fields, Profiles, EffectiveSeccomp, Or

\* Valid of the container sensor's pod, read off its section.
LEMMA ValidFacts ==
  ASSUME NEW s \in Fields
  PROVE  Valid(ContainerPod(s)) <=> Accepted(s)
  <1>1. ContainerPod(s).containers = {InitCacheDir, Main(s)}
    BY DEF ContainerPod
  <1>2. ContainerPod(s).rolling = s.rolling
    BY DEF ContainerPod
  <1>3. /\ InitCacheDir.seccomp = Unset /\ ~InitCacheDir.privileged
        /\ Unset # "Localhost"
    BY ConstantsAssumption DEF InitCacheDir, Profiles
  <1>4. Main(s).privileged <=> s.mode = "privileged"
    BY DEF Main
  <1>5. Main(s).privileged => Main(s).escalation
    BY DEF Main
  <1>6. Main(s).seccomp = "Localhost" <=> s.mode # "privileged" /\ s.seccomp = "Localhost"
    BY <1>3, SeccompFacts DEF Main
  <1>7. (\A c \in ContainerPod(s).containers : c.seccomp # "Localhost" /\ (c.privileged => c.escalation))
          <=> Main(s).seccomp # "Localhost"
    BY <1>1, <1>3, <1>5
  <1> QED
    BY <1>2, <1>6, <1>7, MountsDeclared DEF Valid, Accepted

\* An accepted pod starts, and OpenShift admits it exactly if it is admissible.
LEMMA RunFacts ==
  ASSUME NEW s \in Fields, Accepted(s)
  PROVE  /\ Starts(ContainerPod(s))
         /\ Admits(BuildContainerSensorSCC(s.mode), ContainerPod(s)) <=> Admissible(s)
  <1> DEFINE pod == ContainerPod(s)
             scc == BuildContainerSensorSCC(s.mode)
             main == Main(s)
  <1>1. pod.containers = {InitCacheDir, main}
    BY DEF ContainerPod
  <1>2. s.mode \in {"minimal", "standard", "privileged"}
    BY DEF Accepted, Fields, Modes
  <1>3. ~InitCacheDir.nonRoot /\ ~main.nonRoot
    BY <1>2 DEF InitCacheDir, Main
  <1>4. Starts(pod)
    BY <1>1, <1>3 DEF Starts
  <1>5. /\ scc.hostNetwork /\ scc.hostPID /\ ~scc.privileged /\ ~scc.readOnly /\ ~scc.nonRoot
    BY <1>2 DEF BuildContainerSensorSCC
  <1>6. /\ ~InitCacheDir.privileged /\ ~InitCacheDir.escalation
        /\ InitCacheDir.add = {} /\ InitCacheDir.seccomp = Unset
    BY DEF InitCacheDir
  <1>7. main.escalation => scc.escalation
    BY <1>2 DEF Main, BuildContainerSensorSCC
  <1>8. main.add \subseteq scc.caps
    BY <1>2 DEF Main, BuildContainerSensorSCC
  <1>9. main.privileged <=> s.mode = "privileged"
    BY DEF Main
  <1>10. ASSUME s.mode # "privileged"
         PROVE  (main.seccomp # Unset => main.seccomp \in scc.seccomp) <=> Admissible(s)
    <2>1. main.seccomp = EffectiveSeccomp(s) /\ EffectiveSeccomp(s) \in Profiles /\ Unset \notin Profiles
      BY <1>10, SeccompFacts, ConstantsAssumption DEF Main
    <2>2. CASE s.mode = "standard"
      BY <2>1, <2>2 DEF BuildContainerSensorSCC, Admissible
    <2>3. CASE s.mode = "minimal"
      <3>1. scc.seccomp = {"RuntimeDefault"}
        BY <2>3 DEF BuildContainerSensorSCC
      <3>2. s.seccomp # "Localhost"
        BY <2>3 DEF Accepted
      <3> QED
        BY <2>1, <2>3, <3>1, <3>2, SeccompFacts DEF Admissible
    <2> QED
      BY <1>2, <1>10, <2>2, <2>3
  <1>11. Admits(scc, pod) <=> /\ s.mode # "privileged"
                              /\ main.seccomp # Unset => main.seccomp \in scc.seccomp
    <2> HIDE DEF pod, scc, main
    <2> QED
      BY <1>1, <1>5, <1>6, <1>7, <1>8, <1>9 DEF Admits
  <1> QED
    BY <1>4, <1>10, <1>11 DEF Admissible

\* The pods of the other two sensors are accepted, start and are admitted,
\* whatever the container sensor's section says.
LEMMA OtherPods ==
  ASSUME NEW s \in Fields
  PROVE  /\ Valid(ClusterPod) /\ Starts(ClusterPod) /\ Admits(BuildClusterSensorSCC, ClusterPod)
         /\ Valid(RuntimePod(s)) /\ Starts(RuntimePod(s))
         /\ Admits(BuildRuntimeSensorSCC, RuntimePod(s))
  <1>1. Unset # "number" /\ Unset # "Localhost"
    BY ConstantsAssumption DEF Profiles
  <1>2. Valid(ClusterPod) /\ Starts(ClusterPod)
    BY <1>1 DEF ClusterPod, Valid, Starts
  <1>3. Admits(BuildClusterSensorSCC, ClusterPod)
    BY DEF ClusterPod, Admits, BuildClusterSensorSCC
  <1>4. Valid(RuntimePod(s)) /\ Starts(RuntimePod(s))
    BY <1>1 DEF RuntimePod, Valid, Starts
  <1>5. Admits(BuildRuntimeSensorSCC, RuntimePod(s))
    BY DEF RuntimePod, Admits, BuildRuntimeSensorSCC
  <1> QED
    BY <1>2, <1>3, <1>4, <1>5

-----------------------------------------------------------------------------
\* The constraints of a sensor belong to the pod beside them: the container
\* sensor's to the spec, once a pass has reached it, the others' to every pod.
ConstraintsInv ==
  openshift => /\ at # "container" => sccs["container"] = BuildContainerSensorSCC(spec.mode)
               /\ templates["cluster"] # Unset => sccs["cluster"] = BuildClusterSensorSCC
               /\ templates["runtime"] # Unset => sccs["runtime"] = BuildRuntimeSensorSCC

\* Only accepted pods are stored.
TemplatesInv ==
  /\ templates["container"] # Unset => Valid(templates["container"])
  /\ templates["cluster"] \in {Unset, ClusterPod}
  /\ templates["runtime"] \in {Unset} \cup {RuntimePod(s) : s \in Specs}

\* What a pass has passed is there, and it is refused for its container sensor.
PassInv ==
  /\ at \in {"cluster", "runtime", "done"} => templates["container"] # Unset
  /\ at \in {"runtime", "done"} => templates["cluster"] # Unset
  /\ at = "done" => templates["runtime"] # Unset
  /\ at = "refused" => ~Valid(ContainerPod(spec))

Inv == TypeOK /\ ConstraintsInv /\ TemplatesInv /\ PassInv

LEMMA InvInit == Init => Inv
  BY ConstantsAssumption DEF Init, Inv, TypeOK, ConstraintsInv, TemplatesInv, PassInv, Sensors

\* The container sensor's step.
LEMMA ContainerStep == Inv /\ ReconcileSensor("container") => Inv'
  <1> SUFFICES ASSUME Inv, ReconcileSensor("container") PROVE Inv'
    OBVIOUS
  <1> DEFINE pod == ContainerPod(spec)
             scc == BuildContainerSensorSCC(spec.mode)
  <1>1. /\ at = "container" /\ UNCHANGED <<spec, openshift, edits>>
        /\ sccs' = IF openshift THEN [sccs EXCEPT !["container"] = scc] ELSE sccs
    BY DEF ReconcileSensor, SCC
  <1>2. Pod("container", spec) = pod /\ pod # Unset
    BY UnsetAssumption DEF Pod, Sensors, Inv, TypeOK
  <1>3. \/ at' = "refused" /\ ~Valid(pod) /\ templates' = templates
        \/ /\ at' = "cluster"
           /\ \/ templates' = templates /\ templates["container"] # Unset
              \/ templates' = [templates EXCEPT !["container"] = pod] /\ Valid(pod)
    BY <1>2 DEF ReconcileSensor, NextSensor, Sends
  <1> HIDE DEF pod, scc
  <1>4. TypeOK'
    BY <1>1, <1>3 DEF Inv, TypeOK, Sensors
  <1>5. ConstraintsInv'
    BY <1>1, <1>3 DEF Inv, TypeOK, Sensors, ConstraintsInv, scc
  <1>6. TemplatesInv'
    BY <1>1, <1>2, <1>3 DEF Inv, TypeOK, Sensors, TemplatesInv
  <1>7. PassInv'
    BY <1>1, <1>2, <1>3 DEF Inv, TypeOK, Sensors, PassInv, pod
  <1> QED
    BY <1>4, <1>5, <1>6, <1>7 DEF Inv

\* The steps of the other two, which are never refused.
LEMMA OtherStep ==
  ASSUME NEW c \in {"cluster", "runtime"}, Inv, ReconcileSensor(c)
  PROVE  Inv'
  <1> DEFINE pod == Pod(c, spec)
             scc == SCC(c, spec)
  <1>1. /\ at = c /\ UNCHANGED <<spec, openshift, edits>>
        /\ sccs' = IF openshift THEN [sccs EXCEPT ![c] = scc] ELSE sccs
    BY DEF ReconcileSensor
  <1>2. spec \in Specs /\ spec \in Fields /\ c \in Sensors
    BY ConstantsAssumption DEF Inv, TypeOK, Sensors
  <1>3. /\ c = "cluster" => pod = ClusterPod /\ scc = BuildClusterSensorSCC
        /\ c = "runtime" => pod = RuntimePod(spec) /\ scc = BuildRuntimeSensorSCC
    BY DEF Pod, SCC
  <1>4. Valid(pod) /\ pod # Unset
    BY <1>2, <1>3, OtherPods, UnsetAssumption
  <1>5. /\ at' = IF c = "cluster" THEN "runtime" ELSE "done"
        /\ \/ templates' = templates /\ templates[c] # Unset
           \/ templates' = [templates EXCEPT ![c] = pod]
    BY <1>4 DEF ReconcileSensor, NextSensor, Sends
  <1> HIDE DEF pod, scc
  <1>6. TypeOK'
    BY <1>1, <1>5 DEF Inv, TypeOK, Sensors
  <1>7. ConstraintsInv'
    BY <1>1, <1>3, <1>5 DEF Inv, TypeOK, Sensors, ConstraintsInv
  <1>8. TemplatesInv'
    BY <1>1, <1>2, <1>3, <1>5 DEF Inv, TypeOK, Sensors, TemplatesInv
  <1>9. PassInv'
    BY <1>1, <1>4, <1>5 DEF Inv, TypeOK, Sensors, PassInv
  <1> QED
    BY <1>6, <1>7, <1>8, <1>9 DEF Inv

LEMMA InvStep == Inv /\ [Next]_vars => Inv'
  <1> SUFFICES ASSUME Inv, [Next]_vars PROVE Inv'
    OBVIOUS
  <1>1. ASSUME EditSpec PROVE Inv'
    BY <1>1, ConstantsAssumption
    DEF EditSpec, Inv, TypeOK, ConstraintsInv, TemplatesInv, PassInv, Sensors
  <1>2. ASSUME PassAgain PROVE Inv'
    BY <1>2 DEF PassAgain, Inv, TypeOK, ConstraintsInv, TemplatesInv, PassInv, Sensors
  <1>3. ASSUME NEW c \in Sensors, ReconcileSensor(c) PROVE Inv'
    BY <1>3, ContainerStep, OtherStep DEF Sensors
  <1>4. ASSUME UNCHANGED vars PROVE Inv'
    BY <1>4 DEF vars, Inv, TypeOK, ConstraintsInv, TemplatesInv, PassInv
  <1> QED
    BY <1>1, <1>2, <1>3, <1>4 DEF Next

-----------------------------------------------------------------------------
\* Every variable has its type, whatever sections users write and however often
\* they edit them.
THEOREM TypeCorrect == Spec => []TypeOK
  <1>1. Inv => TypeOK
    BY DEF Inv
  <1> QED
    BY <1>1, InvInit, InvStep, PTL DEF Spec

\* The container sensor runs exactly if its section is supported, for every set
\* of sections users may write and every sequence of edits: the builders, the
\* constraints and the API server's validation fit together.
THEOREM SupportedSpecsRun == Spec => []RunsExactlyIfSupported
  <1>1. Inv => RunsExactlyIfSupported
    <2> SUFFICES ASSUME Inv, at \in {"done", "refused"},
                        templates["container"] \in {Unset, ContainerPod(spec)}
                 PROVE  Runs("container") <=> Supported(spec)
      BY DEF RunsExactlyIfSupported
    <2>1. spec \in Fields
      BY ConstantsAssumption DEF Inv, TypeOK
    <2>2. Supported(spec) <=> Accepted(spec) /\ (openshift => Admissible(spec))
      BY <2>1, ConstantsAssumption DEF Supported, Accepted, Admissible, Fields, Modes, Inv, TypeOK
    <2>3. CASE templates["container"] = Unset
      <3>1. at = "refused"
        BY <2>3 DEF Inv, PassInv
      <3>2. ~Valid(ContainerPod(spec))
        BY <3>1 DEF Inv, PassInv
      <3> QED
        BY <2>1, <2>2, <2>3, <3>2, ValidFacts DEF Runs
    <2>4. CASE templates["container"] # Unset /\ templates["container"] = ContainerPod(spec)
      <3>1. Accepted(spec)
        BY <2>1, <2>4, ValidFacts DEF Inv, TemplatesInv
      <3>2. openshift => sccs["container"] = BuildContainerSensorSCC(spec.mode)
        BY DEF Inv, ConstraintsInv
      <3> QED
        BY <2>1, <2>2, <2>4, <3>1, <3>2, RunFacts DEF Runs
    <2> QED
      BY <2>3, <2>4
  <1> QED
    BY <1>1, InvInit, InvStep, PTL DEF Spec

\* A container sensor section never takes down the cluster or the runtime sensor.
THEOREM OtherSensorsRun == Spec => []OthersRun
  <1>1. Inv => OthersRun
    <2> SUFFICES ASSUME Inv, NEW c \in {"cluster", "runtime"}, at = "done" \/ templates[c] # Unset
                 PROVE  Runs(c)
      BY DEF OthersRun
    <2>1. templates[c] # Unset
      BY DEF Inv, PassInv
    <2>2. CASE c = "cluster"
      <3>1. spec \in Fields
        BY ConstantsAssumption DEF Inv, TypeOK
      <3> QED
        BY <2>1, <2>2, <3>1, OtherPods DEF Inv, TemplatesInv, ConstraintsInv, Runs
    <2>3. CASE c = "runtime"
      <3>1. PICK s \in Specs : templates["runtime"] = RuntimePod(s)
        BY <2>1, <2>3 DEF Inv, TemplatesInv
      <3>2. s \in Fields
        BY ConstantsAssumption
      <3> QED
        BY <2>1, <2>3, <3>1, <3>2, OtherPods DEF Inv, ConstraintsInv, Runs
    <2> QED
      BY <2>2, <2>3
  <1> QED
    BY <1>1, InvInit, InvStep, PTL DEF Spec
=============================================================================
