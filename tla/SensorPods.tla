------------------------------ MODULE SensorPods ------------------------------
(***************************************************************************)
(* The pods the reconciler builds, and who has to accept them              *)
(* (buildContainerSensorDaemonSet, buildClusterSensorDeployment,           *)
(* buildRuntimeSensorDaemonSet and internal/resources/scc.go).             *)
(*                                                                         *)
(* A pass makes, for each sensor in turn, its SecurityContextConstraints   *)
(* (on OpenShift) and then its workload.  The API server validates the     *)
(* workload; a refusal ends the pass before the sensors that follow.       *)
(* OpenShift then admits a pod only if the constraints allow what it asks  *)
(* for.  The pass is one step per sensor here: ContainerSecurity splits it *)
(* into API calls and lets failures and crashes interleave.  The other two *)
(* sensors are enabled with their default sections.                        *)
(***************************************************************************)
EXTENDS Naturals, FiniteSets

CONSTANTS
  Specs,     \* the container sensor sections a user may write
  MaxEdits,  \* bound: edits of the resource
  Unset      \* an optional field that is not there, and no object

Modes == {"unprivileged", "minimal", "standard", "privileged"}
Capabilities == {"SYS_ADMIN", "SYS_PTRACE", "SYS_CHROOT", "DAC_READ_SEARCH"}
Profiles == {"RuntimeDefault", "Unconfined", "Localhost"}

\* env: how many environment variables the spec adds.  user: root, or not.
\* rolling: maxUnavailable is a percentage, or a number written as a string.
Fields == [mode : Modes, hostNetwork : BOOLEAN \cup {Unset}, hostPID : BOOLEAN \cup {Unset},
           readOnly : BOOLEAN \cup {Unset}, seccomp : Profiles \cup {Unset},
           user : {"root", "nobody", Unset}, persistent : BOOLEAN,
           runtime : {"containerd", "cri-o", "docker"},
           rolling : {"percent", "number", Unset}, env : Nat]

ASSUME ConstantsAssumption ==
  /\ Specs \subseteq Fields /\ Specs # {}
  /\ MaxEdits \in Nat
  /\ Unset \notin BOOLEAN
  /\ Unset \notin Profiles \cup {"root", "nobody", "percent", "number"}

Sensors == {"container", "cluster", "runtime"}

VARIABLES
  spec,       \* what the resource asks for
  openshift,  \* whether the cluster is OpenShift
  sccs,       \* [Sensors -> SCC or Unset]
  templates,  \* [Sensors -> workload or Unset]
  at,         \* the sensor a pass has come to, or how the last one ended
  edits       \* edits so far

vars == <<spec, openshift, sccs, templates, at, edits>>

-----------------------------------------------------------------------------
(***************************** The builders ********************************)

Or(field, default) == IF field = Unset THEN default ELSE field

\* GetEffectiveHostNetwork and GetEffectiveHostPID, GetEffectiveReadOnlyRootFilesystem,
\* GetEffectiveRunAsUser, GetEffectiveSeccompProfile.
EffectiveHost(s, field) == Or(field, s.mode # "unprivileged")
EffectiveReadOnly(s) == Or(s.readOnly, s.mode = "unprivileged")
EffectiveUser(s) == Or(s.user, IF s.mode = "unprivileged" THEN "nobody" ELSE "root")
EffectiveSeccomp(s) ==
  Or(s.seccomp, IF s.mode \in {"unprivileged", "minimal"} THEN "RuntimeDefault" ELSE "Unconfined")

\* buildContainerSensorVolumes: the volumes by kind; the sensor mounts them all.
HostPaths(s) ==
  (CASE s.mode = "unprivileged" -> {"runtime-socket"}
     [] s.mode = "minimal" -> {"runtime-socket", "host-root"}
                              \cup (IF s.persistent THEN {"sensor-data"} ELSE {})
     [] s.mode \in {"standard", "privileged"} ->
          {"socket-volume"} \cup (IF s.persistent THEN {"persistent-volume", "agent-volume"} ELSE {}))
  \cup (IF s.runtime = "cri-o" THEN {"container-storage", "storage-config-volume"} ELSE {})

EmptyDirs(s) ==
  CASE s.mode = "unprivileged" -> {"sensor-data", "tmp"}
    [] s.mode = "minimal" -> {"tmp", "qscanner-cache"}
                             \cup (IF s.persistent THEN {} ELSE {"sensor-data"})
    [] s.mode \in {"standard", "privileged"} ->
         {"qscanner-cache"} \cup (IF s.persistent THEN {} ELSE {"persistent-volume", "agent-volume"})

\* buildContainerSensorSecurityContext; seccomp is not set in privileged mode.
Main(s) ==
  [privileged |-> s.mode = "privileged",
   user |-> IF s.mode = "unprivileged" THEN EffectiveUser(s) ELSE "root",
   nonRoot |-> s.mode = "unprivileged",
   escalation |-> s.mode \in {"standard", "privileged"},
   readOnly |-> s.mode \in {"unprivileged", "minimal"} /\ EffectiveReadOnly(s),
   seccomp |-> IF s.mode = "privileged" THEN Unset ELSE EffectiveSeccomp(s),
   add |-> CASE s.mode = "unprivileged" -> {"DAC_READ_SEARCH"}
             [] s.mode = "minimal" -> {"SYS_PTRACE"}
             [] s.mode = "standard" -> Capabilities
             [] s.mode = "privileged" -> {},
   mounts |-> HostPaths(s) \cup EmptyDirs(s)]

\* The container that prepares the cache directory is the same in every mode.
InitCacheDir ==
  [privileged |-> FALSE, user |-> "root", nonRoot |-> FALSE, escalation |-> FALSE,
   readOnly |-> Unset, seccomp |-> Unset, add |-> {}, mounts |-> {"qscanner-cache"}]

ContainerPod(s) ==
  [hostNetwork |-> EffectiveHost(s, s.hostNetwork), hostPID |-> EffectiveHost(s, s.hostPID),
   volumes |-> HostPaths(s) \cup EmptyDirs(s), rolling |-> s.rolling, env |-> s.env,
   containers |-> {InitCacheDir, Main(s)}]

ClusterPod ==
  [hostNetwork |-> FALSE, hostPID |-> FALSE, volumes |-> {}, rolling |-> Unset, env |-> 0,
   containers |-> {[privileged |-> FALSE, user |-> "nobody", nonRoot |-> TRUE,
                    escalation |-> FALSE, readOnly |-> Unset, seccomp |-> Unset,
                    add |-> {}, mounts |-> {}]}]

RuntimePod(s) ==
  LET mounted == {"proc-root"} \cup (IF s.runtime = "cri-o" THEN {"socket-volume"} ELSE {}) IN
  [hostNetwork |-> TRUE, hostPID |-> FALSE, volumes |-> mounted, rolling |-> Unset, env |-> 0,
   containers |-> {[privileged |-> TRUE, user |-> "root", nonRoot |-> FALSE,
                    escalation |-> TRUE, readOnly |-> Unset, seccomp |-> Unset,
                    add |-> {}, mounts |-> mounted]}]

Pod(c, s) == CASE c = "container" -> ContainerPod(s)
               [] c = "cluster" -> ClusterPod
               [] c = "runtime" -> RuntimePod(s)

\* A workload is told apart from its absence.
ASSUME UnsetAssumption == \A c \in Sensors, s \in Specs : Pod(c, s) # Unset

\* Mutant: the case of minimal mode is missing, so that it gets the default's.
ForgetMinimal(mode) ==
  [hostNetwork |-> mode # "unprivileged", hostPID |-> mode # "unprivileged", privileged |-> FALSE,
   escalation |-> mode \in {"standard", "privileged"},
   caps |-> IF mode \in {"unprivileged", "minimal"} THEN {"DAC_READ_SEARCH"} ELSE Capabilities,
   readOnly |-> mode = "unprivileged", nonRoot |-> mode = "unprivileged",
   seccomp |-> IF mode \in {"unprivileged", "minimal"} THEN {"RuntimeDefault"} ELSE Profiles]

\* Standard and privileged mode share the default case.
BuildContainerSensorSCC(mode) ==
  [hostNetwork |-> mode # "unprivileged", hostPID |-> mode # "unprivileged", privileged |-> FALSE,
   escalation |-> mode \in {"standard", "privileged"},
   caps |-> CASE mode = "unprivileged" -> {"DAC_READ_SEARCH"}
              [] mode = "minimal" -> {"SYS_PTRACE"}
              [] mode \in {"standard", "privileged"} -> Capabilities,
   readOnly |-> mode = "unprivileged", nonRoot |-> mode = "unprivileged",
   seccomp |-> IF mode \in {"unprivileged", "minimal"} THEN {"RuntimeDefault"} ELSE Profiles]

BuildClusterSensorSCC ==
  [hostNetwork |-> TRUE, hostPID |-> FALSE, privileged |-> FALSE, escalation |-> TRUE,
   caps |-> {}, readOnly |-> FALSE, nonRoot |-> FALSE, seccomp |-> {}]

BuildRuntimeSensorSCC ==
  [hostNetwork |-> TRUE, hostPID |-> TRUE, privileged |-> TRUE, escalation |-> TRUE,
   caps |-> Capabilities, readOnly |-> FALSE, nonRoot |-> FALSE, seccomp |-> {}]

SCC(c, s) == CASE c = "container" -> BuildContainerSensorSCC(s.mode)
               [] c = "cluster" -> BuildClusterSensorSCC
               [] c = "runtime" -> BuildRuntimeSensorSCC

-----------------------------------------------------------------------------
(***************************** Kubernetes and OpenShift ********************)

\* What the API server asks of a workload: a mounted volume is declared, a
\* Localhost profile is named (the builders never name one), and maxUnavailable
\* written as a string is a percentage.
Valid(p) ==
  /\ \A c \in p.containers : /\ c.mounts \subseteq p.volumes
                             /\ c.seccomp # "Localhost"
                             /\ c.privileged => c.escalation
  /\ p.rolling # "number"

\* What OpenShift asks of a pod whose service account may use only this SCC; it
\* fills in the fields that are not set.
Admits(scc, p) ==
  /\ p.hostNetwork => scc.hostNetwork
  /\ p.hostPID => scc.hostPID
  /\ \A c \in p.containers : /\ c.privileged => scc.privileged
                             /\ c.escalation => scc.escalation
                             /\ c.add \subseteq scc.caps
                             /\ scc.readOnly => c.readOnly # FALSE
                             /\ scc.nonRoot => c.user # "root"
                             /\ c.seccomp # Unset => c.seccomp \in scc.seccomp

\* The kubelet does not start a container as root that asked not to run as root.
Starts(p) == \A c \in p.containers : c.nonRoot => c.user # "root"

-----------------------------------------------------------------------------
(***************************** Reconcile ***********************************)

Init ==
  /\ spec \in Specs
  /\ openshift \in BOOLEAN
  /\ sccs = [c \in Sensors |-> Unset]
  /\ templates = [c \in Sensors |-> Unset]
  /\ at = "container"
  /\ edits = 0

EditSpec ==
  /\ at \notin {"cluster", "runtime"} /\ edits < MaxEdits
  /\ spec' \in Specs \ {spec}
  /\ at' = "container"
  /\ edits' = edits + 1
  /\ UNCHANGED <<openshift, sccs, templates>>

\* Whether the pass sends the workload: the container sensor's if its environment
\* has another length, the cluster sensor's if there is none, the runtime
\* sensor's always.
Sends(c) == \/ templates[c] = Unset
            \/ c = "container" /\ templates[c].env # spec.env
            \/ c = "runtime"

\* Mutant: a pass that is over does not end.
NoEnd == [container |-> "cluster", cluster |-> "runtime", runtime |-> "next"]

NextSensor == [container |-> "cluster", cluster |-> "runtime", runtime |-> "done"]

ReconcileSensor(c) ==
  /\ at = c
  /\ sccs' = IF openshift THEN [sccs EXCEPT ![c] = SCC(c, spec)] ELSE sccs
  /\ IF Sends(c) /\ ~Valid(Pod(c, spec))
       THEN at' = "refused" /\ UNCHANGED templates
       ELSE /\ templates' = IF Sends(c) THEN [templates EXCEPT ![c] = Pod(c, spec)] ELSE templates
            /\ at' = NextSensor[c]
  /\ UNCHANGED <<spec, openshift, edits>>

\* The RequeueAfter timer.
PassAgain ==
  /\ at \in {"done", "refused"}
  /\ at' = "container"
  /\ UNCHANGED <<spec, openshift, sccs, templates, edits>>

Next == EditSpec \/ PassAgain \/ \E c \in Sensors : ReconcileSensor(c)

Spec == Init /\ [][Next]_vars

-----------------------------------------------------------------------------
(***************************** Properties **********************************)

\* Every variable has its type.
TypeOK ==
  /\ spec \in Specs /\ openshift \in BOOLEAN
  /\ DOMAIN sccs = Sensors /\ DOMAIN templates = Sensors
  /\ at \in Sensors \cup {"done", "refused"}
  /\ edits \in 0 .. MaxEdits

Runs(c) == /\ templates[c] # Unset
           /\ Starts(templates[c])
           /\ openshift => Admits(sccs[c], templates[c])

\* The specs that reach a running container sensor: which settings have to fit
\* together is spread over the builders, the API server and the SCCs.
Supported(s) ==
  /\ s.mode \in {"minimal", "standard"} \cup (IF openshift THEN {} ELSE {"privileged"})
  /\ s.rolling # "number"
  /\ s.mode # "privileged" => s.seccomp # "Localhost"
  /\ openshift /\ s.mode = "minimal" => s.seccomp # "Unconfined"

\* When a pass has ended and the DaemonSet is not left over from an earlier spec,
\* the container sensor runs exactly if its spec is one of those, whatever the
\* overrides of host network, host PID, root file system, user and storage.
RunsExactlyIfSupported ==
  at \in {"done", "refused"} /\ templates["container"] \in {Unset, ContainerPod(spec)}
    => (Runs("container") <=> Supported(spec))

\* A pass that goes through leaves the two other sensors running, and one that
\* the API server refuses does not take down a sensor that an earlier pass has
\* brought up.
OthersRun ==
  \A c \in {"cluster", "runtime"} : (at = "done" \/ templates[c] # Unset) => Runs(c)

\* What internal/controller/qualyscontainersecurity_controller_test.go:514 says of
\* unprivileged mode: the pass ends with the default interval, not with the one
\* of an error.
UnprivilegedReconciles == spec.mode = "unprivileged" => at # "refused"

\* What README.md:396 says of privileged mode on OpenShift: its SCC permits a
\* privileged container.
PrivilegedIsAdmitted ==
  openshift /\ at = "done" /\ templates["container"] = ContainerPod(spec)
            /\ spec.mode = "privileged"
    => Admits(sccs["container"], templates["container"])

=============================================================================
