---------------------------- MODULE MCSensorPods ----------------------------
(***************************************************************************)
(* Instances of SensorPods for TLC.                                        *)
(***************************************************************************)
EXTENDS SensorPods

Section(mode, seccomp, env) ==
  [mode |-> mode, hostNetwork |-> Unset, hostPID |-> Unset, readOnly |-> Unset,
   seccomp |-> seccomp, user |-> Unset, persistent |-> TRUE, runtime |-> "cri-o",
   rolling |-> Unset, env |-> env]

\* Sections to edit from and to, with overrides that matter in some modes only.
Editable ==
  {[Section(mode, p, e) EXCEPT !.hostNetwork = h, !.readOnly = r, !.rolling = u] :
     mode \in Modes, p \in {Unset, "Unconfined", "Localhost"}, e \in {0, 1},
     h \in {FALSE, Unset}, r \in {FALSE, Unset}, u \in {"number", Unset}}

Unprivileged == {Section("unprivileged", Unset, 0)}
Privileged == {Section("privileged", Unset, 0)}
=============================================================================
