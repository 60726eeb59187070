------------------------------- MODULE Operator -------------------------------
(***************************************************************************)
(* The manager process (cmd/main.go) with both of its reconcilers.         *)
(*                                                                         *)
(* The QualysContainerSecurity reconciler knows the credentials only       *)
(* through two reads: the informer cache's copy of the                     *)
(* QualysPlatformConfig, whose CredentialsReady condition the other        *)
(* reconciler writes, and the secret.  It watches neither.  PlatformView   *)
(* is what these reads yield; ContainerSecurity's platform variable is     *)
(* replaced by it.  The reconcilers share the process: one crash stops     *)
(* both.                                                                   *)
(***************************************************************************)
EXTENDS PlatformConfig

CONSTANTS
  Ref,        \* the config the resources refer to
  Removable,  \* the configs and resources users may delete
  \* The constants of ContainerSecurity.
  CR, Name, NameOf, SensorSpecs, OnOpenShift, DriftKinds, MaxSensorGen, MaxUid,
  MaxSensorFaults

VARIABLES crs, uids, objs, detected, squeue, sdelayed, sw, sfaults

svars == <<crs, uids, objs, detected, squeue, sdelayed, sw, sfaults>>
ovars == <<vars, svars>>

\* An open gate yields settings that name a secret.
Platforms == {p \in [state : {"absent", "notReady", "refError", "ready"},
                     conf : Specs, usable : SUBSET Specs] :
                p.state = "ready" => RefOf(p.conf) # Nil}

\* Mutant: the condition is trusted, and the reference not looked at.
TrustsCondition(copy) == CASE copy = Nil -> "absent"
                           [] copy # Nil /\ copy.ready # "CredentialsReady" -> "notReady"
                           [] copy # Nil /\ copy.ready = "CredentialsReady" -> "ready"

\* The gate's questions to the cached copy, in their order: is it there, is
\* its condition True, does it name a secret.  The condition may still be that of
\* an earlier spec.
Gate(copy) == CASE copy = Nil -> "absent"
                [] copy # Nil /\ copy.ready # "CredentialsReady" -> "notReady"
                [] copy # Nil /\ copy.ready = "CredentialsReady" ->
                     IF RefOf(copy.spec) = Nil THEN "refError" ELSE "ready"

\* Resolve fails if the secret or one of its keys is missing; an empty value
\* resolves.
PlatformView ==
  [state |-> Gate(cache[Ref]),
   conf |-> IF cache[Ref] = Nil THEN CHOOSE s \in Specs : TRUE ELSE cache[Ref].spec,
   usable |-> {s \in Specs : RefOf(s) # Nil /\ secrets[RefOf(s)] # "missing"}]

S == INSTANCE ContainerSecurity WITH
       Specs <- SensorSpecs, MaxGen <- MaxSensorGen, MaxFaults <- MaxSensorFaults,
       platform <- PlatformView,
       queue <- squeue, delayed <- sdelayed, w <- sw, faults <- sfaults

ASSUME OperatorAssumption == Ref \in Config /\ S!ConstantsAssumption

-----------------------------------------------------------------------------
OperatorInit == Init /\ S!Init

\* A step on the platform side: users, secrets, the watch and the reconciler.
PlatformStep ==
  /\ \/ \E c \in Config : \/ CreateConfig(c) \/ EditSpec(c)
                          \/ Deliver(c) \/ TimerFires(c) \/ Start(c) \/ StartFails(c)
     \/ \E c \in Config \cap Removable : DeleteConfig(c)
     \/ \E s \in Secret : SecretChanges(s)
     \/ Resolve
     \/ Report
  /\ UNCHANGED svars

\* A step on the sensors' side.
SensorStep ==
  /\ UNCHANGED vars
  /\ \/ \E cr \in CR : \/ S!CreateResource(cr) \/ S!EditSpec(cr) \/ S!TimerFires(cr)
                       \/ S!Start(cr) \/ S!StartFails(cr)
     \/ \E cr \in CR \cap Removable : S!DeleteResource(cr)
     \/ \E key \in S!Keys : \/ S!GarbageCollect(key) \/ S!Drift(key)
                            \/ S!PodsReady(key) \/ S!PodsFail(key)
     \/ S!Pass

\* Mutant: the sensors' controller starts without the initial list of resources.
UnsyncedRestart ==
  /\ Restart
  /\ sfaults < MaxSensorFaults /\ sfaults' = sfaults + 1
  /\ sw' = S!Idle /\ squeue' = {} /\ sdelayed' = {}
  /\ UNCHANGED <<crs, uids, objs, detected>>

\* One process runs both reconcilers.
OperatorRestart == Restart /\ S!Restart

OperatorNext == PlatformStep \/ SensorStep \/ OperatorRestart

OperatorSpec == OperatorInit /\ [][OperatorNext]_ovars

\* The fairness of both modules; the collector does not stop.
OperatorFairness ==
  /\ WF_ovars((Resolve \/ Report) /\ UNCHANGED svars)
  /\ \A c \in Config : /\ SF_ovars(Start(c) /\ UNCHANGED svars)
                       /\ WF_ovars(TimerFires(c) /\ UNCHANGED svars)
                       /\ WF_ovars(Deliver(c) /\ UNCHANGED svars)
  /\ WF_ovars(UNCHANGED vars /\ S!Pass)
  /\ \A cr \in CR : /\ SF_ovars(UNCHANGED vars /\ S!Start(cr))
                    /\ WF_ovars(UNCHANGED vars /\ S!TimerFires(cr))
  /\ WF_ovars(UNCHANGED vars /\ \E key \in S!Keys : S!GarbageCollect(key))

FairOperatorSpec == OperatorSpec /\ OperatorFairness

-----------------------------------------------------------------------------
(***************************** Properties **********************************)

\* Behind the cache and the other reconciler, the platform is what
\* ContainerSecurity takes it for: something that may change at any time
\* without a word, but not while a step of its own reconciler is taken.
ImplementsContainerSecurity == S!Spec

\* No pass works with settings that name no secret, and no object it makes keeps
\* such settings, although the condition that opens the gate may be that of an
\* earlier spec, and the config edited between any two steps of the pass.
SettingsNameASecret ==
  /\ sw.pc \in {"ensure", "clean"} => RefOf(sw.conf) # Nil
  /\ \A key \in S!Keys :
       objs[key] # Nil /\ objs[key].tpl # Nil => RefOf(objs[key].tpl.conf) # Nil

\* If the copy at the gate carries a verdict on its own generation, the secret that
\* verdict is about is the one the pass goes on to name: the two reconcilers read
\* the reference from different versions of the config, each from a cache, and
\* agree on it nevertheless.
GateIsVouchedFor ==
  [][sw.pc = "gate" /\ sw'.pc \in {"ensure", "clean"}
       => /\ cache[Ref].ready = "CredentialsReady"
          /\ cache[Ref].observed = cache[Ref].gen
               => cache[Ref].source = SourceOf(sw'.conf)]_ovars

\* The config is stored, with settings p, and its secret holds credentials.
UsableWith(p) == Usable(Ref) /\ api[Ref].spec = p

\* Credentials that stay usable reach the sensors, in the settings stored last,
\* although a user may add or repair the secret when no reconciler looks, the
\* verdict travels through a condition and a cache, and the reconciler that waits
\* for it is told nothing.  (Settings that name no secret are never usable.)
UsableReachesSensors ==
  \A cr \in CR, p \in {q \in Specs : RefOf(q) # Nil} :
    <>[](crs[cr] # Nil /\ UsableWith(p) /\ ~S!Blocked)
      => <>[](S!Deployed(cr) /\ PlatformView.conf = p)

\* If the config or its credentials stay away, Available=True is withdrawn for
\* good: two timers, one after the other, carry the news.
LossReachesResource ==
  \A cr \in CR :
    <>[](crs[cr] # Nil /\ ~Usable(Ref))
      => <>[](crs[cr] # Nil => crs[cr].avail # "AllComponentsReady")

=============================================================================
