------------------------ MODULE PlatformConfigProofs ------------------------
(***************************************************************************)
(* CredentialsReady=True with an up-to-date generation names the secret of *)
(* the stored spec, for any number of resources, secrets, edits and        *)
(* faults.                                                                 *)
(***************************************************************************)
EXTENDS PlatformConfig, TLAPS

\* The cache's copy is the stored resource as long as no version is missing.
CacheInv == \A c \in Config : synced[c] => cache[c] = api[c]

\* While the worker's resourceVersion is current, so are its spec and generation.
CopyInv ==
  w.pc # "idle" /\ w.fresh
    => api[w.c] # Nil /\ w.spec = api[w.c].spec /\ w.gen = api[w.c].gen

\* Only a reference that is there is ever found usable.
VerdictInv == w.verdict = "CredentialsReady" => RefOf(w.spec) # Nil

\* No status is of a generation yet to come.
ObservedInv == \A c \in Config : api[c] # Nil => api[c].observed <= api[c].gen

IInv == TypeOK /\ CacheInv /\ CopyInv /\ VerdictInv /\ ObservedInv /\ ReadyDescribesSpec
          /\ NeverForgotten

\* The initial state of the reconciler satisfies the inductive invariant.
LEMMA InitEstablishes == Init => IInv
  <1> SUFFICES ASSUME Init PROVE IInv
    OBVIOUS
  <1> USE ConstantsAssumption
  <1>1. Idle \in Worker
    BY DEF Idle, Worker, Reasons
  <1>2. TypeOK
    BY <1>1 DEF Init, TypeOK
  <1> QED
    BY <1>2 DEF Init, IInv, CacheInv, CopyInv, VerdictInv, ObservedInv, ReadyDescribesSpec,
                   NeverForgotten, Idle

\* No step breaks the type of a variable.
LEMMA TypeStep == TypeOK /\ CopyInv /\ VerdictInv /\ [Next]_vars => TypeOK'
  <1> SUFFICES ASSUME TypeOK, CopyInv, VerdictInv, [Next]_vars PROVE TypeOK'
    OBVIOUS
  <1> USE ConstantsAssumption DEF TypeOK
  <1>0. Idle \in Worker
    BY DEF Idle, Worker, Reasons
  <1>1. ASSUME NEW c \in Config, CreateConfig(c) PROVE TypeOK'
    <2>1. PICK s \in Specs :
            api' = [api EXCEPT ![c] = [spec |-> s, gen |-> 1, ready |-> "none",
                                       source |-> Nil, observed |-> 0]]
      BY <1>1 DEF CreateConfig
    <2>2. [spec |-> s, gen |-> 1, ready |-> "none", source |-> Nil, observed |-> 0] \in Resource
      BY DEF Resource, Reasons
    <2>3. api' \in [Config -> Resource \cup {Nil}]
      BY <2>1, <2>2
    <2>4. w' \in Worker
      BY <1>1 DEF CreateConfig, NewVersion, Worker
    <2> QED
      BY <1>1, <2>3, <2>4 DEF CreateConfig, NewVersion
  <1>2. ASSUME NEW c \in Config, EditSpec(c) PROVE TypeOK'
    BY <1>2 DEF EditSpec, NewVersion, Resource, Worker
  <1>3. ASSUME NEW c \in Config, DeleteConfig(c) PROVE TypeOK'
    BY <1>3 DEF DeleteConfig, NewVersion, Worker
  <1>4. ASSUME NEW c \in Config, Deliver(c) PROVE TypeOK'
    BY <1>4 DEF Deliver
  <1>5. ASSUME NEW c \in Config, TimerFires(c) \/ StartFails(c) PROVE TypeOK'
    BY <1>5 DEF TimerFires, StartFails, Charge
  <1>6. ASSUME NEW c \in Config, Start(c) PROVE TypeOK'
    <2>1. cache[c] # Nil => cache[c].spec \in Specs /\ cache[c].gen \in 0 .. MaxGen
      BY DEF Resource
    <2>2. synced[c] \in BOOLEAN
      OBVIOUS
    <2>3. w' \in Worker
      BY <1>0, <1>6, <2>1, <2>2 DEF Start, Worker, Idle, Reasons
    <2> QED
      BY <1>6, <2>3 DEF Start
  <1>7. ASSUME NEW s \in Secret, SecretChanges(s) PROVE TypeOK'
    BY <1>7 DEF SecretChanges
  <1>8. CASE Resolve
    <2>1. Verdict(w.spec) \in Reasons
      BY ConstantsAssumption DEF Verdict, Reasons, RefOf, Worker
    <2>2. w' \in Worker
      BY <1>8, <2>1 DEF Resolve, Worker, Reasons
    <2>3. faults' \in 0 .. MaxFaults
      BY <1>8 DEF Resolve, Charge
    <2> QED
      BY <1>8, <2>2, <2>3 DEF Resolve
  <1>9. CASE Report
    <2>1. w.c \in Config /\ w.verdict \in Reasons /\ w.gen \in 0 .. MaxGen
      BY DEF Worker
    <2>2. w.verdict = "CredentialsReady" => SourceOf(w.spec) \in Sources
      BY DEF VerdictInv, SourceOf, Sources, RefOf, Worker
    <2>3. ASSUME api[w.c] # Nil PROVE Reported \in [Config -> Resource \cup {Nil}]
      <3>1. api[w.c] \in Resource
        BY <2>1, <2>3
      <3>2. CASE w.verdict = "CredentialsReady"
        <4> DEFINE r == [api[w.c] EXCEPT !.ready = w.verdict, !.source = SourceOf(w.spec),
                                         !.observed = w.gen]
        <4>1. r \in Resource
          BY <2>1, <2>2, <3>1, <3>2 DEF Resource
        <4>2. Reported = [api EXCEPT ![w.c] = r]
          BY <2>1, <3>2 DEF Reported
        <4> QED
          BY <2>1, <4>1, <4>2
      <3>3. CASE w.verdict # "CredentialsReady"
        <4> DEFINE r == [api[w.c] EXCEPT !.ready = w.verdict]
        <4>1. r \in Resource
          BY <2>1, <3>1 DEF Resource
        <4>2. Reported = [api EXCEPT ![w.c] = r]
          BY <2>1, <3>3 DEF Reported
        <4> QED
          BY <2>1, <4>1, <4>2
      <3> QED
        BY <3>2, <3>3
    <2>4. w.fresh => api[w.c] # Nil
      BY <1>9 DEF Report, CopyInv
    <2>5. api' \in [Config -> Resource \cup {Nil}]
      BY <1>9, <2>3, <2>4 DEF Report, Stored
    <2>6. synced' \in [Config -> BOOLEAN]
      BY <1>9, Zenon DEF Report
    <2>7. faults' \in 0 .. MaxFaults
      BY <1>9 DEF Report, Charge
    <2>8. queue' \subseteq Config /\ delayed' \subseteq Config
      BY <1>9, <2>1 DEF Report, Requeue
    <2> QED
      BY <1>0, <1>9, <2>5, <2>6, <2>7, <2>8 DEF Report
  <1>10. CASE Restart
    BY <1>0, <1>10 DEF Restart
  <1>11. CASE UNCHANGED vars
    BY <1>11 DEF vars
  <1> QED
    BY <1>1, <1>2, <1>3, <1>4, <1>5, <1>6, <1>7, <1>8, <1>9, <1>10, <1>11 DEF Next

\* A write to a resource clears synced, and a delivery copies it.
LEMMA CacheStep == TypeOK /\ CacheInv /\ [Next]_vars => CacheInv'
  <1> SUFFICES ASSUME TypeOK, CacheInv, [Next]_vars PROVE CacheInv'
    OBVIOUS
  <1> USE DEF CacheInv, TypeOK
  <1>1. ASSUME NEW c \in Config, CreateConfig(c) \/ EditSpec(c) \/ DeleteConfig(c)
        PROVE CacheInv'
    BY <1>1 DEF CreateConfig, EditSpec, DeleteConfig, NewVersion
  <1>2. ASSUME NEW c \in Config, Deliver(c) PROVE CacheInv'
    BY <1>2 DEF Deliver
  <1>3. CASE Report
    <2>1. w.c \in Config
      BY DEF Worker
    <2>2. UNCHANGED cache
      BY <1>3 DEF Report
    <2>3. api' = api \/ ~synced'[w.c]
      BY <1>3, <2>1, Zenon DEF Report
    <2>4. \A c \in Config : synced'[c] => synced[c]
      BY <1>3, <2>1, Zenon DEF Report
    <2>5. \A c \in Config \ {w.c} : api'[c] = api[c]
      BY <1>3, <2>1 DEF Report, Reported
    <2> QED
      BY <2>2, <2>3, <2>4, <2>5
  <1>4. CASE Restart
    BY <1>4 DEF Restart
  <1>5. ASSUME NEW c \in Config, TimerFires(c) \/ Start(c) \/ StartFails(c) PROVE CacheInv'
    BY <1>5 DEF TimerFires, Start, StartFails
  <1>6. ASSUME NEW s \in Secret, SecretChanges(s) PROVE CacheInv'
    BY <1>6 DEF SecretChanges
  <1>7. CASE Resolve \/ UNCHANGED vars
    BY <1>7 DEF Resolve, vars
  <1> QED
    BY <1>1, <1>2, <1>3, <1>4, <1>5, <1>6, <1>7 DEF Next

\* The worker starts from a synced copy, and any write that overtakes it makes
\* its copy stale.
LEMMA CopyStep == TypeOK /\ CacheInv /\ CopyInv /\ [Next]_vars => CopyInv'
  <1> SUFFICES ASSUME TypeOK, CacheInv, CopyInv, [Next]_vars PROVE CopyInv'
    OBVIOUS
  <1> USE DEF CopyInv, TypeOK
  <1>1. ASSUME NEW c \in Config, CreateConfig(c) \/ EditSpec(c) \/ DeleteConfig(c)
        PROVE CopyInv'
    BY <1>1 DEF CreateConfig, EditSpec, DeleteConfig, NewVersion, Worker
  <1>2. ASSUME NEW c \in Config, Start(c) PROVE CopyInv'
    BY <1>2 DEF Start, CacheInv, Idle
  <1>3. CASE Resolve
    BY <1>3 DEF Resolve, Worker
  <1>4. CASE Report \/ Restart
    BY <1>4 DEF Report, Restart, Idle
  <1>5. ASSUME NEW c \in Config, Deliver(c) \/ TimerFires(c) \/ StartFails(c) PROVE CopyInv'
    BY <1>5 DEF Deliver, TimerFires, StartFails
  <1>6. ASSUME NEW s \in Secret, SecretChanges(s) PROVE CopyInv'
    BY <1>6 DEF SecretChanges
  <1>7. CASE UNCHANGED vars
    BY <1>7 DEF vars
  <1> QED
    BY <1>1, <1>2, <1>3, <1>4, <1>5, <1>6, <1>7 DEF Next

\* Resolve finds nothing usable behind a missing reference.
LEMMA VerdictStep == TypeOK /\ VerdictInv /\ [Next]_vars => VerdictInv'
  <1> SUFFICES ASSUME TypeOK, VerdictInv, [Next]_vars PROVE VerdictInv'
    OBVIOUS
  <1> USE DEF VerdictInv, TypeOK
  <1>1. ASSUME NEW c \in Config, CreateConfig(c) \/ EditSpec(c) \/ DeleteConfig(c)
        PROVE VerdictInv'
    BY <1>1 DEF CreateConfig, EditSpec, DeleteConfig, NewVersion, Worker, RefOf
  <1>2. ASSUME NEW c \in Config, Start(c) PROVE VerdictInv'
    BY <1>2 DEF Start, Idle
  <1>3. CASE Resolve
    <2>1. w'.spec = w.spec /\ w'.verdict \in {"CredentialError", Verdict(w.spec)}
      BY <1>3 DEF Resolve, Worker
    <2>2. Verdict(w.spec) = "CredentialsReady" => RefOf(w.spec) # Nil
      BY DEF Verdict
    <2> QED
      BY <2>1, <2>2 DEF RefOf
  <1>4. CASE Report \/ Restart
    BY <1>4 DEF Report, Restart, Idle
  <1>5. ASSUME NEW c \in Config, Deliver(c) \/ TimerFires(c) \/ StartFails(c) PROVE VerdictInv'
    BY <1>5 DEF Deliver, TimerFires, StartFails, RefOf
  <1>6. ASSUME NEW s \in Secret, SecretChanges(s) PROVE VerdictInv'
    BY <1>6 DEF SecretChanges, RefOf
  <1>7. CASE UNCHANGED vars
    BY <1>7 DEF vars, RefOf
  <1> QED
    BY <1>1, <1>2, <1>3, <1>4, <1>5, <1>6, <1>7 DEF Next

\* Only Report sets the condition to True; it then records the source and the
\* generation of a spec that, by CopyInv, is the stored one.
LEMMA StatusStep ==
  TypeOK /\ CopyInv /\ ObservedInv /\ ReadyDescribesSpec /\ [Next]_vars
    => ObservedInv' /\ ReadyDescribesSpec'
  <1> SUFFICES ASSUME TypeOK, CopyInv, ObservedInv, ReadyDescribesSpec, [Next]_vars
               PROVE ObservedInv' /\ ReadyDescribesSpec'
    OBVIOUS
  <1> USE ConstantsAssumption DEF TypeOK, ObservedInv, ReadyDescribesSpec, SourceOf, RefOf
  <1>0. \A c \in Config : api[c] # Nil =>
          api[c].gen \in 1 .. MaxGen /\ api[c].observed \in 0 .. MaxGen
    BY DEF Resource
  <1>1. ASSUME NEW c \in Config, CreateConfig(c) PROVE ObservedInv' /\ ReadyDescribesSpec'
    BY <1>0, <1>1 DEF CreateConfig
  <1>2. ASSUME NEW c \in Config, EditSpec(c) PROVE ObservedInv' /\ ReadyDescribesSpec'
    <2>1. api[c] \in Resource
      BY <1>2 DEF EditSpec
    <2>2. PICK s \in Specs : api' = [api EXCEPT ![c].spec = s, ![c].gen = @ + 1]
      BY <1>2 DEF EditSpec
    <2>3. api'[c].observed = api[c].observed /\ api'[c].gen = api[c].gen + 1
      BY <2>1, <2>2 DEF Resource
    <2>4. \A d \in Config \ {c} : api'[d] = api[d]
      BY <2>2
    <2>5. /\ api'[c].observed <= api'[c].gen
          /\ api'[c].observed # api'[c].gen
      BY <1>0, <1>2, <2>3 DEF EditSpec
    <2> QED
      BY <1>0, <2>4, <2>5
  <1>3. ASSUME NEW c \in Config, DeleteConfig(c) PROVE ObservedInv' /\ ReadyDescribesSpec'
    BY <1>0, <1>3 DEF DeleteConfig
  <1>4. CASE Report
    <2>1. w.c \in Config /\ w.gen \in 0 .. MaxGen
      BY DEF Worker
    <2>2. CASE api' = api
      BY <2>2
    <2>3. CASE api' = Reported /\ w.fresh
      <3>1. api[w.c] \in Resource /\ w.spec = api[w.c].spec /\ w.gen = api[w.c].gen
        BY <1>4, <2>1, <2>3 DEF CopyInv, Report
      <3>2. \A d \in Config \ {w.c} : api'[d] = api[d]
        BY <2>3 DEF Reported
      <3>3. CASE w.verdict = "CredentialsReady"
        <4>1. /\ api'[w.c].spec = w.spec /\ api'[w.c].gen = w.gen
              /\ api'[w.c].observed = w.gen /\ api'[w.c].source = SourceOf(w.spec)
          BY <2>1, <2>3, <3>1, <3>3 DEF Reported, Resource
        <4>2. w.gen <= w.gen
          BY <2>1
        <4>3. \A d \in Config : api'[d] # Nil => api'[d].observed <= api'[d].gen
          BY <2>1, <3>2, <4>1, <4>2
        <4>4. api'[w.c].source = SourceOf(api'[w.c].spec)
          BY <4>1
        <4> QED
          BY <2>1, <3>2, <4>3, <4>4
      <3>4. CASE w.verdict # "CredentialsReady"
        <4>1. /\ api'[w.c].ready = w.verdict /\ api'[w.c].gen = api[w.c].gen
              /\ api'[w.c].observed = api[w.c].observed
          BY <2>1, <2>3, <3>1, <3>4 DEF Reported, Resource
        <4>2. api[w.c] # Nil
          BY <3>1
        <4> QED
          BY <2>1, <3>2, <3>4, <4>1, <4>2
      <3> QED
        BY <3>3, <3>4
    <2> QED
      BY <1>4, <2>2, <2>3 DEF Report, Stored
  <1>5. ASSUME NEW c \in Config, Deliver(c) \/ TimerFires(c) \/ Start(c) \/ StartFails(c)
        PROVE ObservedInv' /\ ReadyDescribesSpec'
    BY <1>5 DEF Deliver, TimerFires, Start, StartFails
  <1>6. ASSUME NEW s \in Secret, SecretChanges(s) PROVE ObservedInv' /\ ReadyDescribesSpec'
    BY <1>6 DEF SecretChanges
  <1>7. CASE Resolve \/ Restart \/ UNCHANGED vars
    BY <1>7 DEF Resolve, Restart, vars
  <1> QED
    BY <1>1, <1>2, <1>3, <1>4, <1>5, <1>6, <1>7 DEF Next

\* A write is news for the watch; news, timers and passes hand the resource on.
LEMMA ForgottenStep == TypeOK /\ CacheInv /\ NeverForgotten /\ [Next]_vars => NeverForgotten'
  <1> SUFFICES ASSUME TypeOK, CacheInv, NeverForgotten, [Next]_vars PROVE NeverForgotten'
    OBVIOUS
  <1> USE DEF TypeOK, NeverForgotten
  <1>1. ASSUME NEW c \in Config, CreateConfig(c) \/ EditSpec(c) \/ DeleteConfig(c)
        PROVE NeverForgotten'
    <2>1. w'.pc = w.pc /\ w'.c = w.c
      BY <1>1 DEF CreateConfig, EditSpec, DeleteConfig, NewVersion, Worker
    <2>2. /\ ~synced'[c] /\ UNCHANGED <<queue, delayed>>
          /\ \A d \in Config \ {c} : api'[d] = api[d] /\ synced'[d] = synced[d]
      BY <1>1 DEF CreateConfig, EditSpec, DeleteConfig, NewVersion
    <2> QED
      BY <2>1, <2>2
  <1>2. ASSUME NEW c \in Config, Deliver(c) PROVE NeverForgotten'
    BY <1>2 DEF Deliver
  <1>3. ASSUME NEW c \in Config, TimerFires(c) \/ StartFails(c) PROVE NeverForgotten'
    BY <1>3 DEF TimerFires, StartFails
  <1>4. ASSUME NEW c \in Config, Start(c) PROVE NeverForgotten'
    <2>1. \A d \in Config \ {c} : api[d] # Nil => d \in queue' \cup delayed' \/ ~synced[d]
      BY <1>4 DEF Start
    <2>2. api[c] # Nil => (w'.pc # "idle" /\ w'.c = c) \/ ~synced[c]
      BY <1>4 DEF Start, CacheInv, Idle
    <2> QED
      BY <1>4, <2>1, <2>2 DEF Start
  <1>5. CASE Resolve
    BY <1>5 DEF Resolve, Worker
  <1>6. CASE Report
    <2>1. w.c \in Config
      BY DEF Worker
    <2>2. queue \subseteq queue' /\ delayed \subseteq delayed' /\ w.c \in queue' \cup delayed'
      BY <1>6 DEF Report, Requeue
    <2>3. \A d \in Config \ {w.c} : api'[d] = api[d]
      BY <1>6, <2>1 DEF Report, Reported
    <2>4. \A d \in Config : synced'[d] => synced[d]
      BY <1>6, <2>1, Zenon DEF Report
    <2> QED
      BY <2>1, <2>2, <2>3, <2>4
  <1>7. CASE Restart
    BY <1>7 DEF Restart
  <1>8. ASSUME NEW s \in Secret, SecretChanges(s) PROVE NeverForgotten'
    BY <1>8 DEF SecretChanges
  <1>9. CASE UNCHANGED vars
    BY <1>9 DEF vars
  <1> QED
    BY <1>1, <1>2, <1>3, <1>4, <1>5, <1>6, <1>7, <1>8, <1>9 DEF Next

\* The inductive invariant holds in every reachable state.
LEMMA Inductive == Spec => []IInv
  <1>1. IInv /\ [Next]_vars => IInv'
    BY TypeStep, CacheStep, CopyStep, VerdictStep, StatusStep, ForgottenStep DEF IInv
  <1> QED
    BY InitEstablishes, <1>1, PTL DEF Spec

\* The variables of the platform reconciler keep their types, for any number of
\* resources and secrets.
THEOREM TypeCorrect == Spec => []TypeOK
  <1>1. IInv => TypeOK
    BY DEF IInv
  <1> QED
    BY Inductive, <1>1, PTL

\* CredentialsReady=True for the current generation names the secret of the
\* stored spec, whatever edits, re-creations, cache lags, conflicts, lost replies
\* and crashes come between the lookup of the secret and the status update.
THEOREM ReadyIsOfStoredSpec == Spec => []ReadyDescribesSpec
  <1>1. IInv => ReadyDescribesSpec
    BY DEF IInv
  <1> QED
    BY Inductive, <1>1, PTL

\* No config that exists is ever forgotten, whatever calls fail and replies are
\* lost, and wherever the operator crashes.
THEOREM NothingIsForgotten == Spec => []NeverForgotten
  <1>1. IInv => NeverForgotten
    BY DEF IInv
  <1> QED
    BY Inductive, <1>1, PTL

\* How a write to one resource looks to a client: it is gone, it has another spec
\* and no claim, or it has the same spec and a claim about that one or none.
LEMMA ClientSees ==
  ASSUME NEW c \in Config, \A d \in Config \ {c} : api'[d] = api[d],
         \/ api'[c] = Nil
         \/ SpecOf(api'[c]) \in Specs \ {SpecOf(api[c])} /\ ClaimOf(api'[c]) = Nil
         \/ /\ SpecOf(api'[c]) = SpecOf(api[c])
            /\ \/ ClaimOf(api'[c]) \in {Nil, ClaimOf(api[c])}
               \/ /\ SpecOf(api[c]) \in Specs
                  /\ ClaimOf(api'[c]) = <<SourceOf(SpecOf(api[c]))>>
  PROVE  [Client!Next]_(Client!cvars)
  <1> DEFINE Desired == [d \in Config |-> SpecOf(api[d])]
             Claims == [d \in Config |-> ClaimOf(api[d])]
  <1>1. /\ \A d \in Config \ {c} : Desired'[d] = Desired[d] /\ Claims'[d] = Claims[d]
        /\ Desired'[c] = SpecOf(api'[c]) /\ Claims'[c] = ClaimOf(api'[c])
        /\ Desired[c] = SpecOf(api[c]) /\ Claims[c] = ClaimOf(api[c])
    OBVIOUS
  <1>2. /\ Desired' = [Desired EXCEPT ![c] = SpecOf(api'[c])]
        /\ Claims' = [Claims EXCEPT ![c] = ClaimOf(api'[c])]
    BY <1>1
  <1>3. CASE api'[c] = Nil
    <2>1. SpecOf(api'[c]) = Nil /\ ClaimOf(api'[c]) = Nil
      BY <1>3 DEF SpecOf, ClaimOf
    <2>2. Client!Delete(c)
      BY <1>2, <2>1 DEF Client!Delete
    <2> QED
      BY <2>2 DEF Client!Next
  <1>4. CASE SpecOf(api'[c]) \in Specs \ {SpecOf(api[c])} /\ ClaimOf(api'[c]) = Nil
    <2>1. Client!Write(c)
      BY <1>1, <1>2, <1>4 DEF Client!Write
    <2> QED
      BY <2>1 DEF Client!Next
  <1>5. CASE SpecOf(api'[c]) = SpecOf(api[c]) /\ ClaimOf(api'[c]) = Nil
    <2>1. Desired' = Desired
      BY <1>1, <1>5
    <2>2. Client!Withdraw(c)
      BY <1>2, <1>5, <2>1 DEF Client!Withdraw
    <2> QED
      BY <2>2 DEF Client!Next
  <1>6. CASE SpecOf(api'[c]) = SpecOf(api[c]) /\ ClaimOf(api'[c]) = ClaimOf(api[c])
    <2>1. Desired' = Desired /\ Claims' = Claims
      BY <1>1, <1>6
    <2> QED
      BY <2>1 DEF Client!cvars
  <1>7. CASE /\ SpecOf(api'[c]) = SpecOf(api[c]) /\ SpecOf(api[c]) \in Specs
             /\ ClaimOf(api'[c]) = <<SourceOf(SpecOf(api[c]))>>
    <2>1. Desired' = Desired /\ Desired[c] # Nil
      BY <1>1, <1>7, ConstantsAssumption
    <2>2. Claims'[c] = [s \in Specs |-> <<SourceOf(s)>>][Desired[c]]
      BY <1>1, <1>7
    <2>3. Client!Confirm(c)
      BY <1>1, <1>2, <2>1, <2>2 DEF Client!Confirm
    <2> QED
      BY <2>3 DEF Client!Next
  <1> QED
    BY <1>3, <1>4, <1>5, <1>6, <1>7

\* Every step of the reconciler and its surroundings is one a client may see: an
\* edit leaves every earlier generation behind, and a status update that
\* succeeds speaks of the stored spec.
LEMMA ClientStep == IInv /\ [Next]_vars => [Client!Next]_(Client!cvars)
  <1> SUFFICES ASSUME IInv, [Next]_vars PROVE [Client!Next]_(Client!cvars)
    OBVIOUS
  <1> USE DEF IInv, TypeOK
  <1>1. \A c \in Config : api[c] # Nil =>
          /\ api[c] \in Resource /\ api[c].gen \in Nat /\ api[c].observed \in Nat
          /\ api[c].observed <= api[c].gen /\ api[c].spec \in Specs
    BY ConstantsAssumption DEF Resource, ObservedInv
  <1>2. ASSUME UNCHANGED api PROVE [Client!Next]_(Client!cvars)
    BY <1>2 DEF Client!cvars
  <1>3. ASSUME NEW c \in Config, CreateConfig(c) PROVE [Client!Next]_(Client!cvars)
    <2>1. PICK s \in Specs :
            api' = [api EXCEPT ![c] = [spec |-> s, gen |-> 1, ready |-> "none",
                                       source |-> Nil, observed |-> 0]]
      BY <1>3 DEF CreateConfig
    <2>2. /\ SpecOf(api[c]) = Nil
          /\ api'[c].spec = s /\ api'[c].ready = "none"
          /\ \A d \in Config \ {c} : api'[d] = api[d]
      BY <1>3, <2>1 DEF CreateConfig, SpecOf
    <2>3. SpecOf(api'[c]) \in {s, Nil} /\ ClaimOf(api'[c]) = Nil
      BY <2>2 DEF SpecOf, ClaimOf
    <2>4. api'[c] = Nil \/ SpecOf(api'[c]) \in Specs \ {SpecOf(api[c])}
      BY <2>2, <2>3, ConstantsAssumption DEF SpecOf
    <2> QED
      BY <2>2, <2>3, <2>4, ClientSees
  <1>4. ASSUME NEW c \in Config, EditSpec(c) PROVE [Client!Next]_(Client!cvars)
    <2>1. PICK s \in Specs \ {api[c].spec} : api' = [api EXCEPT ![c].spec = s, ![c].gen = @ + 1]
      BY <1>4 DEF EditSpec
    <2>2. /\ api[c] # Nil /\ SpecOf(api[c]) = api[c].spec
          /\ api'[c].spec = s /\ api'[c].gen = api[c].gen + 1
          /\ api'[c].observed = api[c].observed
          /\ \A d \in Config \ {c} : api'[d] = api[d]
      BY <1>1, <1>4, <2>1 DEF EditSpec, SpecOf, Resource
    <2>3. api'[c].observed # api'[c].gen
      BY <1>1, <2>2
    <2>4. ClaimOf(api'[c]) = Nil /\ SpecOf(api'[c]) \in {s, Nil}
      BY <2>2, <2>3 DEF ClaimOf, SpecOf
    <2>5. api'[c] = Nil \/ SpecOf(api'[c]) \in Specs \ {SpecOf(api[c])}
      BY <2>1, <2>2, <2>4 DEF SpecOf
    <2> QED
      BY <2>2, <2>4, <2>5, ClientSees
  <1>5. ASSUME NEW c \in Config, DeleteConfig(c) PROVE [Client!Next]_(Client!cvars)
    <2>1. api'[c] = Nil /\ \A d \in Config \ {c} : api'[d] = api[d]
      BY <1>5 DEF DeleteConfig
    <2> QED
      BY <2>1, ClientSees
  <1>6. CASE Report
    <2>1. w.c \in Config
      BY DEF Worker
    <2>2. CASE api' = Reported /\ w.fresh
      <3>1. /\ api[w.c] # Nil /\ api[w.c] \in Resource
            /\ w.spec = api[w.c].spec /\ w.gen = api[w.c].gen
        BY <1>1, <1>6, <2>1, <2>2 DEF CopyInv, Report
      <3>2. /\ \A d \in Config \ {w.c} : api'[d] = api[d]
            /\ api'[w.c].spec = api[w.c].spec /\ api'[w.c].ready = w.verdict
        BY <2>1, <2>2, <3>1 DEF Reported, Resource
      <3>3. w.verdict = "CredentialsReady" => api'[w.c].source = SourceOf(w.spec)
        BY <2>1, <2>2, <3>1 DEF Reported, Resource
      <3>4. ClaimOf(api'[w.c]) \in {Nil, <<SourceOf(SpecOf(api[w.c]))>>}
        BY <3>1, <3>2, <3>3 DEF ClaimOf, SpecOf
      <3>5. SpecOf(api'[w.c]) = SpecOf(api[w.c]) \/ api'[w.c] = Nil
        BY <3>1, <3>2 DEF SpecOf
      <3>6. SpecOf(api[w.c]) \in Specs
        BY <1>1, <2>1, <3>1 DEF SpecOf
      <3> QED
        BY <2>1, <3>2, <3>4, <3>5, <3>6, ClientSees
    <2> QED
      BY <1>2, <1>6, <2>2 DEF Report, Stored
  <1>7. ASSUME NEW c \in Config, Deliver(c) \/ TimerFires(c) \/ Start(c) \/ StartFails(c)
        PROVE UNCHANGED api
    BY <1>7 DEF Deliver, TimerFires, Start, StartFails
  <1>8. ASSUME NEW s \in Secret, SecretChanges(s) PROVE UNCHANGED api
    BY <1>8 DEF SecretChanges
  <1>9. Resolve \/ Restart \/ UNCHANGED vars => UNCHANGED api
    BY DEF Resolve, Restart, vars
  <1> QED
    BY <1>2, <1>3, <1>4, <1>5, <1>6, <1>7, <1>8, <1>9 DEF Next

\* To a client the platform reconciler is one that confirms or withdraws claims about
\* the stored spec and nothing else, for any number of configs, secrets, edits,
\* conflicts, lost replies and crashes.
THEOREM ConfirmsTheSpec == Spec => ConfirmsSpec
  <1>1. Init => Client!Init
    BY DEF Init, Client!Init, SpecOf, ClaimOf
  <1> QED
    BY <1>1, ClientStep, Inductive, PTL DEF Spec, ConfirmsSpec, Client!Spec

\* A copy in the cache is old, but its status was true of its own spec.
CachedDescribesSpec ==
  \A c \in Config :
    cache[c] # Nil /\ cache[c].ready = "CredentialsReady" /\ cache[c].observed = cache[c].gen
      => cache[c].source = SourceOf(cache[c].spec)

\* The cache is filled from what is stored, and from nothing else.
LEMMA CachedIsVouchedFor == Spec => []CachedDescribesSpec
  <1> USE DEF CachedDescribesSpec, SourceOf, RefOf
  <1>1. Init => CachedDescribesSpec
    BY DEF Init
  <1>2. IInv /\ CachedDescribesSpec /\ [Next]_vars => CachedDescribesSpec'
    <2> SUFFICES ASSUME IInv, CachedDescribesSpec, [Next]_vars PROVE CachedDescribesSpec'
      OBVIOUS
    <2>1. \A c \in Config : cache'[c] \in {cache[c], api[c]}
      BY DEF IInv, TypeOK, Next, CreateConfig, EditSpec, DeleteConfig, NewVersion, Deliver,
             TimerFires, Start, StartFails, SecretChanges, Resolve, Report, Restart, vars
    <2> QED
      BY <2>1 DEF IInv, ReadyDescribesSpec
  <1> QED
    BY <1>1, <1>2, Inductive, PTL DEF Spec
=============================================================================
