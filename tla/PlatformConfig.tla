---------------------------- MODULE PlatformConfig ----------------------------
(***************************************************************************)
(* QualysPlatformConfigReconciler                                          *)
(* (internal/controller/qualysplatformconfig_controller.go) with the       *)
(* credential Resolver (internal/credentials/resolver.go).                 *)
(*                                                                         *)
(* The reconciler reads a QualysPlatformConfig from the informer cache,    *)
(* which may lag behind the API server, resolves the secret it refers to,  *)
(* and reports the outcome in the CredentialsReady condition.  Secrets are *)
(* not watched: only the RequeueAfter timers bring the reconciler back to  *)
(* them.                                                                   *)
(***************************************************************************)
EXTENDS Naturals

CONSTANTS
  Config,     \* the QualysPlatformConfig resources
  Secret,     \* the secrets they may refer to
  Specs,      \* the specs a user may write
  SecretStates,  \* what a secret may hold
  MaxGen,     \* bound: generations of one resource
  MaxFaults,  \* bound: failed API calls and crashes
  Nil         \* no resource, no reference

SourceTypes == {"secret", "externalSecret"}

\* The reason of the CredentialsReady condition; only CredentialsReady is True.
Reasons == {"none", "CredentialError", "CredentialsEmpty", "CredentialsReady"}

\* credentialSource names the kind of reference and the secret.
Sources == SourceTypes \X Secret

Resource == [spec : Specs, gen : 1 .. MaxGen, ready : Reasons,
             source : Sources \cup {Nil}, observed : 0 .. MaxGen]

ASSUME ConstantsAssumption ==
  /\ \A s \in Specs : /\ s.sourceType \in SourceTypes
                      /\ s.secretRef \in Secret \cup {Nil}
                      /\ s.externalSecretRef \in Secret \cup {Nil}
  \* A secret is absent or lacks a key, has both keys and an empty value, or holds
  \* both values.
  /\ SecretStates \subseteq {"missing", "empty", "valid"}
  /\ MaxGen \in Nat \ {0} /\ MaxFaults \in Nat
  /\ Nil \notin Resource /\ Nil \notin Secret /\ Nil \notin Sources /\ Nil \notin Specs
  /\ Specs # {} /\ Config # {}

VARIABLES
  api,      \* [Config -> Resource or Nil]: what the API server stores
  cache,    \* the informer cache's copy of it
  synced,   \* synced[c]: the copy is of the stored resourceVersion
  secrets,  \* [Secret -> SecretStates]
  queue,    \* the work queue
  delayed,  \* the RequeueAfter timers that are running
  w,        \* the worker
  faults    \* faults so far

vars == <<api, cache, synced, secrets, queue, delayed, w, faults>>

Worker == [pc : {"idle", "resolve", "report"}, c : Config, spec : Specs, gen : 0 .. MaxGen,
           fresh : BOOLEAN,  \* the copy has the stored resourceVersion
           verdict : Reasons]

Idle == [pc |-> "idle", c |-> CHOOSE c \in Config : TRUE, spec |-> CHOOSE s \in Specs : TRUE,
         gen |-> 0, fresh |-> FALSE, verdict |-> "none"]

Init ==
  /\ api = [c \in Config |-> Nil]
  /\ cache = api
  /\ synced = [c \in Config |-> TRUE]
  /\ secrets \in [Secret -> SecretStates]
  /\ queue = {} /\ delayed = {}
  /\ w = Idle
  /\ faults = 0

-----------------------------------------------------------------------------
(***************************** Users and Kubernetes ************************)

\* Any write gives the resource a new resourceVersion.
NewVersion(c) ==
  /\ synced' = [synced EXCEPT ![c] = FALSE]
  /\ w' = IF w.c = c THEN [w EXCEPT !.fresh = FALSE] ELSE w
  /\ UNCHANGED <<cache, secrets, queue, delayed, faults>>

CreateConfig(c) ==
  /\ api[c] = Nil
  /\ \E s \in Specs :
       api' = [api EXCEPT ![c] = [spec |-> s, gen |-> 1, ready |-> "none",
                                  source |-> Nil, observed |-> 0]]
  /\ NewVersion(c)

EditSpec(c) ==
  /\ api[c] # Nil /\ api[c].gen < MaxGen
  /\ \E s \in Specs \ {api[c].spec} :
       api' = [api EXCEPT ![c].spec = s, ![c].gen = @ + 1]
  /\ NewVersion(c)

DeleteConfig(c) ==
  /\ api[c] # Nil
  /\ api' = [api EXCEPT ![c] = Nil]
  /\ NewVersion(c)

\* Somebody, or the external secrets operator, writes or deletes a secret.
SecretChanges(s) ==
  /\ \E v \in SecretStates \ {secrets[s]} : secrets' = [secrets EXCEPT ![s] = v]
  /\ UNCHANGED <<api, cache, synced, queue, delayed, w, faults>>

\* The watch brings the newest version into the cache and queues the resource.
Deliver(c) ==
  /\ ~synced[c]
  /\ cache' = [cache EXCEPT ![c] = api[c]]
  /\ synced' = [synced EXCEPT ![c] = TRUE]
  /\ queue' = queue \cup {c}
  /\ UNCHANGED <<api, secrets, delayed, w, faults>>

TimerFires(c) ==
  /\ c \in delayed
  /\ delayed' = delayed \ {c}
  /\ queue' = queue \cup {c}
  /\ UNCHANGED <<api, cache, synced, secrets, w, faults>>

-----------------------------------------------------------------------------
(***************************** Reconcile ***********************************)

\* An API call succeeds, is refused, or is executed but its reply is lost.
Outcomes == {"ok", "refused", "lost"}
Charge(o) == IF o = "ok" THEN UNCHANGED faults
                         ELSE faults < MaxFaults /\ faults' = faults + 1

\* The Get, from the cache.  A resource that is gone ends the pass for good.
Start(c) ==
  /\ w.pc = "idle" /\ c \in queue
  /\ queue' = queue \ {c}
  /\ w' = IF cache[c] = Nil THEN Idle
          ELSE [Idle EXCEPT !.pc = "resolve", !.c = c, !.spec = cache[c].spec,
                            !.gen = cache[c].gen, !.fresh = synced[c]]
  /\ UNCHANGED <<api, cache, synced, secrets, delayed, faults>>

\* A Get that fails for another reason returns the error: c stays queued.
StartFails(c) ==
  /\ w.pc = "idle" /\ c \in queue
  /\ Charge("refused")
  /\ UNCHANGED <<api, cache, synced, secrets, queue, delayed, w>>

RefOf(spec) == IF spec.sourceType = "secret" THEN spec.secretRef ELSE spec.externalSecretRef
SourceOf(spec) == <<spec.sourceType, RefOf(spec)>>

\* resolveFromSecret and resolveFromExternalSecret, and the test for empty values.
Verdict(spec) ==
  CASE RefOf(spec) = Nil -> "CredentialError"
    [] RefOf(spec) # Nil /\ secrets[RefOf(spec)] = "missing" -> "CredentialError"
    [] RefOf(spec) # Nil /\ secrets[RefOf(spec)] = "empty" -> "CredentialsEmpty"
    [] RefOf(spec) # Nil /\ secrets[RefOf(spec)] = "valid" -> "CredentialsReady"

Resolve ==
  /\ w.pc = "resolve"
  /\ \E o \in {"ok", "refused"} :
       /\ Charge(o)
       /\ w' = [w EXCEPT !.pc = "report",
                         !.verdict = IF o = "ok" THEN Verdict(w.spec) ELSE "CredentialError"]
  /\ UNCHANGED <<api, cache, synced, secrets, queue, delayed>>

\* Mutants: the source is left alone; the generation is off by one; the update
\* carries no resourceVersion.
KeepSource == [api EXCEPT ![w.c].ready = w.verdict, ![w.c].observed = w.gen]
NextGeneration == [api EXCEPT ![w.c].ready = w.verdict, ![w.c].observed = w.gen + 1]
Unconditional(o) == o # "refused" /\ api[w.c] # Nil

\* A failure leaves credentialSource, lastValidated and observedGeneration alone.
Reported ==
  IF w.verdict = "CredentialsReady"
    THEN [api EXCEPT ![w.c].ready = w.verdict, ![w.c].source = SourceOf(w.spec),
                     ![w.c].observed = w.gen]
    ELSE [api EXCEPT ![w.c].ready = w.verdict]

\* Status().Update carries the copy's resourceVersion.
Stored(o) == o # "refused" /\ w.fresh

\* Mutant: a validated resource is not looked at again.
NoRecheck(o) == IF w.verdict = "CredentialsReady" THEN UNCHANGED <<queue, delayed>>
                ELSE delayed' = delayed \cup {w.c} /\ UNCHANGED queue

\* The update's error counts only after a success; otherwise it is logged.
Requeue(o) == IF w.verdict = "CredentialsReady" /\ ~(o = "ok" /\ Stored(o))
                THEN queue' = queue \cup {w.c} /\ UNCHANGED delayed
                ELSE delayed' = delayed \cup {w.c} /\ UNCHANGED queue

\* lastValidated, kept in seconds, is usually new: an update that changes nothing
\* else may still make a new version, which comes back through the watch.
Report ==
  /\ w.pc = "report"
  /\ \E o \in Outcomes :
       /\ Charge(o)
       /\ api' = IF Stored(o) THEN Reported ELSE api
       /\ \E newTime \in BOOLEAN :
            /\ newTime => Stored(o) /\ w.verdict = "CredentialsReady"
            /\ synced' = [synced EXCEPT ![w.c] = @ /\ api' = api /\ ~newTime]
       /\ Requeue(o)
  /\ w' = Idle
  /\ UNCHANGED <<cache, secrets>>

\* The operator stops anywhere and starts again with a fresh list.
Restart ==
  /\ faults < MaxFaults /\ faults' = faults + 1
  /\ cache' = api
  /\ synced' = [c \in Config |-> TRUE]
  /\ queue' = {c \in Config : api[c] # Nil}
  /\ delayed' = {}
  /\ w' = Idle
  /\ UNCHANGED <<api, secrets>>

-----------------------------------------------------------------------------
Next ==
  \/ \E c \in Config : \/ CreateConfig(c) \/ EditSpec(c) \/ DeleteConfig(c)
                       \/ Deliver(c) \/ TimerFires(c) \/ Start(c) \/ StartFails(c)
  \/ \E s \in Secret : SecretChanges(s)
  \/ Resolve
  \/ Report
  \/ Restart

Spec == Init /\ [][Next]_vars

\* The queue is first-in first-out; timers run out; watches deliver.
Fairness ==
  /\ WF_vars(Resolve) /\ WF_vars(Report)
  /\ \A c \in Config : SF_vars(Start(c)) /\ WF_vars(TimerFires(c)) /\ WF_vars(Deliver(c))

FairSpec == Spec /\ Fairness

-----------------------------------------------------------------------------
(***************************** Properties **********************************)

\* Every variable has its type.
TypeOK ==
  /\ api \in [Config -> Resource \cup {Nil}]
  /\ cache \in [Config -> Resource \cup {Nil}]
  /\ synced \in [Config -> BOOLEAN]
  /\ secrets \in [Secret -> SecretStates]
  /\ queue \subseteq Config /\ delayed \subseteq Config
  /\ w \in Worker
  /\ faults \in 0 .. MaxFaults

\* CredentialsReady=True with observedGeneration up to date names the secret the
\* stored spec refers to: no pass over an older spec, or over an earlier
\* resource of the same name, vouches for a reference it did not resolve, although
\* the resource is read from a cache and written after the secret was looked up.
ReadyDescribesSpec ==
  \A c \in Config :
    api[c] # Nil /\ api[c].ready = "CredentialsReady" /\ api[c].observed = api[c].gen
      => api[c].source = SourceOf(api[c].spec)

\* A config that exists is never forgotten: it is in the queue, waits for a
\* timer, is being worked on, or the watch has news of it.  Resolution failures
\* and failed updates are logged, not returned, and secrets raise no event.
NeverForgotten ==
  \A c \in Config :
    api[c] # Nil => \/ c \in queue \cup delayed
                    \/ w.pc # "idle" /\ w.c = c
                    \/ ~synced[c]

\* A client's view of a stored resource: CredentialsReady=True for the current
\* generation claims that the source it names was found and filled.
SpecOf(r) == IF r = Nil THEN Nil ELSE r.spec
ClaimOf(r) == IF r # Nil /\ r.ready = "CredentialsReady" /\ r.observed = r.gen
                THEN <<r.source>> ELSE Nil

Client == INSTANCE ConfirmedSpec WITH
            Res <- Config, Claim <- [s \in Specs |-> <<SourceOf(s)>>], None <- Nil,
            desired <- [c \in Config |-> SpecOf(api[c])],
            claim <- [c \in Config |-> ClaimOf(api[c])]

\* Behind the cache, the lookup of the secret, the conflicts and the retries, the
\* status is a claim about the spec that stands, and no edit or re-creation
\* lets an old claim come true again.
ConfirmsSpec == Client!Spec

Usable(c) == api[c] # Nil /\ Verdict(api[c].spec) = "CredentialsReady"

\* Credentials that stay usable are reported, with their source, for the current
\* generation and for good, whatever calls failed before.
UsableIsReported ==
  \A c \in Config :
    <>[]Usable(c) => <>[](/\ api[c] # Nil
                          /\ api[c].ready = "CredentialsReady"
                          /\ api[c].observed = api[c].gen
                          /\ api[c].source = SourceOf(api[c].spec))

\* Credentials that stay unusable lose their CredentialsReady=True, although
\* nothing tells the reconciler that a secret changed or went away.
UnusableIsReported ==
  \A c \in Config :
    <>[](api[c] # Nil /\ ~Usable(c))
      => <>[](api[c] # Nil => api[c].ready # "CredentialsReady")

=============================================================================
