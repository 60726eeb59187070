------------------------ MODULE CachedReconcileProofs -------------------------
(***************************************************************************)
(* What CachedReconcile's status says, for every spec and every number of  *)
(* generations and faults.                                                 *)
(*                                                                         *)
(* The list of conditions is dealt with once, in SetConditionFacts: from   *)
(* there on only the first entry of each type counts.  CopyInv is why the  *)
(* verdicts never mix generations: a status is stored only from a copy     *)
(* that is still the resource's.                                           *)
(***************************************************************************)
EXTENDS CachedReconcile, TLAPS

-----------------------------------------------------------------------------
(***************************** The list of conditions **********************)

\* The only entry of a type is the first one.
LEMMA OnlyEntry ==
  ASSUME NEW conds \in Seq(Condition), OnePerType(conds),
         NEW i \in DOMAIN conds
  PROVE  /\ Found(conds, conds[i].type) = {i} /\ First(Found(conds, conds[i].type)) = i
         /\ GetCondition(conds, conds[i].type) = conds[i]
  <1>1. Found(conds, conds[i].type) = {i}
    BY DEF Found, OnePerType
  <1>2. i \in Nat
    OBVIOUS
  <1>3. First({i}) = i
    BY <1>2 DEF First
  <1> QED
    BY <1>1, <1>3 DEF GetCondition

\* What SetCondition does, seen through GetCondition: it replaces the entry of its
\* type unless the verdict is the same, and keeps the list free of doubles.
LEMMA SetConditionFacts ==
  ASSUME NEW conds \in Seq(Condition), OnePerType(conds), NEW new \in Condition
  PROVE  /\ SetCondition(conds, new) \in Seq(Condition)
         /\ OnePerType(SetCondition(conds, new))
         /\ \A t \in Types \ {new.type} :
              GetCondition(SetCondition(conds, new), t) = GetCondition(conds, t)
         /\ GetCondition(SetCondition(conds, new), new.type)
              = IF SameVerdict(GetCondition(conds, new.type), new)
                  THEN GetCondition(conds, new.type) ELSE new
  <1> DEFINE then == SetCondition(conds, new)
             Goal == /\ then \in Seq(Condition) /\ OnePerType(then)
                     /\ \A t \in Types \ {new.type} : GetCondition(then, t) = GetCondition(conds, t)
                     /\ GetCondition(then, new.type)
                          = IF SameVerdict(GetCondition(conds, new.type), new)
                              THEN GetCondition(conds, new.type) ELSE new
  <1>0. new.type \in Types /\ new.status \in Statuses
    BY DEF Condition
  <1>1. CASE Found(conds, new.type) = {}
    <2>1. then = Append(conds, new)
      BY <1>1 DEF SetCondition
    <2>2. \A i \in DOMAIN conds : conds[i].type # new.type
      BY <1>1 DEF Found
    <2>3. /\ then \in Seq(Condition) /\ Len(conds) \in Nat
          /\ DOMAIN conds = 1 .. Len(conds) /\ DOMAIN then = 1 .. Len(conds) + 1
          /\ \A i \in DOMAIN conds : then[i] = conds[i]
          /\ then[Len(conds) + 1] = new
      BY <2>1
    <2> HIDE DEF then
    <2>4. OnePerType(then)
      BY <2>2, <2>3 DEF OnePerType
    <2>5. ASSUME NEW t \in Types \ {new.type} PROVE GetCondition(then, t) = GetCondition(conds, t)
      <3>1. Found(then, t) = Found(conds, t)
        BY <2>3 DEF Found
      <3>2. CASE Found(conds, t) = {}
        BY <3>1, <3>2 DEF GetCondition
      <3>3. CASE Found(conds, t) # {}
        <4>1. PICK i \in DOMAIN conds : conds[i].type = t
          BY <3>3 DEF Found
        <4>2. i \in DOMAIN then /\ then[i] = conds[i]
          BY <2>3
        <4> QED
          BY <2>3, <2>4, <4>1, <4>2, OnlyEntry
      <3> QED
        BY <3>2, <3>3
    <2>6. GetCondition(then, new.type) = new
      BY <2>3, <2>4, OnlyEntry
    <2>7. ~SameVerdict(GetCondition(conds, new.type), new)
      BY <1>0, <1>1 DEF GetCondition, NoCondition, SameVerdict, Statuses
    <2> QED
      BY <2>3, <2>4, <2>5, <2>6, <2>7 DEF then
  <1>2. CASE Found(conds, new.type) # {}
    <2>1. PICK i \in DOMAIN conds : conds[i].type = new.type
      BY <1>2 DEF Found
    <2>2. /\ First(Found(conds, new.type)) = i
          /\ GetCondition(conds, new.type) = conds[i]
      BY <2>1, OnlyEntry
    <2>3. CASE SameVerdict(conds[i], new)
      <3>1. then = conds
        BY <1>2, <2>2, <2>3 DEF SetCondition
      <3> QED
        BY <2>2, <2>3, <3>1
    <2>4. CASE ~SameVerdict(conds[i], new)
      <3>1. then = [conds EXCEPT ![i] = new]
        BY <1>2, <2>2, <2>4 DEF SetCondition
      <3>2. /\ then \in Seq(Condition) /\ DOMAIN then = DOMAIN conds
            /\ then[i] = new /\ \A j \in DOMAIN conds \ {i} : then[j] = conds[j]
        BY <3>1
      <3> HIDE DEF then
      <3>3. \A j \in DOMAIN conds : then[j].type = conds[j].type
        BY <2>1, <3>2
      <3>4. OnePerType(then)
        BY <3>2, <3>3 DEF OnePerType
      <3>5. ASSUME NEW t \in Types \ {new.type}
            PROVE  GetCondition(then, t) = GetCondition(conds, t)
        <4>1. Found(then, t) = Found(conds, t)
          BY <3>2, <3>3 DEF Found
        <4>2. CASE Found(conds, t) = {}
          BY <4>1, <4>2 DEF GetCondition
        <4>3. CASE Found(conds, t) # {}
          <5>1. PICK j \in DOMAIN conds : conds[j].type = t
            BY <4>3 DEF Found
          <5>2. j \in DOMAIN then /\ then[j] = conds[j]
            BY <2>1, <3>2, <5>1
          <5> QED
            BY <3>2, <3>4, <5>1, <5>2, OnlyEntry
        <4> QED
          BY <4>2, <4>3
      <3>6. GetCondition(then, new.type) = new
        BY <2>1, <3>2, <3>4, OnlyEntry
      <3> QED
        BY <2>2, <2>4, <3>2, <3>4, <3>5, <3>6 DEF then
    <2> QED
      BY <2>3, <2>4
  <1> QED
    BY <1>1, <1>2

\* The same, for the type that is set.
LEMMA AfterSetting ==
  ASSUME NEW conds \in Seq(Condition), OnePerType(conds),
         NEW new \in Condition, NEW type \in Types, type = new.type
  PROVE  LET old == GetCondition(conds, type)
             then == SetCondition(conds, new)
         IN  /\ then \in Seq(Condition) /\ OnePerType(then)
             /\ GetCondition(then, type).status = new.status
             /\ GetCondition(then, type).reason = new.reason
             /\ \/ GetCondition(then, type) = new
                \/ GetCondition(then, type) = old /\ old.status = new.status
             /\ old.reason # new.reason => GetCondition(then, type) = new
  <1> DEFINE old == GetCondition(conds, type)
             then == SetCondition(conds, new)
  <1>1. /\ then \in Seq(Condition) /\ OnePerType(then)
        /\ GetCondition(then, type) = IF SameVerdict(old, new) THEN old ELSE new
    BY SetConditionFacts, Zenon
  <1> HIDE DEF old, then
  <1>2. CASE SameVerdict(old, new)
    BY <1>1, <1>2 DEF SameVerdict, old, then
  <1>3. CASE ~SameVerdict(old, new)
    BY <1>1, <1>3 DEF old, then
  <1> QED
    BY <1>2, <1>3

\* And for another type.
LEMMA OthersStay ==
  ASSUME NEW conds \in Seq(Condition), OnePerType(conds),
         NEW new \in Condition, NEW t \in Types, t # new.type
  PROVE  GetCondition(SetCondition(conds, new), t) = GetCondition(conds, t)
  BY SetConditionFacts

\* The verdict a list of conditions stands for, of the generation that status names.
Whole(conds, observed) ==
  /\ GetCondition(conds, "Progressing").reason # "Reconciling"
  /\ GetCondition(conds, "Available").status = "True" =>
       /\ GetCondition(conds, "Progressing").reason = "DeploymentComplete"
       /\ GetCondition(conds, "Progressing").gen = observed
       /\ GetCondition(conds, "Degraded").status = "False"

NotNewer(conds, observed) ==
  GetCondition(conds, "Available").status = "True"
    => GetCondition(conds, "Available").gen <= observed

\* What the reconciler writes is a condition.
LEMMA CondType ==
  ASSUME NEW gen \in Nat
  PROVE  /\ \A s \in Statuses, r \in ConditionReasons, t \in Types :
              /\ Cond(t, s, r, gen) \in Condition
              /\ Cond(t, s, r, gen).type = t /\ Cond(t, s, r, gen).status = s
              /\ Cond(t, s, r, gen).reason = r /\ Cond(t, s, r, gen).gen = gen
         /\ {"True", "False"} \subseteq Statuses
         /\ {"PlatformNotReady", "AllComponentsReady", "ComponentsNotReady", "Reconciling",
             "DeploymentComplete", "RollingOut", "AllComponentsHealthy"} \subseteq ConditionReasons
         /\ {"Available", "Progressing", "Degraded"} \subseteq Types
  BY DEF Cond, Condition, Statuses, ConditionReasons, Types

\* The early return of the gate withdraws Available and nothing else.
LEMMA RefusedFacts ==
  ASSUME NEW conds \in Seq(Condition), OnePerType(conds), NEW gen \in Nat, NEW observed,
         Whole(conds, observed)
  PROVE  /\ Refused(conds, gen) \in Seq(Condition) /\ OnePerType(Refused(conds, gen))
         /\ GetCondition(Refused(conds, gen), "Available").status = "False"
         /\ Whole(Refused(conds, gen), observed) /\ NotNewer(Refused(conds, gen), observed)
  <1> DEFINE new == Cond("Available", "False", "PlatformNotReady", gen)
  <1>1. new \in Condition /\ new.type = "Available" /\ new.status = "False"
    BY CondType
  <1>2. "Available" \in Types /\ "Progressing" \in Types \ {"Available"}
    BY DEF Types
  <1> HIDE DEF new
  <1>3. /\ SetCondition(conds, new) \in Seq(Condition) /\ OnePerType(SetCondition(conds, new))
        /\ GetCondition(SetCondition(conds, new), "Progressing") = GetCondition(conds, "Progressing")
        /\ GetCondition(SetCondition(conds, new), "Available").status = "False"
    BY <1>1, <1>2, AfterSetting, OthersStay
  <1> QED
    BY <1>3 DEF Refused, Whole, NotNewer, new

\* The end of a pass leaves a whole verdict of its own generation.
LEMMA ConcludedFacts ==
  ASSUME NEW conds \in Seq(Condition), OnePerType(conds), NEW gen \in Nat, NEW ready \in BOOLEAN,
         NEW observed \in Nat, observed <= gen, Whole(conds, observed), NotNewer(conds, observed),
         GetCondition(conds, "Available").status = "True"
           => GetCondition(conds, "Available").gen \in Nat
  PROVE  LET new == Concluded(Reconciling(conds, gen), ready, gen)
         IN  new \in Seq(Condition) /\ OnePerType(new) /\ Whole(new, gen) /\ NotNewer(new, gen)
  <1> DEFINE p == Cond("Progressing", "True", "Reconciling", gen)
             one == SetCondition(conds, p)
  <1>0. /\ "Available" \in Types /\ "Progressing" \in Types /\ "Degraded" \in Types
        /\ "Available" \in Types \ {"Progressing"} /\ "Available" \in Types \ {"Degraded"}
        /\ "Progressing" \in Types \ {"Available"} /\ "Progressing" \in Types \ {"Degraded"}
        /\ p \in Condition /\ p.type = "Progressing" /\ p.reason = "Reconciling"
        /\ p.status = "True"
    BY CondType DEF Types
  <1> HIDE DEF p
  <1>1. /\ one \in Seq(Condition) /\ OnePerType(one)
        /\ GetCondition(one, "Available") = GetCondition(conds, "Available")
        /\ GetCondition(one, "Progressing").reason = "Reconciling"
    BY <1>0, AfterSetting, OthersStay
  <1>2. Reconciling(conds, gen) = one
    BY DEF Reconciling, p
  <1> HIDE DEF one
  <1>3. CASE ready
    <2> DEFINE a == Cond("Available", "True", "AllComponentsReady", gen)
               c == Cond("Progressing", "False", "DeploymentComplete", gen)
               d == Cond("Degraded", "False", "AllComponentsHealthy", gen)
               two == SetCondition(one, a)
               three == SetCondition(two, c)
               four == SetCondition(three, d)
    <2>0. /\ a \in Condition /\ a.type = "Available" /\ a.status = "True" /\ a.gen = gen
          /\ c \in Condition /\ c.type = "Progressing" /\ c.reason = "DeploymentComplete"
          /\ c.gen = gen
          /\ d \in Condition /\ d.type = "Degraded" /\ d.status = "False"
      BY CondType
    <2>1. Concluded(one, ready, gen) = four
      BY <1>3 DEF Concluded
    <2> HIDE DEF a, c, d
    <2>2. /\ two \in Seq(Condition) /\ OnePerType(two)
          /\ GetCondition(two, "Progressing").reason = "Reconciling"
          /\ \/ GetCondition(two, "Available") = a
             \/ /\ GetCondition(two, "Available") = GetCondition(conds, "Available")
                /\ GetCondition(conds, "Available").status = "True"
      <3>1. /\ two \in Seq(Condition) /\ OnePerType(two)
            /\ \/ GetCondition(two, "Available") = a
               \/ /\ GetCondition(two, "Available") = GetCondition(one, "Available")
                  /\ GetCondition(one, "Available").status = a.status
        BY <1>0, <1>1, <2>0, AfterSetting
      <3>2. GetCondition(two, "Progressing") = GetCondition(one, "Progressing")
        BY <1>0, <1>1, <2>0, OthersStay
      <3> QED
        BY <1>1, <2>0, <3>1, <3>2
    <2>3. GetCondition(two, "Available").gen <= gen
      BY <2>0, <2>2 DEF NotNewer
    <2> HIDE DEF two
    <2>4. /\ three \in Seq(Condition) /\ OnePerType(three)
          /\ GetCondition(three, "Progressing") = c
          /\ GetCondition(three, "Available") = GetCondition(two, "Available")
      <3>1. /\ three \in Seq(Condition) /\ OnePerType(three)
            /\ GetCondition(two, "Progressing").reason # c.reason
                 => GetCondition(three, "Progressing") = c
        BY <1>0, <2>0, <2>2, AfterSetting
      <3>2. GetCondition(three, "Available") = GetCondition(two, "Available")
        BY <1>0, <2>0, <2>2, OthersStay
      <3> QED
        BY <2>0, <2>2, <3>1, <3>2
    <2> HIDE DEF three
    <2>5. /\ four \in Seq(Condition) /\ OnePerType(four)
          /\ GetCondition(four, "Progressing") = c
          /\ GetCondition(four, "Available") = GetCondition(two, "Available")
          /\ GetCondition(four, "Degraded").status = "False"
      <3>1. /\ four \in Seq(Condition) /\ OnePerType(four)
            /\ GetCondition(four, "Degraded").status = d.status
        BY <1>0, <2>0, <2>4, AfterSetting
      <3>2. /\ GetCondition(four, "Progressing") = GetCondition(three, "Progressing")
            /\ GetCondition(four, "Available") = GetCondition(three, "Available")
        BY <1>0, <2>0, <2>4, OthersStay
      <3> QED
        BY <2>0, <2>4, <3>1, <3>2
    <2> HIDE DEF four
    <2> QED
      BY <1>2, <2>0, <2>1, <2>3, <2>5 DEF Whole, NotNewer
  <1>4. CASE ~ready
    <2> DEFINE a == Cond("Available", "False", "ComponentsNotReady", gen)
               c == Cond("Progressing", "True", "RollingOut", gen)
               two == SetCondition(one, a)
               three == SetCondition(two, c)
    <2>0. /\ a \in Condition /\ a.type = "Available" /\ a.status = "False"
          /\ c \in Condition /\ c.type = "Progressing" /\ c.reason = "RollingOut"
      BY CondType
    <2>1. Concluded(one, ready, gen) = three
      BY <1>4 DEF Concluded
    <2> HIDE DEF a, c
    <2>2. /\ two \in Seq(Condition) /\ OnePerType(two)
          /\ GetCondition(two, "Available").status = "False"
      <3>1. /\ two \in Seq(Condition) /\ OnePerType(two)
            /\ GetCondition(two, "Available").status = a.status
        BY <1>0, <1>1, <2>0, AfterSetting
      <3> QED
        BY <2>0, <3>1
    <2> HIDE DEF two
    <2>3. /\ three \in Seq(Condition) /\ OnePerType(three)
          /\ GetCondition(three, "Available").status = "False"
          /\ GetCondition(three, "Progressing").reason = "RollingOut"
      <3>1. /\ three \in Seq(Condition) /\ OnePerType(three)
            /\ GetCondition(three, "Progressing").reason = c.reason
        BY <1>0, <2>0, <2>2, AfterSetting
      <3>2. GetCondition(three, "Available") = GetCondition(two, "Available")
        BY <1>0, <2>0, <2>2, OthersStay
      <3> QED
        BY <2>0, <2>2, <3>1, <3>2
    <2> HIDE DEF three
    <2> QED
      BY <1>2, <2>1, <2>3 DEF Whole, NotNewer
  <1> QED
    BY <1>3, <1>4

-----------------------------------------------------------------------------
(***************************** The status **********************************)

\* What the cache shows is what is stored if it is up to date, and so is a fresh copy.
CopyInv ==
  /\ resSynced => resCache = CopyOf(res)
  /\ workSynced => workCache = work
  /\ w.fresh => res # Nil /\ w.spec = res.spec /\ w.gen = res.gen

\* The three invariants, and that no generation is ahead of its resource.
StatusInv ==
  res # Nil => /\ res.observed <= res.gen /\ OnePerType(res.conds)
               /\ Whole(res.conds, res.observed) /\ NotNewer(res.conds, res.observed)

Inv == TypeOK /\ CopyInv /\ StatusInv

\* The worker at the head of its loop.
LEMMA IdleType == Idle \in Worker /\ Idle.pc = "idle" /\ Idle.fresh = FALSE
  <1>1. (CHOOSE s \in Specs : TRUE) \in Specs
    BY ConstantsAssumption
  <1> QED
    BY <1>1, ConstantsAssumption DEF Idle, Worker, PCs

LEMMA ChargeFacts ==
  ASSUME TypeOK, NEW o, Charge(o)
  PROVE  faults' \in 0 .. MaxFaults
  BY ConstantsAssumption DEF TypeOK, Charge

LEMMA InitEstablishes == Init => Inv
  <1> SUFFICES ASSUME Init PROVE Inv
    OBVIOUS
  <1>1. TypeOK
    <2>1. 0 \in 0 .. MaxFaults
      BY ConstantsAssumption
    <2>2. /\ resSynced \in BOOLEAN /\ workSynced \in BOOLEAN
          /\ queued \in BOOLEAN /\ timer \in BOOLEAN
      BY DEF Init
    <2> QED
      BY <2>1, <2>2, IdleType DEF Init, TypeOK
  <1>2. CopyInv /\ StatusInv
    BY IdleType DEF Init, CopyInv, StatusInv, CopyOf
  <1> QED
    BY <1>1, <1>2 DEF Inv

\* A status that is stored is one of a copy that is the resource's own.
LEMMA StoreFacts ==
  ASSUME Inv, NEW o \in Outcomes, NEW new, StoreStatus(o, new),
         w' = Idle, queued' \in BOOLEAN, timer' \in BOOLEAN, Charge(o),
         w.fresh => /\ new \in Resource /\ new.spec = res.spec /\ new.gen = res.gen
                    /\ new.observed <= new.gen /\ OnePerType(new.conds)
                    /\ Whole(new.conds, new.observed) /\ NotNewer(new.conds, new.observed)
  PROVE  Inv'
  <1> USE DEF Inv
  <1>1. /\ UNCHANGED <<sensor, open, work, resCache, workCache, workSynced>>
        /\ resSynced' \in BOOLEAN /\ (resSynced' => resSynced /\ res' = res)
        /\ res' = res \/ (w.fresh /\ res' = new)
    BY DEF StoreStatus, Stored, TypeOK
  <1>2. res' \in Resource \cup {Nil}
    BY <1>1 DEF TypeOK
  <1>3. TypeOK'
    BY <1>1, <1>2, IdleType, ChargeFacts DEF TypeOK
  <1>4. CopyInv'
    BY <1>1, IdleType DEF CopyInv
  <1>5. StatusInv'
    BY <1>1 DEF StatusInv
  <1> QED
    BY <1>3, <1>4, <1>5

\* A condition that is found has a generation.
LEMMA FoundType ==
  ASSUME NEW conds \in Seq(Condition), OnePerType(conds), NEW t,
         GetCondition(conds, t).status = "True"
  PROVE  GetCondition(conds, t).gen \in Nat
  <1>1. Found(conds, t) # {}
    BY DEF GetCondition, NoCondition
  <1>2. PICK i \in DOMAIN conds : conds[i].type = t
    BY <1>1 DEF Found
  <1>3. GetCondition(conds, t) = conds[i] /\ conds[i] \in Condition
    BY <1>2, OnlyEntry
  <1> QED
    BY <1>3 DEF Condition

\* The two status updates.
LEMMA StatusSteps ==
  ASSUME Inv, RefuseStatus \/ updateComponentStatuses
  PROVE  Inv'
  <1>0. /\ w.gen \in Nat /\ w.ready \in BOOLEAN
        /\ TypeOK /\ queued \in BOOLEAN /\ timer \in BOOLEAN
    <2>1. TypeOK /\ queued \in BOOLEAN /\ timer \in BOOLEAN /\ w \in Worker
      BY DEF Inv, TypeOK
    <2>2. w.gen \in 0 .. MaxGen /\ w.ready \in BOOLEAN
      BY <2>1, Zenon DEF Worker
    <2> QED
      BY <2>1, <2>2, ConstantsAssumption
  <1>1. ASSUME w.fresh
        PROVE  /\ res \in Resource /\ w.gen = res.gen /\ res.gen \in 1 .. MaxGen
               /\ res.conds \in Seq(Condition) /\ OnePerType(res.conds)
               /\ res.observed \in Nat /\ res.observed <= w.gen
               /\ Whole(res.conds, res.observed) /\ NotNewer(res.conds, res.observed)
    <2>1. res \in Resource /\ w.gen = res.gen /\ res # Nil
      BY <1>1 DEF Inv, TypeOK, CopyInv
    <2>2. res.gen \in 1 .. MaxGen /\ res.conds \in Seq(Condition) /\ res.observed \in Nat
      BY <2>1, ConstantsAssumption DEF Resource
    <2> QED
      BY <2>1, <2>2 DEF Inv, StatusInv
  <1>2. CASE RefuseStatus
    <2> DEFINE new == [res EXCEPT !.conds = Refused(@, w.gen)]
    <2>1. PICK o \in Outcomes : Charge(o) /\ StoreStatus(o, new)
      BY <1>2 DEF RefuseStatus
    <2>2. w' = Idle /\ queued' \in BOOLEAN /\ timer' \in BOOLEAN
      BY <1>0, <1>2 DEF RefuseStatus, EndAfterDelay
    <2>3. w.fresh => /\ new \in Resource /\ new.spec = res.spec /\ new.gen = res.gen
                     /\ new.observed <= new.gen /\ OnePerType(new.conds)
                     /\ Whole(new.conds, new.observed) /\ NotNewer(new.conds, new.observed)
      <3> SUFFICES ASSUME w.fresh
                   PROVE  /\ new \in Resource /\ new.spec = res.spec /\ new.gen = res.gen
                          /\ new.observed <= new.gen /\ OnePerType(new.conds)
                          /\ Whole(new.conds, new.observed) /\ NotNewer(new.conds, new.observed)
        OBVIOUS
      <3> DEFINE conds == Refused(res.conds, w.gen)
      <3>1. /\ conds \in Seq(Condition) /\ OnePerType(conds)
            /\ Whole(conds, res.observed) /\ NotNewer(conds, res.observed)
        BY <1>0, <1>1, RefusedFacts
      <3>2. new = [res EXCEPT !.conds = conds]
        OBVIOUS
      <3> HIDE DEF conds, new
      <3>3. /\ new \in Resource /\ new.spec = res.spec /\ new.gen = res.gen
            /\ new.observed = res.observed /\ new.conds = conds
        BY <1>1, <3>1, <3>2 DEF Resource
      <3> QED
        BY <1>1, <3>1, <3>3
    <2> QED
      BY <2>1, <2>2, <2>3, StoreFacts
  <1>3. CASE updateComponentStatuses
    <2>1. PICK o \in Outcomes : Charge(o) /\ StoreStatus(o, NewStatus)
      BY <1>3 DEF updateComponentStatuses
    <2>2. w' = Idle /\ queued' \in BOOLEAN /\ timer' \in BOOLEAN
      BY <1>0, <1>3 DEF updateComponentStatuses, EndAfterDelay, EndWithError
    <2>3. w.fresh => /\ NewStatus \in Resource /\ NewStatus.spec = res.spec
                     /\ NewStatus.gen = res.gen /\ NewStatus.observed <= NewStatus.gen
                     /\ OnePerType(NewStatus.conds)
                     /\ Whole(NewStatus.conds, NewStatus.observed)
                     /\ NotNewer(NewStatus.conds, NewStatus.observed)
      <3> SUFFICES ASSUME w.fresh
                   PROVE  /\ NewStatus \in Resource /\ NewStatus.spec = res.spec
                          /\ NewStatus.gen = res.gen /\ NewStatus.observed <= NewStatus.gen
                          /\ OnePerType(NewStatus.conds)
                          /\ Whole(NewStatus.conds, NewStatus.observed)
                          /\ NotNewer(NewStatus.conds, NewStatus.observed)
        OBVIOUS
      <3> DEFINE conds == Concluded(Reconciling(res.conds, w.gen), w.ready, w.gen)
      <3>1. GetCondition(res.conds, "Available").status = "True"
              => GetCondition(res.conds, "Available").gen \in Nat
        BY <1>1, FoundType
      <3>2. /\ conds \in Seq(Condition) /\ OnePerType(conds)
            /\ Whole(conds, w.gen) /\ NotNewer(conds, w.gen)
        BY <1>0, <1>1, <3>1, ConcludedFacts
      <3>3. NewStatus = [res EXCEPT !.observed = w.gen, !.judged = w.spec, !.conds = conds]
        BY DEF NewStatus
      <3> HIDE DEF conds
      <3>5. w.gen \in 0 .. MaxGen /\ w.spec \in Specs \cup {Nil}
        BY <1>0, <1>1 DEF TypeOK, Worker
      <3>4. /\ NewStatus \in Resource /\ NewStatus.spec = res.spec
            /\ NewStatus.gen = res.gen /\ NewStatus.observed = w.gen
            /\ NewStatus.conds = conds
        BY <1>1, <3>2, <3>3, <3>5 DEF Resource
      <3> QED
        BY <1>0, <1>1, <3>2, <3>4
    <2> QED
      BY <2>1, <2>2, <2>3, StoreFacts
  <1> QED
    BY <1>2, <1>3

\* A step that leaves the resource alone.
LEMMA OtherSteps ==
  ASSUME Inv, UNCHANGED res, TypeOK', CopyInv'
  PROVE  Inv'
  BY DEF Inv, StatusInv

LEMMA InvStep == Inv /\ [Next]_vars => Inv'
  <1> SUFFICES ASSUME Inv, [Next]_vars PROVE Inv'
    OBVIOUS
  <1>0. TypeOK /\ CopyInv /\ StatusInv /\ w \in Worker /\ res \in Resource \cup {Nil}
    BY DEF Inv, TypeOK
  <1>1. CASE CreateResource \/ EditSpec
    <2>1. /\ resSynced' = FALSE /\ w' = [w EXCEPT !.fresh = FALSE]
          /\ UNCHANGED <<sensor, open, work, resCache, workCache, workSynced, queued, timer, faults>>
      BY <1>1 DEF CreateResource, EditSpec, Written
    <2>2. w' \in Worker /\ w'.fresh = FALSE
      BY <1>0, <2>1 DEF Worker
    <2>3. res' \in Resource /\ StatusInv'
      <3>1. CASE CreateResource
        <4>1. PICK s \in Specs : res' = [spec |-> s, gen |-> 1, observed |-> 0, conds |-> <<>>,
                                judged |-> Nil]
          BY <3>1 DEF CreateResource
        <4>2. res' \in Resource
          BY <4>1, ConstantsAssumption DEF Resource
        <4>3. DOMAIN <<>> = {}
          OBVIOUS
        <4>4. \A t : GetCondition(<<>>, t) = NoCondition
          BY <4>3 DEF GetCondition, Found
        <4> QED
          BY <4>1, <4>2, <4>3, <4>4 DEF StatusInv, OnePerType, Whole, NotNewer, NoCondition
      <3>2. CASE EditSpec
        <4>1. PICK s \in Specs : res' = [res EXCEPT !.spec = s, !.gen = res.gen + 1]
          BY <3>2 DEF EditSpec
        <4>2. res \in Resource /\ res # Nil /\ res.gen < MaxGen
          BY <1>0, <3>2 DEF EditSpec
        <4>3. res.gen \in 1 .. MaxGen /\ res.observed \in 0 .. MaxGen /\ MaxGen \in Nat
          BY <4>2, ConstantsAssumption DEF Resource
        <4>4. res.gen + 1 \in 1 .. MaxGen
          BY <4>2, <4>3
        <4>5. /\ res' \in Resource /\ res'.gen = res.gen + 1
              /\ res'.observed = res.observed /\ res'.conds = res.conds
          BY <4>1, <4>2, <4>4 DEF Resource
        <4> QED
          BY <1>0, <4>2, <4>3, <4>5 DEF StatusInv
      <3> QED
        BY <1>1, <3>1, <3>2
    <2>4. TypeOK'
      BY <1>0, <2>1, <2>2, <2>3 DEF TypeOK
    <2>5. CopyInv'
      BY <1>0, <2>1, <2>2 DEF CopyInv
    <2> QED
      BY <2>3, <2>4, <2>5 DEF Inv
  <1>2. CASE PlatformChanges \/ TimerFires \/ StartFails
    <2>1. TypeOK'
      BY <1>0, <1>2, ChargeFacts
      DEF PlatformChanges, TimerFires, StartFails, stored, caches, TypeOK
    <2>2. CopyInv' /\ UNCHANGED res
      BY <1>0, <1>2 DEF PlatformChanges, TimerFires, StartFails, stored, caches, CopyInv
    <2> QED
      BY <2>1, <2>2, OtherSteps
  <1>3. CASE PodsChange \/ Drift
    <2>1. /\ work' \in Workload \cup {Nil} /\ workSynced' = FALSE
          /\ UNCHANGED <<sensor, open, res, resCache, resSynced, workCache, queued, timer, w>>
      BY <1>0, <1>3 DEF PodsChange, Drift, WorkWritten, Workload, TypeOK
    <2>2. faults' \in 0 .. MaxFaults
      BY <1>0, <1>3, ConstantsAssumption DEF PodsChange, Drift, TypeOK
    <2>3. TypeOK' /\ CopyInv'
      BY <1>0, <2>1, <2>2 DEF TypeOK, CopyInv
    <2> QED
      BY <2>1, <2>3, OtherSteps
  <1>4. CASE DeliverResource \/ DeliverWork
    <2>1. CopyOf(res) \in Copy \cup {Nil}
      BY <1>0 DEF CopyOf, Copy, Resource
    <2>2. TypeOK'
      BY <1>0, <1>4, <2>1 DEF DeliverResource, DeliverWork, stored, TypeOK
    <2>3. CopyInv' /\ UNCHANGED res
      BY <1>0, <1>4 DEF DeliverResource, DeliverWork, stored, CopyInv
    <2> QED
      BY <2>2, <2>3, OtherSteps
  <1>5. CASE Start
    <2>1. UNCHANGED <<sensor, open, stored, caches, timer, faults>> /\ queued' = FALSE
      BY <1>5 DEF Start
    <2>2. w' \in Worker /\ (w'.fresh => resSynced /\ resCache # Nil
                              /\ w'.spec = resCache.spec /\ w'.gen = resCache.gen)
      <3>1. CASE resCache = Nil
        BY <1>5, <3>1, IdleType DEF Start
      <3>2. CASE resCache # Nil
        <4>1. w' = [Idle EXCEPT !.pc = "gate", !.spec = resCache.spec, !.gen = resCache.gen,
                                !.fresh = resSynced]
          BY <1>5, <3>2 DEF Start
        <4>2. resCache \in Copy /\ resSynced \in BOOLEAN
          BY <1>0, <3>2 DEF TypeOK
        <4>3. resCache.spec \in Specs /\ resCache.gen \in 0 .. MaxGen
          BY <4>2 DEF Copy
        <4>4. w' \in Worker
          BY <4>1, <4>2, <4>3, IdleType DEF Worker, PCs
        <4>5. w'.fresh = resSynced /\ w'.spec = resCache.spec /\ w'.gen = resCache.gen
          BY <4>1, IdleType DEF Worker
        <4> QED
          BY <3>2, <4>4, <4>5
      <3> QED
        BY <3>1, <3>2
    <2>3. TypeOK'
      BY <1>0, <2>1, <2>2 DEF stored, caches, TypeOK
    <2>4. CopyInv' /\ UNCHANGED res
      BY <1>0, <2>1, <2>2 DEF stored, caches, CopyInv, CopyOf
    <2> QED
      BY <2>3, <2>4, OtherSteps
  <1>6. CASE PlatformGate \/ ReadComponentStatus
    <2>1. w' \in Worker /\ w'.fresh = w.fresh /\ w'.spec = w.spec /\ w'.gen = w.gen
      BY <1>0, <1>6 DEF PlatformGate, ReadComponentStatus, Worker, PCs
    <2>2. UNCHANGED <<sensor, open, stored, caches, queued, timer>>
      BY <1>6 DEF PlatformGate, ReadComponentStatus
    <2>3. faults' \in 0 .. MaxFaults
      BY <1>0, <1>6, ChargeFacts DEF PlatformGate, ReadComponentStatus, TypeOK
    <2>4. TypeOK' /\ CopyInv' /\ UNCHANGED res
      BY <1>0, <2>1, <2>2, <2>3 DEF stored, caches, TypeOK, CopyInv
    <2> QED
      BY <2>4, OtherSteps
  <1>7. CASE Ensure \/ Cleanup
    <2>1. UNCHANGED <<sensor, open, res, resCache, resSynced, workCache>>
      BY <1>7 DEF Ensure, Cleanup
    <2>2. w' = Idle \/ w' = [w EXCEPT !.pc = "read"]
      BY <1>7 DEF Ensure, Cleanup, EndAfterDelay
    <2>3. w' \in Worker /\ (w'.fresh => w.fresh /\ w'.spec = w.spec /\ w'.gen = w.gen)
      BY <1>0, <2>2, IdleType DEF Worker, PCs
    <2>4. faults' \in 0 .. MaxFaults
      BY <1>0, <1>7, ChargeFacts DEF Ensure, Cleanup, TypeOK
    <2>5. queued' \in BOOLEAN /\ timer' \in BOOLEAN
      BY <1>0, <1>7 DEF Ensure, Cleanup, EndAfterDelay, TypeOK
    <2>6. work' \in Workload \cup {Nil}
      <3>1. ASSUME Granted, Sent PROVE Wanted \in Workload \cup {Nil}
        <4>1. w.spec.env \in {0, 1} /\ work \in Workload \cup {Nil}
          BY <1>0, ConstantsAssumption DEF TypeOK, Worker
        <4>2. CASE workCache = Nil
          BY <4>1, <4>2 DEF Wanted, Workload
        <4>3. CASE workCache # Nil
          <5>1. work # Nil
            BY <1>0, <3>1, <4>3 DEF Granted, CopyInv
          <5> QED
            BY <4>1, <4>3, <5>1 DEF Wanted, Workload
        <4> QED
          BY <4>2, <4>3
      <3> QED
        BY <1>0, <1>7, <3>1 DEF Ensure, Cleanup, Unchanged, TypeOK
    <2>7. workSynced' \in BOOLEAN
      BY <1>0, <1>7 DEF Ensure, Cleanup, TypeOK
    <2>8. workSynced' => workSynced /\ work' = work
      BY <1>7 DEF Ensure, Cleanup
    <2>9. TypeOK' /\ CopyInv'
      BY <1>0, <2>1, <2>3, <2>4, <2>5, <2>6, <2>7, <2>8 DEF TypeOK, CopyInv
    <2> QED
      BY <2>1, <2>9, OtherSteps
  <1>8. CASE Restart
    <2>1. CopyOf(res) \in Copy \cup {Nil}
      BY <1>0 DEF CopyOf, Copy, Resource
    <2>2. faults' \in 0 .. MaxFaults
      BY <1>0, <1>8, ConstantsAssumption DEF Restart, TypeOK
    <2>3. TypeOK'
      BY <1>0, <1>8, <2>1, <2>2, IdleType DEF Restart, stored, TypeOK
    <2>4. CopyInv' /\ UNCHANGED res
      BY <1>8, IdleType DEF Restart, stored, CopyInv
    <2> QED
      BY <2>3, <2>4, OtherSteps
  <1>9. CASE RefuseStatus \/ updateComponentStatuses
    BY <1>9, StatusSteps
  <1>10. CASE UNCHANGED vars
    BY <1>10 DEF vars, stored, caches, Inv, TypeOK, CopyInv, StatusInv
  <1>11. CASE BuildArgsPanics
    <2>1. /\ UNCHANGED <<sensor, open, res, work, resCache, resSynced, workCache, workSynced, timer>>
          /\ w' = Idle /\ queued' = TRUE
      BY <1>11 DEF BuildArgsPanics, EndWithError, stored, caches
    <2>2. faults' \in 0 .. MaxFaults
      BY <1>0, <1>11, ChargeFacts DEF BuildArgsPanics
    <2>3. TypeOK' /\ CopyInv'
      BY <1>0, <2>1, <2>2, IdleType DEF TypeOK, CopyInv
    <2> QED
      BY <2>1, <2>3, OtherSteps
  <1> QED
    BY <1>1, <1>2, <1>3, <1>4, <1>5, <1>6, <1>7, <1>8, <1>9, <1>10, <1>11
    DEF Next, Pass

-----------------------------------------------------------------------------
(***************************** Theorems ************************************)

LEMMA InvHolds == Spec => []Inv
  BY InitEstablishes, InvStep, PTL DEF Spec

\* Every variable keeps its type.
THEOREM TypeCorrect == Spec => []TypeOK
  <1>1. Inv => TypeOK
    BY DEF Inv
  <1> QED
    BY <1>1, InvHolds, PTL

\* However passes and refusals follow one another, no condition type gets a second
\* entry.
THEOREM NoDoubleEntries == Spec => []OneEntryPerType
  <1>1. Inv => OneEntryPerType
    BY DEF Inv, StatusInv, OneEntryPerType
  <1> QED
    BY <1>1, InvHolds, PTL

\* What is stored is the verdict of one pass, never the list of a pass half-way.
THEOREM VerdictsAreWhole == Spec => []VerdictIsWhole
  <1>1. Inv => VerdictIsWhole
    BY DEF Inv, StatusInv, VerdictIsWhole, Whole, Available, Stands
  <1> QED
    BY <1>1, InvHolds, PTL

\* Available=True never carries a generation newer than its verdict.
THEOREM GenerationsAreSafe == Spec => []GenerationIsSafe
  <1>1. Inv => GenerationIsSafe
    <2> SUFFICES ASSUME Inv, Available
                 PROVE  /\ Stands("Available").gen <= res.observed
                        /\ Stands("Available").gen = res.gen => res.observed = res.gen
      BY DEF GenerationIsSafe
    <2>1. /\ Stands("Available").gen <= res.observed /\ res.observed <= res.gen
          /\ res # Nil
      BY DEF Inv, StatusInv, NotNewer, Available, Stands
    <2>2. res.observed \in Nat /\ res.gen \in Nat
      BY <2>1, ConstantsAssumption DEF Inv, TypeOK, Resource
    <2> QED
      BY <2>1, <2>2
  <1> QED
    BY <1>1, InvHolds, PTL

-----------------------------------------------------------------------------
(***************************** What a client sees **************************)

\* How a write to the resource looks to a client: it is gone, it has another spec and
\* no claim, or it has the same spec, without a claim or with the one this spec earns.
LEMMA ClientSees ==
  ASSUME \/ res' = Nil
         \/ SpecSeen' \in Specs \ {SpecSeen} /\ ClaimSeen' = Nil
         \/ SpecSeen' = SpecSeen /\ SpecSeen \in Specs /\ ClaimSeen' \in {Nil, SpecSeen}
  PROVE  [Client!Next]_(Client!cvars)
  <1> DEFINE Desired == [r \in {"res"} |-> SpecSeen]
             Claims == [r \in {"res"} |-> ClaimSeen]
  <1>1. /\ Desired["res"] = SpecSeen
        /\ Desired' = [Desired EXCEPT !["res"] = SpecSeen']
        /\ Claims' = [Claims EXCEPT !["res"] = ClaimSeen']
    OBVIOUS
  <1>2. CASE SpecSeen' \in Specs \ {SpecSeen} /\ ClaimSeen' = Nil
    <2>1. Client!Write("res")
      BY <1>1, <1>2 DEF Client!Write
    <2> QED
      BY <2>1 DEF Client!Next
  <1>3. CASE SpecSeen' = SpecSeen /\ SpecSeen \in Specs /\ ClaimSeen' \in {Nil, SpecSeen}
    <2>1. Desired' = Desired /\ Desired["res"] # Nil
      BY <1>3, ConstantsAssumption
    <2>2. CASE ClaimSeen' = Nil
      <3>1. Client!Withdraw("res")
        BY <1>1, <2>1, <2>2 DEF Client!Withdraw
      <3> QED
        BY <3>1 DEF Client!Next
    <2>3. CASE ClaimSeen' = SpecSeen
      <3>1. ClaimSeen' = [s \in Specs |-> s][Desired["res"]]
        BY <1>1, <1>3, <2>3
      <3>2. Client!Confirm("res")
        BY <1>1, <2>1, <3>1 DEF Client!Confirm
      <3> QED
        BY <3>2 DEF Client!Next
    <2> QED
      BY <1>3, <2>2, <2>3
  <1>4. CASE res' = Nil
    <2>1. SpecSeen' = Nil /\ ClaimSeen' = Nil
      BY <1>4 DEF SpecSeen, ClaimSeen, Available
    <2>2. Client!Delete("res")
      BY <1>1, <2>1 DEF Client!Delete
    <2> QED
      BY <2>2 DEF Client!Next
  <1> QED
    BY <1>2, <1>3, <1>4

\* The stored spec is another one only after a user's write, which no status has seen;
\* and a verdict is only stored next to the spec it was reached from.
LEMMA ClientStep == Inv /\ [Next]_vars => [Client!Next]_(Client!cvars)
  <1> SUFFICES ASSUME Inv, [Next]_vars PROVE [Client!Next]_(Client!cvars)
    OBVIOUS
  <1> DEFINE ClaimOn(r) ==
               IF GetCondition(r.conds, "Available").status = "True" /\ r.observed = r.gen
                 THEN r.judged ELSE Nil
  <1>0. res # Nil => /\ res \in Resource /\ res.spec \in Specs /\ SpecSeen = res.spec
                     /\ res.gen \in Nat /\ res.observed \in Nat /\ res.observed <= res.gen
    BY ConstantsAssumption DEF Inv, TypeOK, Resource, StatusInv, SpecSeen
  <1>1. ASSUME UNCHANGED res PROVE [Client!Next]_(Client!cvars)
    BY <1>1 DEF Client!cvars, SpecSeen, ClaimSeen, Available, Stands
  <1>2. CASE CreateResource
    <2>1. PICK s \in Specs :
            res = Nil /\ res' = [spec |-> s, gen |-> 1, observed |-> 0, conds |-> <<>>,
                                judged |-> Nil]
      BY <1>2 DEF CreateResource
    <2>2. SpecSeen = Nil /\ SpecSeen' \in {s, Nil} /\ ClaimSeen' = Nil
      BY <2>1 DEF SpecSeen, ClaimSeen
    <2>4. res' = Nil \/ SpecSeen' \in Specs \ {SpecSeen}
      BY <2>1, <2>2, ConstantsAssumption DEF SpecSeen
    <2> QED
      BY <2>2, <2>4, ClientSees
  <1>3. CASE EditSpec
    <2>1. PICK s \in Specs \ {res.spec} :
            res # Nil /\ res.gen < MaxGen /\ res' = [res EXCEPT !.spec = s, !.gen = @ + 1]
      BY <1>3 DEF EditSpec
    <2>2. /\ res'.spec = s /\ res'.gen = res.gen + 1 /\ res'.observed = res.observed
      BY <1>0, <2>1 DEF Resource
    <2>3. res'.observed # res'.gen
      BY <1>0, <2>1, <2>2
    <2>4. ClaimSeen' = Nil /\ SpecSeen' \in {s, Nil}
      BY <2>2, <2>3 DEF ClaimSeen, SpecSeen
    <2>5. res' = Nil \/ SpecSeen' \in Specs \ {SpecSeen}
      BY <1>0, <2>1, <2>2 DEF SpecSeen
    <2> QED
      BY <2>4, <2>5, ClientSees
  <1>4. ASSUME NEW o \in Outcomes, NEW new, StoreStatus(o, new),
               w.fresh => new.spec = res.spec /\ ClaimOn(new) \in {Nil, res.spec}
        PROVE  [Client!Next]_(Client!cvars)
    <2>1. res' = res \/ (w.fresh /\ res' = new /\ res # Nil)
      BY <1>4 DEF StoreStatus, Stored, Inv, CopyInv
    <2>2. CASE w.fresh /\ res' = new /\ res # Nil
      <3>1. res' = Nil \/ (SpecSeen' = SpecSeen /\ SpecSeen \in Specs)
        BY <1>0, <1>4, <2>2 DEF SpecSeen
      <3>2. ClaimSeen' \in {Nil, SpecSeen}
        BY <1>0, <1>4, <2>2 DEF ClaimSeen, Available, Stands
      <3> QED
        BY <3>1, <3>2, ClientSees
    <2> QED
      BY <1>1, <2>1, <2>2
  <1>5. ASSUME w.fresh
        PROVE  /\ res \in Resource /\ w.spec = res.spec /\ w.gen \in Nat
               /\ res.conds \in Seq(Condition) /\ OnePerType(res.conds)
               /\ Whole(res.conds, res.observed)
    BY <1>0, <1>5 DEF Inv, CopyInv, StatusInv, Resource
  <1>6. CASE RefuseStatus
    <2> DEFINE new == [res EXCEPT !.conds = Refused(@, w.gen)]
    <2>1. PICK o \in Outcomes : StoreStatus(o, new)
      BY <1>6 DEF RefuseStatus
    <2>2. ASSUME w.fresh PROVE new.spec = res.spec /\ ClaimOn(new) = Nil
      <3>1. new.spec = res.spec /\ new.conds = Refused(res.conds, w.gen)
        BY <1>5, <2>2 DEF Resource
      <3>2. GetCondition(new.conds, "Available").status = "False"
        BY <1>5, <2>2, <3>1, RefusedFacts
      <3> QED
        BY <3>1, <3>2
    <2> QED
      BY <1>4, <2>1, <2>2
  <1>7. CASE updateComponentStatuses
    <2>1. PICK o \in Outcomes : StoreStatus(o, NewStatus)
      BY <1>7 DEF updateComponentStatuses
    <2>2. w.fresh => NewStatus.spec = res.spec /\ NewStatus.judged = res.spec
      BY <1>5 DEF NewStatus, Resource
    <2> QED
      BY <1>4, <2>1, <2>2
  <1>8. CASE PlatformChanges \/ PodsChange \/ Drift \/ DeliverResource \/ DeliverWork
             \/ TimerFires \/ Start \/ StartFails \/ Restart
    BY <1>1, <1>8 DEF PlatformChanges, PodsChange, Drift, WorkWritten, DeliverResource,
                      DeliverWork, TimerFires, Start, StartFails, Restart, stored
  <1>9. CASE PlatformGate \/ Ensure \/ BuildArgsPanics \/ Cleanup \/ ReadComponentStatus
    BY <1>1, <1>9 DEF PlatformGate, Ensure, BuildArgsPanics, Cleanup, ReadComponentStatus,
                      stored
  <1> QED
    BY <1>1, <1>2, <1>3, <1>6, <1>7, <1>8, <1>9 DEF Next, Pass, vars, stored

\* To a client the reconciler is one that confirms or withdraws claims about the
\* stored spec and nothing else: an Available=True for the current generation was
\* judged by the section that stands and by no earlier one, although the copy it works
\* from, and the conditions it starts from, may be those of an earlier version.
THEOREM ConfirmsTheSpec == Spec => ConfirmsSpec
  <1>1. Init => Client!Init
    <2> SUFFICES ASSUME Init PROVE Client!Init
      OBVIOUS
    <2>1. res = Nil
      BY DEF Init
    <2>2. SpecSeen = Nil /\ ClaimSeen = Nil
      BY <2>1 DEF SpecSeen, ClaimSeen, Available
    <2> QED
      BY <2>2 DEF Client!Init
  <1> QED
    BY <1>1, ClientStep, InvHolds, PTL DEF Spec, ConfirmsSpec, Client!Spec
=============================================================================
