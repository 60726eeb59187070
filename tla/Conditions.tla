------------------------------ MODULE Conditions ------------------------------
(***************************************************************************)
(* The list of status conditions (api/v1/common_types.go) and how the      *)
(* QualysContainerSecurity reconciler writes its three entries.            *)
(*                                                                         *)
(* A message follows from its reason, except for refusals, whose text may  *)
(* name an error: their three reasons and their messages are the one       *)
(* reason PlatformNotReady.  lastTransitionTime is left out.               *)
(***************************************************************************)
EXTENDS Naturals, Sequences

Types == {"Available", "Progressing", "Degraded"}
Statuses == {"True", "False"}
ConditionReasons == {"PlatformNotReady", "AllComponentsReady", "ComponentsNotReady",
                     "Reconciling", "DeploymentComplete", "RollingOut",
                     "AllComponentsHealthy"}

\* gen: the condition's own observedGeneration.
Condition == [type : Types, status : Statuses, reason : ConditionReasons, gen : Nat]

\* Where a condition of this type is.
Found(conds, type) == {i \in DOMAIN conds : conds[i].type = type}
First(S) == CHOOSE i \in S : \A j \in S : i <= j

\* Mutant: the status alone is compared.
SameStatus(old, new) == old.status = new.status

SameVerdict(old, new) == old.status = new.status /\ old.reason = new.reason

\* Mutant: a condition is never replaced.
AppendAlways(conds, new) == Append(conds, new)

\* A condition with the same verdict stays as it is, its generation included.
SetCondition(conds, new) ==
  IF Found(conds, new.type) = {} THEN Append(conds, new)
  ELSE LET i == First(Found(conds, new.type))
       IN  IF SameVerdict(conds[i], new) THEN conds ELSE [conds EXCEPT ![i] = new]

\* NoCondition is the nil pointer.
NoCondition == [type |-> "none", status |-> "none", reason |-> "none", gen |-> 0]

GetCondition(conds, type) ==
  IF Found(conds, type) = {} THEN NoCondition ELSE conds[First(Found(conds, type))]

Cond(type, status, reason, gen) ==
  [type |-> type, status |-> status, reason |-> reason, gen |-> gen]

\* The early return of the gate.
Refused(conds, gen) ==
  SetCondition(conds, Cond("Available", "False", "PlatformNotReady", gen))

\* The gate is passed.
Reconciling(conds, gen) ==
  SetCondition(conds, Cond("Progressing", "True", "Reconciling", gen))

\* The end of updateComponentStatuses.
Concluded(conds, ready, gen) ==
  IF ready
    THEN LET available == SetCondition(conds, Cond("Available", "True", "AllComponentsReady", gen))
             complete == SetCondition(available,
                           Cond("Progressing", "False", "DeploymentComplete", gen))
         IN  SetCondition(complete, Cond("Degraded", "False", "AllComponentsHealthy", gen))
    ELSE LET available == SetCondition(conds, Cond("Available", "False", "ComponentsNotReady", gen))
         IN  SetCondition(available, Cond("Progressing", "True", "RollingOut", gen))

\* No type has two entries.
OnePerType(conds) ==
  \A i, j \in DOMAIN conds : conds[i].type = conds[j].type => i = j

=============================================================================
