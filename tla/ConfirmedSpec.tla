---------------------------- MODULE ConfirmedSpec -----------------------------
(***************************************************************************)
(* What a client of the API may rely on: a user writes specs, a reconciler *)
(* answers, and whoever waits for the answer compares the status's         *)
(* observedGeneration with the resource's generation before believing it.  *)
(*                                                                         *)
(* There are no generations, copies, caches, conflicts or retries here.  A *)
(* claim speaks of the spec that is stored when it is made, and a write of *)
(* another spec, or of another resource of the same name, voids it.  The   *)
(* three models of the reconcilers implement this module.                  *)
(***************************************************************************)

CONSTANTS
  Res,    \* the resources
  Specs,  \* the specs a user may write
  Claim,  \* Claim[s]: what a reconciler that is done with s says
  None    \* no resource, no claim

VARIABLES
  desired,  \* desired[r]: the stored spec of r, or None
  claim     \* claim[r]: what its status says of that spec, or None

cvars == <<desired, claim>>

Init == desired = [r \in Res |-> None] /\ claim = [r \in Res |-> None]

\* A user creates r or edits its spec.
Write(r) ==
  /\ \E s \in Specs \ {desired[r]} : desired' = [desired EXCEPT ![r] = s]
  /\ claim' = [claim EXCEPT ![r] = None]

Delete(r) ==
  /\ desired' = [desired EXCEPT ![r] = None]
  /\ claim' = [claim EXCEPT ![r] = None]

\* A reconciler vouches for the spec as it stands, or takes its word back.
Confirm(r) ==
  /\ desired[r] # None
  /\ claim' = [claim EXCEPT ![r] = Claim[desired[r]]]
  /\ UNCHANGED desired

Withdraw(r) ==
  /\ claim' = [claim EXCEPT ![r] = None]
  /\ UNCHANGED desired

Next == \E r \in Res : Write(r) \/ Delete(r) \/ Confirm(r) \/ Withdraw(r)

Spec == Init /\ [][Next]_cvars

=============================================================================
