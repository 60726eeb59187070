------------------------------ MODULE MCOperator ------------------------------
(***************************************************************************)
(* Instances of Operator for TLC.                                          *)
(***************************************************************************)
EXTENDS Operator

CONSTANTS s1, a, n

Reference(secret) == [sourceType |-> "secret", secretRef |-> secret, externalSecretRef |-> Nil]

OneReference == {Reference(s1)}
SomeOrNone == {Reference(s1), Reference(Nil)}

OwnName == [cr \in CR |-> n]

RuntimeOnly == {[on |-> {"runtime"}, env |-> 0, rest |-> 0, fail |-> FALSE]}
=============================================================================
