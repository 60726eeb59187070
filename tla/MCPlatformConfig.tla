-------------------------- MODULE MCPlatformConfig --------------------------
(***************************************************************************)
(* Instances of PlatformConfig for TLC.                                    *)
(***************************************************************************)
EXTENDS PlatformConfig

CONSTANTS s1, s2   \* two secrets

Ref(type, secretRef, externalRef) ==
  [sourceType |-> type, secretRef |-> secretRef, externalSecretRef |-> externalRef]

\* A reference of either kind, and one that is missing.
ThreeSpecs == {Ref("secret", s1, Nil), Ref("externalSecret", s1, s2), Ref("secret", Nil, s2)}
=============================================================================
