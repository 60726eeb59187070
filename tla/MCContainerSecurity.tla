------------------------ MODULE MCContainerSecurity ------------------------
(***************************************************************************)
(* Instances of ContainerSecurity for TLC.                                 *)
(***************************************************************************)
EXTENDS ContainerSecurity

CONSTANTS a, b, n, m   \* resources a and b, names n and m

Wants(on, env, rest, fail) == [on |-> on, env |-> env, rest |-> rest, fail |-> fail]

OwnNames == [cr \in CR |-> IF cr = a THEN n ELSE m]

View(state, conf, usable) == [state |-> state, conf |-> conf, usable |-> usable]

Open == {View("ready", 1, {1})}
EveryView == Open \cup {View("absent", 1, {1}), View("notReady", 1, {1}),
                        View("refError", 1, {1}), View("ready", 1, {}),
                        View("ready", 2, {2})}

\* Two halves of the components, so that an edit disables one and enables the other,
\* and other contents of the first.
SwapHalves == {Wants({"container", "admission"}, 0, 0, FALSE),
               Wants({"container", "admission"}, 1, 1, TRUE),
               Wants({"cluster", "runtime"}, 0, 0, FALSE)}

TwoEach == {Wants({"container"}, 0, 0, FALSE), Wants({"admission", "runtime"}, 0, 1, FALSE)}
FailOrNothing == {Wants({"admission"}, 0, 0, TRUE), Wants({}, 0, 0, FALSE)}
ContainerChanges == {Wants({"container"}, 0, 0, FALSE), Wants({"container"}, 0, 1, FALSE)}
RuntimeOnly == {Wants({"runtime"}, 0, 0, FALSE)}
=============================================================================
