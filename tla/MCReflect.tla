------------------------------ MODULE MCReflect ------------------------------
(* Values for model checking Reflect.  The order of the source's times,     *)
(* TickTock < TockTock < HostTimeout, is kept where both matter.            *)
EXTENDS Reflect, TLC
CONSTANTS h1, h2, h3
ThreeHosts == {h1, h2, h3}
OneLocal == {h3}
NoLocal == {}
Symmetry2 == Permutations({h1, h2})
Symmetry3 == Permutations({h1, h2, h3})

SF(kinds) == [kind: kinds, proto: {"SPEAKFREE"}]
SoundSpecialBye == SF({"sound", "special", "bye"})
AllForms == Form
=============================================================================
