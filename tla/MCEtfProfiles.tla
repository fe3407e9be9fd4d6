---------------------------- MODULE MCEtfProfiles -----------------------------
(***************************************************************************)
(* Two workers and two instruments.  The provider's listings bring both,   *)
(* change one value, leave a value out, or leave an instrument out.        *)
(***************************************************************************)
EXTENDS EtfProfiles, TLC

CONSTANTS old, new

Full(v)   == [i \in {1, 2} |-> [f \in Fields |-> v]]
OnlyFirst == [i \in {1} |-> [f \in Fields |-> new]]
NoValue   == [i \in {1, 2} |-> [f \in Fields |-> IF i = 1 THEN None ELSE old]]

AFewListings == {Full(old), OnlyFirst, NoValue}

Symmetry == Permutations(Workers)
=============================================================================
