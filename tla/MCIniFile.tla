----------------------------- MODULE MCIniFile -----------------------------
(* Model values for IniFile: two instances of the boot file, one key that  *)
(* is set and one beside it, two lines for a key (a commented default      *)
(* above or below an active line).  Instances, keys and values are         *)
(* interchangeable.                                                        *)
EXTENDS IniFile, TLC

CONSTANTS b1, b2, k1, k2, v1, v2

MCBootInstances == {b1, b2}
MCKeys          == {k1, k2}
MCValues        == {v1, v2}

Symmetry == Permutations(MCBootInstances) \union Permutations(MCKeys)
              \union Permutations(MCValues)
=============================================================================
