---------------------------- MODULE MCFavorites ----------------------------
(* Model values for Favorites: two games let a file hold a part of a       *)
(* snapshot, three changes let one wait behind another that waits.         *)
EXTENDS Favorites

CONSTANTS g1, g2

MCGames == {g1, g2}
=============================================================================
