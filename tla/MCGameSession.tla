--------------------------- MODULE MCGameSession ---------------------------
(* Model values for GameSession: two launches are enough for a session to  *)
(* meet the leftovers of the previous one (a surviving background program, *)
(* a stale start time, a QProcess, a pending engine).                      *)
EXTENDS GameSession

CONSTANTS f1, f2

MCGameFiles == {f1, f2}
=============================================================================
