----------------------------- MODULE LatestWins -----------------------------
(***************************************************************************)
(* What a write-behind store of snapshots promises.  Versions are stored   *)
(* in the order they were requested; a version may be skipped when a newer *)
(* one is there; the newest is stored in the end, unless the store broke.  *)
(***************************************************************************)
EXTENDS Naturals

VARIABLES
  requested,  \* newest version a caller asked to store
  stored,     \* newest version completely stored
  broken      \* the store failed once: it may store, it need not

vars == <<requested, stored, broken>>

Init == requested = 0 /\ stored = 0 /\ broken = FALSE

Request ==
  /\ requested' > requested /\ requested' \in Nat
  /\ UNCHANGED <<stored, broken>>

Store ==
  /\ \E v \in stored + 1 .. requested : stored' = v
  /\ UNCHANGED <<requested, broken>>

Break ==
  /\ broken' = TRUE
  /\ UNCHANGED <<requested, stored>>

Next == Request \/ Store \/ Break

SafetySpec == Init /\ [][Next]_vars

(* As long as the store is sound, the newest request does not wait for     *)
(* ever.                                                                   *)
Spec == SafetySpec /\ WF_vars(~broken /\ Store)
=============================================================================
