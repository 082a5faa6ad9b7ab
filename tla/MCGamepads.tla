----------------------------- MODULE MCGamepads -----------------------------
(* A device for each line, so that the last line is taken, and a device    *)
(* that comes back finds its number free.  recalbox.conf has no line, or a *)
(* line for every player, with the gamepads in another order.              *)
EXTENDS Gamepads

MCLeftovers ==
  { [i \in Slots |-> IF i < n THEN [dev |-> MaxPads - i, idx |-> i] ELSE NoLine] :
      n \in {0, MaxPads} }

=============================================================================
