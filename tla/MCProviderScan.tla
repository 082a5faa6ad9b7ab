--------------------------- MODULE MCProviderScan ---------------------------
(* Three games, so that one of two games may lose its files to the other   *)
(* and a third stays without any; a second scan after the first one.       *)
EXTENDS ProviderScan

=============================================================================
