--------------------------- MODULE MCJailLifecycle ----------------------------
(* Symmetry for the runs of JailLifecycle: peers are only compared.        *)
EXTENDS JailLifecycle, TLC

Symmetry == Permutations(Ips)
=============================================================================
