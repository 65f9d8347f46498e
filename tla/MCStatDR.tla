------------------------------- MODULE MCStatDR -------------------------------
(* Small instances of StatDR for TLC. *)
EXTENDS StatDR, TLC

(* Clients are interchangeable, and so are the goroutines of each. *)
Symmetry == Permutations(Clients) \cup Permutations(Workers)

=============================================================================
