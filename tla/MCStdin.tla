------------------------------- MODULE MCStdin -------------------------------
EXTENDS Stdin

Symmetry == Permutations(Procs) \cup Permutations(Messages)
==============================================================================
