--------------------------- MODULE MC_FallbackGroup ---------------------------
(* Model-checking instance of FallbackGroup: a primary p and a backup b.   *)
EXTENDS FallbackGroup

CONSTANTS p, b

MCMembers == <<p, b>>

\* S1 of the specification: both members TCP-only.
MCSupportTCP == [o \in {p, b} |-> {"tcp"}]
=============================================================================
