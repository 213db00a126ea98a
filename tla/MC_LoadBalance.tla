--------------------------- MODULE MC_LoadBalance ---------------------------
(* Model-checking instance of LoadBalance: members a and b, one            *)
(* destination x.                                                          *)
EXTENDS LoadBalance, TLC

CONSTANTS a, b, x

MCMembers == <<a, b>>

MCSupportTCP == [o \in {a, b} |-> {"tcp"}]

MCSupportBoth == [o \in {a, b} |-> {"tcp", "udp"}]

\* Stand-in scores for fnv1a64: the destination key prefers b, the sticky
\* keys tie (the first member wins).
MCScore ==
  [k \in ({""} \cup {"tcp", "udp"}) \X {x} |->
     IF k[1] = "" THEN (a :> 1 @@ b :> 2) ELSE (a :> 1 @@ b :> 1)]
=============================================================================
