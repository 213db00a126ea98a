----------------------------- MODULE DNSRaceSpec -----------------------------
(***************************************************************************)
(* What a DNS racer promises the router (src/dns/router.go, exchangeRacer, *)
(* exchangeHedgedRacer, lookupRacer, lookupHedgedRacer), stated without    *)
(* goroutines, channels or timers.                                         *)
(*                                                                         *)
(* recv   : the results the racer has accepted, in the order it took them. *)
(* result : None while the racer runs, then the one value it returns.      *)
(*                                                                         *)
(* A racer takes at most one result per transport, stops taking results   *)
(* once a winning answer arrived, and returns exactly once:                *)
(*  - the winning answer (exchange: NOERROR; lookup: a non-empty address   *)
(*    list) as soon as it arrives;                                         *)
(*  - at any time (its context may be cancelled) the first retained        *)
(*    response, or the context error if none was retained;                 *)
(*  - once every transport reported, the first retained response, else the *)
(*    classified error.                                                    *)
(***************************************************************************)
EXTENDS Integers, Sequences, FiniteSets

CONSTANTS
  Transports,   \* the transports raced in one call (primary and fallback)
  NoTransport,  \* the transport of a result that came from no transport
  None          \* no result yet

VARIABLES
  mode,    \* the racer: "exchange" or "lookup", fixed for the call
  recv,
  result

Total == Cardinality(Transports)

Outcomes ==
  IF mode = "exchange"
    THEN {"noerror", "nxdomain", "rejected", "rejectedCached", "error"}
    ELSE {"addrs", "empty", "rejected", "rejectedCached", "error"}

\* A result that ends the race at once.
IsWin(o) == o \in {"noerror", "addrs"}

\* A result the racer keeps as its answer of last resort: a response of any
\* rcode for exchange, the very first result (error or not) for lookup.
IsRetainable(o) == mode = "lookup" \/ o \in {"noerror", "nxdomain"}

AsResult(e) == [val |-> e[2], from |-> e[1]]

Retainable(r) == SelectSeq(r, LAMBDA e : IsRetainable(e[2]))

Retained(r) ==
  IF Retainable(r) # << >>
    THEN AsResult(Head(Retainable(r)))
    ELSE [val |-> "ctxerr", from |-> NoTransport]

\* The error reported when every transport failed: the cached rejection if
\* every failure was one, a rejection if every failure was some rejection,
\* otherwise the aggregate of all errors.
Classify(r) ==
  LET os == {r[i][2] : i \in DOMAIN r}
  IN  IF os \subseteq {"rejectedCached"} THEN "rejectedCached"
      ELSE IF os \subseteq {"rejected", "rejectedCached"} THEN "rejected"
      ELSE "aggregate"

Exhausted(r) ==
  IF Retainable(r) # << >>
    THEN Retained(r)
    ELSE [val |-> Classify(r), from |-> NoTransport]

Won(r) == r # << >> /\ IsWin(r[Len(r)][2])

Reported(r) == {r[i][1] : i \in DOMAIN r}

Allowed(r) ==
  IF Won(r)
    THEN {AsResult(r[Len(r)])}
    ELSE {Retained(r)} \cup (IF Len(r) = Total THEN {Exhausted(r)} ELSE {})

Init ==
  /\ mode \in {"exchange", "lookup"}
  /\ recv = << >>
  /\ result = None

Deliver(t, o) ==
  /\ result = None
  /\ ~Won(recv)
  /\ t \notin Reported(recv)
  /\ recv' = Append(recv, <<t, o>>)
  /\ UNCHANGED <<mode, result>>

Return ==
  /\ result = None
  /\ result' \in Allowed(recv)
  /\ UNCHANGED <<mode, recv>>

Next ==
  \/ \E t \in Transports, o \in Outcomes : Deliver(t, o)
  \/ Return

Spec == Init /\ [][Next]_<<mode, recv, result>>

=============================================================================
