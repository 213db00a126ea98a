------------------------------ MODULE HealthCheck ------------------------------
(***************************************************************************)
(* The probe rounds of the health checker (src/protocol/group/             *)
(* healthcheck.go, healthChecker.urlTest) over the URL-test history store  *)
(* that the Fallback and LoadBalance groups read and prune.                *)
(*                                                                         *)
(* history[o] is the history entry of member o: "none" (absent), "fresh"   *)
(* (younger than interval) or "stale".  up[o] is whether o currently       *)
(* works; a probe or a dial of o succeeds iff it is up at that step.       *)
(* Who calls CheckOutbounds -- PostStart, loopCheck on a tick, the         *)
(* goroutines the groups spawn after a failed dial -- only matters through *)
(* the single-flight flag `checking`, so one round record suffices: a call *)
(* made while a round runs returns at once.                                *)
(*                                                                         *)
(* A round ends with the onUpdate callback ("update") and only then clears *)
(* `checking` (the deferred Store(false)); the composing group module      *)
(* supplies the callback's steps.                                          *)
(***************************************************************************)
EXTENDS Integers, Sequences, FiniteSets

CONSTANTS
  Members,      \* the group's outbounds, in configuration order (a sequence)
  MaxFlips,     \* bound on how often an outbound goes up or down
  MaxSpawned    \* bound on pending `go CheckOutbounds(true)` goroutines

ASSUME Len(Members) > 0
ASSUME MaxFlips \in Nat /\ MaxSpawned \in Nat

VARIABLES
  history,   \* URL-test history per member: "none", "fresh", "stale"
  up,        \* whether the outbound currently works
  flips,     \* number of up/down changes so far
  checking,  \* the single-flight flag
  round,     \* the running round: [pc, force, probing]
  spawned    \* `go CheckOutbounds(true)` goroutines not yet run

hcVars == <<history, up, flips, checking, round, spawned>>

Outbounds == {Members[i] : i \in DOMAIN Members}

HistoryStates == {"none", "fresh", "stale"}

HCTypeOK ==
  /\ history \in [Outbounds -> HistoryStates]
  /\ up \in [Outbounds -> BOOLEAN]
  /\ flips \in 0..MaxFlips
  /\ checking \in BOOLEAN
  /\ round \in [pc : {"idle", "probe", "update", "end"},
                force : BOOLEAN, probing : SUBSET Outbounds]
  /\ spawned \in 0..MaxSpawned

\* A group-local store starts empty (urltest.NewHistoryStorage).
HCInit ==
  /\ history = [o \in Outbounds |-> "none"]
  /\ up \in [Outbounds -> BOOLEAN]
  /\ flips = 0
  /\ checking = FALSE
  /\ round = [pc |-> "idle", force |-> FALSE, probing |-> {}]
  /\ spawned = 0

-----------------------------------------------------------------------------
(* urlTest(force).                                                          *)

\* The members a round probes: all of them when forced, otherwise those
\* without a history entry younger than interval.
ToProbe(force) == {o \in Outbounds : force \/ history[o] # "fresh"}

\* checking.Swap(true) found the flag clear: the round scans the members
\* and starts one probe per member it does not skip.
BeginRound(force) ==
  /\ ~checking
  /\ checking' = TRUE
  /\ round' = [pc |-> "probe", force |-> force, probing |-> ToProbe(force)]

\* loopCheck (or PostStart) calls CheckOutbounds(false).  While a round
\* runs the call returns at once, which changes nothing.
TickRound ==
  /\ BeginRound(FALSE)
  /\ UNCHANGED <<history, up, flips, spawned>>

\* A goroutine spawned by a failed dial runs CheckOutbounds(true): it
\* starts a forced round, or finds `checking` set and returns.
ForcedAttempt ==
  /\ spawned > 0
  /\ spawned' = spawned - 1
  /\ IF checking
       THEN UNCHANGED <<checking, round>>
       ELSE BeginRound(TRUE)
  /\ UNCHANGED <<history, up, flips>>

\* One probe finishes: success stores a fresh entry, failure (or timeout)
\* deletes the entry.
Probe(o) ==
  /\ round.pc = "probe"
  /\ o \in round.probing
  /\ history' = [history EXCEPT ![o] = IF up[o] THEN "fresh" ELSE "none"]
  /\ round' = [round EXCEPT !.probing = @ \ {o}]
  /\ UNCHANGED <<up, flips, checking, spawned>>

\* b.Wait() returns once every probe finished; onUpdate runs next.
ProbesDone ==
  /\ round.pc = "probe"
  /\ round.probing = {}
  /\ round' = [round EXCEPT !.pc = "update"]
  /\ UNCHANGED <<history, up, flips, checking, spawned>>

\* onUpdate returned: the deferred checking.Store(false).
EndRound ==
  /\ round.pc = "end"
  /\ checking' = FALSE
  /\ round' = [round EXCEPT !.pc = "idle"]
  /\ UNCHANGED <<history, up, flips, spawned>>

\* A group without onUpdate (LoadBalance): the callback is nil.
NoUpdate ==
  /\ round.pc = "update"
  /\ round' = [round EXCEPT !.pc = "end"]
  /\ UNCHANGED <<history, up, flips, checking, spawned>>

-----------------------------------------------------------------------------
(* The history store as the groups use it, and the environment.            *)

\* A failed dial deletes the entry (DeleteURLTestHistory) ...
DeleteHistory(o) == history' = [history EXCEPT ![o] = "none"]

\* ... and starts `go CheckOutbounds(true)`.  Beyond MaxSpawned pending
\* goroutines a new one is merged with the pending ones: each of them only
\* starts a forced round or finds `checking` set.
SpawnForcedCheck ==
  spawned' = IF spawned < MaxSpawned THEN spawned + 1 ELSE spawned

\* interval elapses over an entry.
Age(o) ==
  /\ history[o] = "fresh"
  /\ history' = [history EXCEPT ![o] = "stale"]
  /\ UNCHANGED <<up, flips, checking, round, spawned>>

\* An outbound goes down or comes back.
Flip(o) ==
  /\ flips < MaxFlips
  /\ up' = [up EXCEPT ![o] = ~@]
  /\ flips' = flips + 1
  /\ UNCHANGED <<history, checking, round, spawned>>

HCNext ==
  \/ TickRound \/ ForcedAttempt \/ ProbesDone \/ EndRound
  \/ \E o \in Outbounds : Probe(o) \/ Age(o) \/ Flip(o)

=============================================================================
