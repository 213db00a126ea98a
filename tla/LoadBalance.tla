------------------------------ MODULE LoadBalance ------------------------------
(***************************************************************************)
(* The LoadBalance outbound group (src/protocol/group/load_balance.go,     *)
(* LoadBalanceGroup) composed with its health checker (HealthCheck, with   *)
(* no onUpdate callback).                                                  *)
(*                                                                         *)
(* Each dialer is one DialContext/ListenPacket call: its retry loop picks  *)
(* a candidate (history-backed members of the network, or all of them),   *)
(* minus those the call already excluded, by the group's strategy, then    *)
(* dials it.  A failure deletes the history and the sticky entry, excludes *)
(* the member and spawns one forced check per call.                        *)
(*                                                                         *)
(* A destination is a member of Dests; the sticky key of a call is its     *)
(* network and destination (the inbound source is folded into the          *)
(* destination).  fnv1a64 is abstracted to Score, a fixed table of scores  *)
(* per key and member; rendezvousPick keeps the first member on ties.      *)
(***************************************************************************)
EXTENDS HealthCheck

CONSTANTS
  Dialers,     \* concurrent callers of DialContext/ListenPacket
  Support,     \* Support[o]: the networks outbound o supports
  CallNets,    \* the networks the callers dial ("udp": ListenPacket)
  Strategies,  \* the configurable strategies: "round-robin",
               \* "consistent-hashing", "sticky-sessions"
  Dests,       \* destinations (destination keys)
  Score,       \* Score[key][o]: the rendezvous score of o for key
  RRModulus,   \* 2^64: rrCounter is a uint64
  Nil

Networks == {"tcp", "udp"}

\* A rendezvous key: the sticky key <<network, destination>>, or
\* <<"", destination>> for consistent hashing's destination key.
Keys == ({""} \cup Networks) \X Dests

ASSUME Support \in [Outbounds -> SUBSET Networks]
ASSUME CallNets \subseteq Networks
ASSUME Strategies \subseteq {"round-robin", "consistent-hashing", "sticky-sessions"}
ASSUME Score \in [Keys -> [Outbounds -> Nat]]
ASSUME RRModulus \in Nat \ {0}

VARIABLES
  strategy,      \* the group's strategy, fixed at construction
  rrCounter,     \* the round-robin counter
  stickyCache,   \* sticky key -> [tag, expired], or Nil
  lastSelected,  \* the last outbound dialled successfully
  dialer         \* per dialer: the call in progress

vars == <<hcVars, strategy, rrCounter, stickyCache, lastSelected, dialer>>

Idle == [pc |-> "idle", net |-> "tcp", dest |-> Nil, excluded |-> {},
         triggered |-> FALSE, via |-> Nil]

-----------------------------------------------------------------------------

\* candidates(network): the members supporting it that have a history
\* entry, or all members supporting it when none has.
Candidates(n) ==
  LET network   == SelectSeq(Members, LAMBDA o : n \in Support[o])
      available == SelectSeq(network, LAMBDA o : history[o] # "none")
  IN  IF available # << >> THEN available ELSE network

\* rendezvousPick: the candidate of highest score, the first one on ties.
RECURSIVE PickFrom(_, _, _)
PickFrom(key, cs, best) ==
  IF cs = << >> THEN best
  ELSE PickFrom(key, Tail(cs),
                IF best = Nil \/ Score[key][Head(cs)] > Score[key][best]
                  THEN Head(cs) ELSE best)

RendezvousPick(key, cs) == PickFrom(key, cs, Nil)

StickyKey(d) == <<dialer[d].net, dialer[d].dest>>

IsCandidate(o, cs) == \E i \in DOMAIN cs : cs[i] = o

\* Mutant: loadSticky is given the candidates before excluded is subtracted.
StickyHitUnfiltered(d, cs) ==
  LET e == stickyCache[StickyKey(d)]
  IN  e # Nil /\ ~e.expired /\ IsCandidate(e.tag, Candidates(dialer[d].net))

\* loadSticky: an unexpired entry whose outbound is a candidate.
StickyHit(d, cs) ==
  LET e == stickyCache[StickyKey(d)]
  IN  e # Nil /\ ~e.expired /\ IsCandidate(e.tag, cs)

-----------------------------------------------------------------------------
(* DialContext(network) / ListenPacket (network "udp").                     *)

\* The call starts (after Touch): empty excluded set, no check triggered.
Begin(d, n, dest) ==
  /\ dialer[d].pc = "idle"
  /\ dialer' = [dialer EXCEPT ![d] = [Idle EXCEPT !.pc = "pick", !.net = n,
                                       !.dest = dest]]
  /\ UNCHANGED <<hcVars, rrCounter, stickyCache, lastSelected>>

\* No candidate is left: the call returns its last error.
GiveUp(d) ==
  LET cs == SelectSeq(Candidates(dialer[d].net),
                      LAMBDA o : o \notin dialer[d].excluded)
  IN  /\ dialer[d].pc = "pick"
      /\ cs = << >>
      /\ dialer' = [dialer EXCEPT ![d] = Idle]
      /\ UNCHANGED <<hcVars, rrCounter, stickyCache, lastSelected>>

\* selectRoundRobin: index = (rrCounter.Add(1) - 1) % len(candidates).
PickRoundRobin(d, cs) ==
  /\ strategy = "round-robin"
  /\ rrCounter' = (rrCounter + 1) % RRModulus
  /\ dialer' = [dialer EXCEPT ![d].pc = "dial",
                              ![d].via = cs[(rrCounter % Len(cs)) + 1]]
  /\ UNCHANGED stickyCache

\* selectConsistentHashing: rendezvous on the destination key.
PickHashing(d, cs) ==
  /\ strategy = "consistent-hashing"
  /\ dialer' = [dialer EXCEPT ![d].pc = "dial",
                              ![d].via = RendezvousPick(<<"", dialer[d].dest>>, cs)]
  /\ UNCHANGED <<rrCounter, stickyCache>>

\* loadSticky then selectSticky.  An expired entry is deleted; an entry
\* whose outbound is not a candidate is left in place.
PickSticky(d, cs) ==
  LET k == StickyKey(d)
      e == stickyCache[k]
  IN  /\ strategy = "sticky-sessions"
      /\ stickyCache' = IF e # Nil /\ e.expired
                          THEN [stickyCache EXCEPT ![k] = Nil] ELSE stickyCache
      /\ dialer' = [dialer EXCEPT ![d].pc = "dial",
                                  ![d].via = IF StickyHit(d, cs) THEN e.tag
                                             ELSE RendezvousPick(k, cs)]
      /\ UNCHANGED rrCounter

\* One turn of the loop: candidates minus excluded, then selectOutbound.
Pick(d) ==
  LET cs == SelectSeq(Candidates(dialer[d].net),
                      LAMBDA o : o \notin dialer[d].excluded)
  IN  /\ dialer[d].pc = "pick"
      /\ cs # << >>
      /\ \/ PickRoundRobin(d, cs)
         \/ PickHashing(d, cs)
         \/ PickSticky(d, cs)
      /\ UNCHANGED <<hcVars, lastSelected>>

\* Mutant: the call's record is cleared before storeSticky reads it.
DialOkResetFirst(d) ==
  LET o == dialer[d].via
  IN  /\ dialer[d].pc = "dial"
      /\ up[o]
      /\ lastSelected' = o
      /\ dialer' = [dialer EXCEPT ![d] = Idle]
      /\ stickyCache' = IF strategy = "sticky-sessions"
                          THEN [stickyCache EXCEPT ![StickyKey(d)] =
                                  [tag |-> dialer'[d].via, expired |-> FALSE]]
                          ELSE stickyCache
      /\ UNCHANGED <<hcVars, rrCounter>>

\* The dial succeeds: lastSelected.Store, storeSticky; the call returns.
DialOk(d) ==
  LET o == dialer[d].via
  IN  /\ dialer[d].pc = "dial"
      /\ up[o]
      /\ lastSelected' = o
      /\ stickyCache' = IF strategy = "sticky-sessions"
                          THEN [stickyCache EXCEPT ![StickyKey(d)] =
                                  [tag |-> o, expired |-> FALSE]]
                          ELSE stickyCache
      /\ dialer' = [dialer EXCEPT ![d] = Idle]
      /\ UNCHANGED <<hcVars, rrCounter>>

\* Mutant: the failed member is not added to excluded.
DialFailNoExclude(d) ==
  LET o == dialer[d].via
  IN  /\ dialer[d].pc = "dial"
      /\ ~up[o]
      /\ DeleteHistory(o)
      /\ stickyCache' = IF strategy = "sticky-sessions"
                          THEN [stickyCache EXCEPT ![StickyKey(d)] = Nil]
                          ELSE stickyCache
      /\ IF dialer[d].triggered
           THEN UNCHANGED spawned
           ELSE SpawnForcedCheck
      /\ dialer' = [dialer EXCEPT ![d].pc = "pick",
                                  ![d].triggered = TRUE]
      /\ UNCHANGED <<up, flips, checking, round, rrCounter, lastSelected>>

\* The dial fails: delete the history and the sticky entry, exclude the
\* member, trigger one forced check per call, and loop.
DialFail(d) ==
  LET o == dialer[d].via
  IN  /\ dialer[d].pc = "dial"
      /\ ~up[o]
      /\ DeleteHistory(o)
      /\ stickyCache' = IF strategy = "sticky-sessions"
                          THEN [stickyCache EXCEPT ![StickyKey(d)] = Nil]
                          ELSE stickyCache
      /\ IF dialer[d].triggered
           THEN UNCHANGED spawned
           ELSE SpawnForcedCheck
      /\ dialer' = [dialer EXCEPT ![d].pc = "pick",
                                  ![d].excluded = @ \cup {o},
                                  ![d].triggered = TRUE]
      /\ UNCHANGED <<up, flips, checking, round, rrCounter, lastSelected>>

\* Ten minutes pass over a sticky entry.
StickyExpire(k) ==
  /\ stickyCache[k] # Nil
  /\ ~stickyCache[k].expired
  /\ stickyCache' = [stickyCache EXCEPT ![k].expired = TRUE]
  /\ UNCHANGED <<hcVars, rrCounter, lastSelected, dialer>>

-----------------------------------------------------------------------------

\* Now(): the last selected outbound, else the first member.
Now == IF lastSelected # Nil THEN lastSelected ELSE Members[1]

Init ==
  /\ HCInit
  /\ strategy \in Strategies
  /\ rrCounter = 0
  /\ stickyCache = [k \in Keys |-> Nil]
  /\ lastSelected = Nil
  /\ dialer = [d \in Dialers |-> Idle]

HCStep ==
  /\ \/ TickRound \/ ForcedAttempt \/ ProbesDone \/ NoUpdate \/ EndRound
     \/ \E o \in Outbounds : Probe(o) \/ Age(o) \/ Flip(o)
  /\ UNCHANGED <<rrCounter, stickyCache, lastSelected, dialer>>

\* No step changes the strategy.
Next ==
  /\ UNCHANGED strategy
  /\ \/ HCStep
     \/ \E d \in Dialers :
          \/ \E n \in CallNets, dest \in Dests : Begin(d, n, dest)
          \/ GiveUp(d) \/ Pick(d) \/ DialOk(d) \/ DialFail(d)
     \/ \E k \in Keys : StickyExpire(k)

\* Rounds, probes and a started call's own steps run to completion; the
\* ticker runs while the group is in use.  Calls, outages, ageing and
\* expiry are not forced.
Fairness ==
  /\ WF_vars(UNCHANGED strategy /\ HCStep
             /\ (TickRound \/ ForcedAttempt \/ ProbesDone \/ NoUpdate \/ EndRound))
  /\ \A o \in Outbounds : WF_vars(UNCHANGED strategy /\ HCStep /\ Probe(o))
  /\ \A d \in Dialers :
       /\ WF_vars(UNCHANGED strategy /\ GiveUp(d))
       /\ WF_vars(UNCHANGED strategy /\ Pick(d))
       /\ WF_vars(UNCHANGED strategy /\ DialOk(d))
       /\ WF_vars(UNCHANGED strategy /\ DialFail(d))

Spec == Init /\ [][Next]_vars /\ Fairness

-----------------------------------------------------------------------------
(* Properties.                                                             *)

TypeOK ==
  /\ HCTypeOK
  /\ strategy \in Strategies
  /\ rrCounter \in 0..(RRModulus - 1)
  /\ \A k \in Keys : stickyCache[k] = Nil
                      \/ stickyCache[k] \in [tag : Outbounds, expired : BOOLEAN]
  /\ lastSelected \in Outbounds \cup {Nil}
  /\ \A d \in Dialers :
       /\ dialer[d].pc \in {"idle", "pick", "dial"}
       /\ dialer[d].excluded \subseteq Outbounds
       /\ dialer[d].via \in Outbounds \cup {Nil}

\* The retry loop of DialContext/ListenPacket ends: every call returns,
\* however probes and other calls change the candidates meanwhile (the
\* excluded set bounds the loop).
CallReturns ==
  \A d \in Dialers : (dialer[d].pc # "idle") ~> (dialer[d].pc = "idle")

\* A call never dials a member it has already excluded, even when another
\* call has meanwhile stored that member in the sticky entry of the same key
\* (loadSticky checks the entry against the candidates minus excluded).
NeverRedialsExcluded ==
  \A d \in Dialers : dialer[d].pc = "dial" => dialer[d].via \notin dialer[d].excluded

=============================================================================
