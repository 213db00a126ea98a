----------------------------- MODULE FallbackGroup -----------------------------
(***************************************************************************)
(* The Fallback outbound group (src/protocol/group/fallback.go,            *)
(* FallbackGroup) composed with its health checker (HealthCheck) and its   *)
(* interrupt group.                                                        *)
(*                                                                         *)
(* Concurrent DialContext/ListenPacket calls (one per dialer) read the     *)
(* history, dial members in preference order, prune the history and spawn  *)
(* forced checks on failure, swap the selected outbound of their network   *)
(* and register the connection.  performUpdateCheck is the onUpdate       *)
(* callback of the probe rounds.  The interrupt group (not under src/,     *)
(* modelled from the specification) is the set of tracked connections.    *)
(***************************************************************************)
EXTENDS HealthCheck

CONSTANTS
  Dialers,            \* concurrent callers of DialContext/ListenPacket
  Support,            \* Support[o]: the networks outbound o supports
  InterruptExternal,  \* interrupt_exist_connections
  Nil

ASSUME Support \in [Outbounds -> SUBSET {"tcp", "udp"}]
ASSUME InterruptExternal \in BOOLEAN

VARIABLES
  selected,  \* selectedOutboundTCP / selectedOutboundUDP
  conns,     \* connections tracked by the interrupt group
  dialer,    \* per dialer: the DialContext call in progress
  upd        \* performUpdateCheck in progress

vars == <<hcVars, selected, conns, dialer, upd>>

Networks == {"tcp", "udp"}

\* performUpdateCheck handles TCP, then UDP.
UpdateOrder == <<"tcp", "udp">>

Conn == [via : Outbounds, net : Networks, ext : BOOLEAN]

Idle == [pc |-> "idle", net |-> "tcp", ext |-> FALSE, list |-> << >>,
         k |-> 1, via |-> Nil, trig |-> 0]

UpdIdle == [i |-> 1, phase |-> "read", out |-> Nil, exists |-> FALSE,
            prev |-> Nil, updated |-> FALSE]

-----------------------------------------------------------------------------

\* The members supporting network n, in configuration order.
SupportsNet(n) == SelectSeq(Members, LAMBDA o : n \in Support[o])

HasHistory(o) == history[o] # "none"

\* Select(network): the first supporting member with a history entry, else
\* the first supporting member; and whether it had an entry.
SelectFor(n) ==
  LET avail == SelectSeq(SupportsNet(n), HasHistory)
  IN  IF avail # << >> THEN <<Head(avail), TRUE>>
      ELSE IF SupportsNet(n) # << >> THEN <<Head(SupportsNet(n)), FALSE>>
      ELSE <<Nil, FALSE>>

\* Mutant: the second loop appends every candidate, not only those
\* without history, so preferred members are tried twice.
TryListPreferredTwice(n) ==
  SelectSeq(SupportsNet(n), HasHistory) \o SupportsNet(n)

\* DialContext's tryList: members with history first, each part in order.
TryList(n) ==
  SelectSeq(SupportsNet(n), HasHistory)
    \o SelectSeq(SupportsNet(n), LAMBDA o : ~HasHistory(o))

\* interruptGroup.Interrupt(interruptExternalConnections): close every
\* tracked connection, sparing external ones unless the flag is set.
Interrupt(cs) == {c \in cs : c.ext /\ ~InterruptExternal}

\* Now(): the TCP selection, else the UDP selection, else the first member.
Now ==
  IF selected["tcp"] # Nil THEN selected["tcp"]
  ELSE IF selected["udp"] # Nil THEN selected["udp"]
  ELSE Members[1]

-----------------------------------------------------------------------------
(* DialContext(network) / ListenPacket (network "udp").                     *)

\* The call starts: Touch, then the candidate list from a history snapshot;
\* with no member supporting the network it fails at once.  ext: the
\* connection is external (NewConnectionEx).
DialStart(d, n, ext) ==
  /\ dialer[d].pc = "idle"
  /\ SupportsNet(n) # << >>
  /\ dialer' = [dialer EXCEPT ![d] = [Idle EXCEPT !.pc = "try", !.net = n,
                                       !.ext = ext, !.list = TryList(n)]]
  /\ UNCHANGED <<hcVars, selected, conns, upd>>

\* storeSelected: swap the slot; interrupt if it held another outbound.
StoreSelected(n, o) ==
  /\ selected' = [selected EXCEPT ![n] = o]
  /\ conns' = IF selected[n] # Nil /\ selected[n] # o
                THEN Interrupt(conns) ELSE conns

\* The dial of the current candidate succeeds.
DialSuccess(d) ==
  LET o == dialer[d].list[dialer[d].k]
  IN  /\ dialer[d].pc = "try"
      /\ up[o]
      /\ StoreSelected(dialer[d].net, o)
      /\ dialer' = [dialer EXCEPT ![d].pc = "register", ![d].via = o]
      /\ UNCHANGED <<hcVars, upd>>

\* The dial fails: delete the history, `go CheckOutbounds(true)` (on every
\* failure), try the next candidate or return the last error.
DialFailure(d) ==
  LET o == dialer[d].list[dialer[d].k]
  IN  /\ dialer[d].pc = "try"
      /\ ~up[o]
      /\ DeleteHistory(o)
      /\ SpawnForcedCheck
      /\ dialer' = [dialer EXCEPT ![d] =
                      IF dialer[d].k = Len(dialer[d].list)
                        THEN [Idle EXCEPT !.trig = dialer[d].trig + 1]
                        ELSE [@ EXCEPT !.k = @ + 1, !.trig = @ + 1]]
      /\ UNCHANGED <<up, flips, checking, round, selected, conns, upd>>

\* interruptGroup.NewConn: the connection is tracked; the call returns.
Register(d) ==
  /\ dialer[d].pc = "register"
  /\ conns' = conns \cup {[via |-> dialer[d].via, net |-> dialer[d].net,
                           ext |-> dialer[d].ext]}
  /\ dialer' = [dialer EXCEPT ![d] = Idle]
  /\ UNCHANGED <<hcVars, selected, upd>>

\* The user closes a connection.
CloseConn(c) ==
  /\ c \in conns
  /\ conns' = conns \ {c}
  /\ UNCHANGED <<hcVars, selected, dialer, upd>>

-----------------------------------------------------------------------------
(* performUpdateCheck, run as the round's onUpdate.                        *)

\* Select(network) and selectedOutbound.Load() for the next network.
UpdRead ==
  LET n == UpdateOrder[upd.i]
      s == SelectFor(n)
  IN  /\ round.pc = "update"
      /\ upd.i <= Len(UpdateOrder)
      /\ upd.phase = "read"
      /\ upd' = [upd EXCEPT !.phase = "store", !.out = s[1], !.exists = s[2],
                             !.prev = selected[n]]
      /\ UNCHANGED <<hcVars, selected, conns, dialer>>

\* Mutant: only an empty slot is ever filled; no switch back to a member
\* that regained its history.
UpdStoreFillOnly ==
  LET n == UpdateOrder[upd.i]
      switch == upd.out # Nil /\ upd.prev = Nil
  IN  /\ round.pc = "update"
      /\ upd.phase = "store"
      /\ selected' = IF switch THEN [selected EXCEPT ![n] = upd.out] ELSE selected
      /\ upd' = [upd EXCEPT !.i = @ + 1, !.phase = "read"]
      /\ UNCHANGED <<hcVars, conns, dialer>>

\* Store the selection when the slot was empty or a member with history
\* differs from it; a change of a non-empty slot is remembered.
UpdStore ==
  LET n == UpdateOrder[upd.i]
      switch == upd.out # Nil /\ (upd.prev = Nil \/ (upd.exists /\ upd.out # upd.prev))
  IN  /\ round.pc = "update"
      /\ upd.phase = "store"
      /\ selected' = IF switch THEN [selected EXCEPT ![n] = upd.out] ELSE selected
      /\ upd' = [upd EXCEPT !.i = @ + 1, !.phase = "read",
                  !.updated = @ \/ (switch /\ upd.prev # Nil /\ upd.out # upd.prev)]
      /\ UNCHANGED <<hcVars, conns, dialer>>

\* Interrupt once if either slot changed; onUpdate returns.
UpdFinish ==
  /\ round.pc = "update"
  /\ upd.i > Len(UpdateOrder)
  /\ conns' = IF upd.updated THEN Interrupt(conns) ELSE conns
  /\ upd' = UpdIdle
  /\ round' = [round EXCEPT !.pc = "end"]
  /\ UNCHANGED <<history, up, flips, checking, spawned, selected, dialer>>

-----------------------------------------------------------------------------

Init ==
  /\ HCInit
  /\ selected = [n \in Networks |-> Nil]
  /\ conns = {}
  /\ dialer = [d \in Dialers |-> Idle]
  /\ upd = UpdIdle

HCStep ==
  /\ \/ TickRound \/ ForcedAttempt \/ ProbesDone \/ EndRound
     \/ \E o \in Outbounds : Probe(o) \/ Age(o) \/ Flip(o)
  /\ UNCHANGED <<selected, conns, dialer, upd>>

Next ==
  \/ HCStep
  \/ UpdRead \/ UpdStore \/ UpdFinish
  \/ \E d \in Dialers :
       \/ \E n \in Networks, ext \in BOOLEAN : DialStart(d, n, ext)
       \/ DialSuccess(d) \/ DialFailure(d) \/ Register(d)
  \/ \E c \in conns : CloseConn(c)

\* The ticker fires while the group is in use (HealthTicker models when it
\* stops); rounds, probes, callbacks and started dials run to completion.
\* Callers need not dial, outbounds need not change.
Fairness ==
  /\ WF_vars(TickRound /\ UNCHANGED <<selected, conns, dialer, upd>>)
  /\ WF_vars(ForcedAttempt /\ UNCHANGED <<selected, conns, dialer, upd>>)
  /\ WF_vars(ProbesDone /\ UNCHANGED <<selected, conns, dialer, upd>>)
  /\ WF_vars(EndRound /\ UNCHANGED <<selected, conns, dialer, upd>>)
  /\ \A o \in Outbounds : WF_vars(Probe(o) /\ UNCHANGED <<selected, conns, dialer, upd>>)
  /\ WF_vars(UpdRead) /\ WF_vars(UpdStore) /\ WF_vars(UpdFinish)
  /\ \A d \in Dialers :
       WF_vars(DialSuccess(d)) /\ WF_vars(DialFailure(d)) /\ WF_vars(Register(d))

Spec == Init /\ [][Next]_vars /\ Fairness

-----------------------------------------------------------------------------
(* Properties.                                                             *)

TypeOK ==
  /\ HCTypeOK
  /\ selected \in [Networks -> Outbounds \cup {Nil}]
  /\ conns \subseteq Conn
  /\ \A d \in Dialers :
       /\ dialer[d].pc \in {"idle", "try", "register"}
       /\ dialer[d].net \in Networks
       /\ dialer[d].k \in 1..(Len(Members) + 1)
       /\ dialer[d].via \in Outbounds \cup {Nil}
  /\ upd.i \in 1..(Len(UpdateOrder) + 1)

\* Recovery (fallback_test.go TestFallbackDial_FailoverAndRecover): once the
\* first member stays up, Now() eventually returns to it for good, whatever
\* failovers the dials and rounds made meanwhile.
RecoversToPrimary ==
  (<>[] up[Members[1]]) => <>[](Now = Members[1])

\* With interrupt_exist_connections semantics: when no call and no
\* performUpdateCheck is in progress, every interruptible connection goes
\* through the outbound now selected for its network -- a switch of the
\* selection closed the connections through the previous one.
Quiescent ==
  /\ \A d \in Dialers : dialer[d].pc = "idle"
  /\ round.pc # "update"

NoStaleConnection ==
  Quiescent =>
    \A c \in conns : (~c.ext \/ InterruptExternal) => c.via = selected[c.net]

\* fallback.go is to trigger checkOutbounds(force=true) exactly once per
\* call: later failures of the same call do not spawn another check.
ForcedCheckOncePerCall ==
  \A d \in Dialers : dialer[d].trig <= 1

=============================================================================
