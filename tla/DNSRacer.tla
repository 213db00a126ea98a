------------------------------- MODULE DNSRacer -------------------------------
(***************************************************************************)
(* The DNS racers of src/dns/router.go: exchangeRacer and lookupRacer      *)
(* (plain: one goroutine per primary transport) and exchangeHedgedRacer    *)
(* and lookupHedgedRacer (hedged: a fallback cohort released by a timer   *)
(* after the upstream timeout).                                            *)
(*                                                                         *)
(* Every goroutine of one racer call is modelled: a query task per         *)
(* transport, the fallbackStart timer goroutine and the collecting loop of *)
(* the caller.  Contexts are predicates over the clock and the cancel      *)
(* flags; the results channel is unbuffered, so a task holding a result    *)
(* ("send") either meets the collector or, once it returned, the closed    *)
(* `returned` sentinel.                                                    *)
(*                                                                         *)
(* Time is a discrete clock in timeout units.  A context deadline fires at *)
(* its instant: the clock advances only when no goroutine can take a step  *)
(* without waiting for a transport or a timer (Tick).                      *)
(***************************************************************************)
EXTENDS Integers, Sequences, FiniteSets

CONSTANTS
  Primary,          \* primary transports of the matched rule
  Fallback,         \* fallback transports ({} for the plain racer)
  Modes,            \* the racers checked: "exchange", "lookup" or both
  Timings,          \* [ut, ft, grace]: upstreamTimeout, fallbackTimeout and
                    \* fallbackGrace of the matched rule, in clock units
  CallerMayCancel,  \* whether the caller's context may be cancelled
  MaxTime,          \* bound on the clock
  NoTransport,
  None

ASSUME Primary # {} /\ Primary \cap Fallback = {}
ASSUME Modes \subseteq {"exchange", "lookup"}
ASSUME MaxTime \in Nat
ASSUME Timings \subseteq [ut : Nat, ft : Nat, grace : Nat]
\* Router.Exchange/Lookup hedge only when upstreamTimeout > 0 and fallback
\* transports exist; matchDNS defaults fallbackTimeout to upstreamTimeout.
ASSUME \A tm \in Timings : Fallback # {} => tm.ut > 0 /\ tm.ft > 0
ASSUME CallerMayCancel \in BOOLEAN

VARIABLES
  mode,             \* the racer called: "exchange" or "lookup"
  timing,           \* the rule's timeouts, fixed for the call
  now,              \* the clock
  callerCancelled,  \* the caller's ctx was cancelled
  queryCancelled,   \* queryCancel() was called
  timer,            \* fallbackStart goroutine: "armed", "closed" or "none"
  task,             \* per transport: "wait", "query", "send", "exit"
  res,              \* per transport: the result it holds
  startAt,          \* per fallback transport: when its query began
  coll,             \* collector: "loop", "decide", "returned"
  cur,              \* the result the collector is deciding on
  got,              \* loop counter i: results received
  hasFb,            \* hasFallback
  fbVal,            \* fallbackResponse/fallbackTransport (fallbackAddrs/Err)
  allRej,           \* allRejected
  allRejOnly,       \* allRejectedOnly
  nErrs,            \* len(errorsList)
  ret,              \* what the racer returned
  recv              \* history: results received, in order

vars == <<mode, timing, now, callerCancelled, queryCancelled, timer, task, res, startAt,
          coll, cur, got, hasFb, fbVal, allRej, allRejOnly, nErrs, ret, recv>>

Transports == Primary \cup Fallback
Hedged == Fallback # {}
Total == Cardinality(Transports)
NoTime == -1

UpstreamTimeout == timing.ut
FallbackTimeout == timing.ft
FallbackGrace   == timing.grace

\* What client.Exchange / client.Lookup may return to a task.
ClientOutcomes ==
  IF mode = "exchange"
    THEN {"noerror", "nxdomain", "rejected", "rejectedCached", "error"}
    ELSE {"addrs", "noaddrs", "rejected", "rejectedCached", "error"}

Results ==
  IF mode = "exchange"
    THEN {"noerror", "nxdomain", "rejected", "rejectedCached", "error"}
    ELSE {"addrs", "empty", "rejected", "rejectedCached", "error"}

Returns ==
  [val : Results \cup {"aggregate", "ctxerr"}, from : Transports \cup {NoTransport}]

-----------------------------------------------------------------------------
(* Contexts.                                                               *)

\* The racer's ctx: the caller's, which on the plain path with an upstream
\* timeout is context.WithTimeout(dnsCtx, upstreamTimeout).
ParentDone ==
  \/ callerCancelled
  \/ ~Hedged /\ UpstreamTimeout > 0 /\ now >= UpstreamTimeout

QueryDone == ParentDone \/ queryCancelled

PrimaryTimeout ==
  IF FallbackGrace > 0 THEN UpstreamTimeout + FallbackGrace ELSE UpstreamTimeout

\* Mutant: the fallback query runs under queryCtx without fallbackTimeout.
CtxDoneNoFallbackTimeout(t) ==
  \/ QueryDone
  \/ t \in Primary /\ Hedged /\ now >= PrimaryTimeout

\* The context a task's query runs under: primaryCtx (hedged) or queryCtx
\* for a primary, queryCtx with fallbackTimeout for a fallback.
CtxDone(t) ==
  \/ QueryDone
  \/ t \in Primary /\ Hedged /\ now >= PrimaryTimeout
  \/ t \in Fallback /\ FallbackTimeout > 0 /\ now >= startAt[t] + FallbackTimeout

-----------------------------------------------------------------------------
(* Query tasks.                                                            *)

\* Mutant: a successful lookup with no address is passed on as it is.
TaskResultNoEmpty(o) == o

\* A lookup that succeeded with no address is turned into "empty result".
TaskResult(o) == IF o = "noaddrs" THEN "empty" ELSE o

\* The transport answers (at any time; a late answer may race the deadline).
Answer(t, o) ==
  /\ task[t] = "query"
  /\ task' = [task EXCEPT ![t] = "send"]
  /\ res' = [res EXCEPT ![t] = TaskResult(o)]
  /\ UNCHANGED <<mode, timing, now, callerCancelled, queryCancelled, timer, startAt, coll,
                 cur, got, hasFb, fbVal, allRej, allRejOnly, nErrs, ret, recv>>

\* The task's context is done: the client returns the context error.
Expire(t) ==
  /\ task[t] = "query"
  /\ CtxDone(t)
  /\ task' = [task EXCEPT ![t] = "send"]
  /\ res' = [res EXCEPT ![t] = "error"]
  /\ UNCHANGED <<mode, timing, now, callerCancelled, queryCancelled, timer, startAt, coll,
                 cur, got, hasFb, fbVal, allRej, allRejOnly, nErrs, ret, recv>>

\* The fallbackStart goroutine: closes the channel after upstreamTimeout or
\* when queryCtx is done.
TimerClose ==
  /\ timer = "armed"
  /\ now >= UpstreamTimeout \/ QueryDone
  /\ timer' = "closed"
  /\ UNCHANGED <<mode, timing, now, callerCancelled, queryCancelled, task, res, startAt, coll,
                 cur, got, hasFb, fbVal, allRej, allRejOnly, nErrs, ret, recv>>

\* Mutant: the queryCtx.Err() re-check after the select is dropped.
FallbackBeginNoErrCheck(t) ==
  /\ task[t] = "wait"
  /\ timer = "closed"
  /\ task' = [task EXCEPT ![t] = "query"]
  /\ startAt' = [startAt EXCEPT ![t] = now]
  /\ UNCHANGED <<mode, timing, now, callerCancelled, queryCancelled, timer, res, coll,
                 cur, got, hasFb, fbVal, allRej, allRejOnly, nErrs, ret, recv>>

\* A fallback task past its select with queryCtx still live starts its query.
FallbackBegin(t) ==
  /\ task[t] = "wait"
  /\ timer = "closed"
  /\ ~QueryDone
  /\ task' = [task EXCEPT ![t] = "query"]
  /\ startAt' = [startAt EXCEPT ![t] = now]
  /\ UNCHANGED <<mode, timing, now, callerCancelled, queryCancelled, timer, res, coll,
                 cur, got, hasFb, fbVal, allRej, allRejOnly, nErrs, ret, recv>>

\* queryCtx is done: whichever select branch it takes, the task returns
\* without querying and without sending.
FallbackAbort(t) ==
  /\ task[t] = "wait"
  /\ QueryDone
  /\ task' = [task EXCEPT ![t] = "exit"]
  /\ UNCHANGED <<mode, timing, now, callerCancelled, queryCancelled, timer, res, startAt, coll,
                 cur, got, hasFb, fbVal, allRej, allRejOnly, nErrs, ret, recv>>

\* Mutant: a bare `results <- r` without the `<-returned` case never
\* completes once the collector is gone.
DropWithoutSentinel(t) == task[t] = "send" /\ FALSE

\* The send meets the closed `returned` sentinel: the result is dropped.
Drop(t) ==
  /\ task[t] = "send"
  /\ coll = "returned"
  /\ task' = [task EXCEPT ![t] = "exit"]
  /\ UNCHANGED <<mode, timing, now, callerCancelled, queryCancelled, timer, res, startAt, coll,
                 cur, got, hasFb, fbVal, allRej, allRejOnly, nErrs, ret, recv>>

-----------------------------------------------------------------------------
(* The collector.                                                          *)

IsResponse(o) == o \in {"noerror", "nxdomain"}

\* Mutant: a plain rejection is counted as a cached one.
RecordExchangeRejectedAsCached(t, o) ==
  /\ hasFb' = (hasFb \/ IsResponse(o))
  /\ fbVal' = IF IsResponse(o) /\ ~hasFb THEN [val |-> o, from |-> t] ELSE fbVal
  /\ nErrs' = IF IsResponse(o) THEN nErrs ELSE nErrs + 1
  /\ allRejOnly' = (allRejOnly /\ (IsResponse(o) \/ o \in {"rejected", "rejectedCached"}))
  /\ allRej' = (allRej /\ (IsResponse(o) \/ o \in {"rejected", "rejectedCached"}))

\* Bookkeeping of exchangeRacer/exchangeHedgedRacer on one received result.
RecordExchange(t, o) ==
  /\ hasFb' = (hasFb \/ IsResponse(o))
  /\ fbVal' = IF IsResponse(o) /\ ~hasFb THEN [val |-> o, from |-> t] ELSE fbVal
  /\ nErrs' = IF IsResponse(o) THEN nErrs ELSE nErrs + 1
  /\ allRejOnly' = (allRejOnly /\ (IsResponse(o) \/ o = "rejectedCached"))
  /\ allRej' = (allRej /\ (IsResponse(o) \/ o \in {"rejected", "rejectedCached"}))

\* Mutant: every received result overwrites the retained one.
RecordLookupKeepLast(t, o) ==
  /\ hasFb' = TRUE
  /\ fbVal' = [val |-> o, from |-> t]
  /\ nErrs' = IF o = "addrs" THEN nErrs ELSE nErrs + 1
  /\ UNCHANGED <<mode, timing, allRej, allRejOnly>>

\* Bookkeeping of lookupRacer/lookupHedgedRacer: the first result is kept.
RecordLookup(t, o) ==
  /\ hasFb' = TRUE
  /\ fbVal' = IF ~hasFb THEN [val |-> o, from |-> t] ELSE fbVal
  /\ nErrs' = IF o = "addrs" THEN nErrs ELSE nErrs + 1
  /\ UNCHANGED <<mode, timing, allRej, allRejOnly>>

Receive(t) ==
  /\ coll = "loop"
  /\ task[t] = "send"
  /\ task' = [task EXCEPT ![t] = "exit"]
  /\ cur' = <<t, res[t]>>
  /\ got' = got + 1
  /\ coll' = "decide"
  /\ recv' = Append(recv, <<t, res[t]>>)
  /\ IF mode = "exchange" THEN RecordExchange(t, res[t]) ELSE RecordLookup(t, res[t])
  /\ UNCHANGED <<mode, timing, now, callerCancelled, queryCancelled, timer, res, startAt, ret>>

\* Returning runs the deferred queryCancel/close(returned).
Return(r) ==
  /\ coll' = "returned"
  /\ ret' = r
  /\ queryCancelled' = TRUE

Final ==
  IF hasFb THEN fbVal
  ELSE IF mode = "lookup" THEN [val |-> "aggregate", from |-> NoTransport]
  ELSE IF allRejOnly THEN [val |-> "rejectedCached", from |-> NoTransport]
  ELSE IF allRej THEN [val |-> "rejected", from |-> NoTransport]
  ELSE [val |-> "aggregate", from |-> NoTransport]

IsWin(o) == o \in {"noerror", "addrs"}

Decide ==
  /\ coll = "decide"
  /\ IF IsWin(cur[2])
       THEN Return([val |-> cur[2], from |-> cur[1]])
     ELSE IF got = Total
       THEN Return(Final)
     ELSE /\ coll' = "loop"
          /\ UNCHANGED <<mode, timing, ret, queryCancelled>>
  /\ UNCHANGED <<mode, timing, now, callerCancelled, timer, task, res, startAt, cur, got,
                 hasFb, fbVal, allRej, allRejOnly, nErrs, recv>>

\* The select takes <-ctx.Done(): the retained response, else ctx.Err().
CollectorCtxDone ==
  /\ coll = "loop"
  /\ ParentDone
  /\ Return(IF hasFb THEN fbVal ELSE [val |-> "ctxerr", from |-> NoTransport])
  /\ UNCHANGED <<mode, timing, now, callerCancelled, timer, task, res, startAt, cur, got,
                 hasFb, fbVal, allRej, allRejOnly, nErrs, recv>>

-----------------------------------------------------------------------------
(* Environment: the caller, and time.                                      *)

CallerCancel ==
  /\ CallerMayCancel
  /\ ~callerCancelled
  /\ coll # "returned"
  /\ callerCancelled' = TRUE
  /\ UNCHANGED <<mode, timing, now, queryCancelled, timer, task, res, startAt, coll,
                 cur, got, hasFb, fbVal, allRej, allRejOnly, nErrs, ret, recv>>

\* Steps a goroutine takes without waiting on a transport or a timer.
Urgent ==
  \/ TimerClose \/ Decide \/ CollectorCtxDone
  \/ \E t \in Transports :
       Receive(t) \/ Expire(t) \/ FallbackBegin(t) \/ FallbackAbort(t) \/ Drop(t)

Pending ==
  coll # "returned" \/ timer = "armed" \/ \E t \in Transports : task[t] # "exit"

Tick ==
  /\ now < MaxTime
  /\ Pending
  /\ ~ENABLED Urgent
  /\ now' = now + 1
  /\ UNCHANGED <<mode, timing, callerCancelled, queryCancelled, timer, task, res, startAt, coll,
                 cur, got, hasFb, fbVal, allRej, allRejOnly, nErrs, ret, recv>>

-----------------------------------------------------------------------------

Init ==
  /\ mode \in Modes
  /\ timing \in Timings
  /\ now = 0
  /\ callerCancelled = FALSE
  /\ queryCancelled = FALSE
  /\ timer = IF Hedged THEN "armed" ELSE "none"
  /\ task = [t \in Transports |-> IF t \in Primary THEN "query" ELSE "wait"]
  /\ res = [t \in Transports |-> None]
  /\ startAt = [t \in Fallback |-> NoTime]
  /\ coll = "loop"
  /\ cur = None
  /\ got = 0
  /\ hasFb = FALSE
  /\ fbVal = None
  /\ allRej = TRUE
  /\ allRejOnly = TRUE
  /\ nErrs = 0
  /\ ret = None
  /\ recv = << >>

Next ==
  \/ \E t \in Transports, o \in ClientOutcomes : Answer(t, o)
  \/ \E t \in Transports :
       Expire(t) \/ FallbackBegin(t) \/ FallbackAbort(t) \/ Drop(t) \/ Receive(t)
  \/ TimerClose \/ Decide \/ CollectorCtxDone \/ CallerCancel \/ Tick

\* Goroutines are scheduled by the Go runtime and transports answer or time
\* out; the caller is not obliged to cancel.
Fairness ==
  /\ WF_vars(Tick) /\ WF_vars(TimerClose) /\ WF_vars(Decide)
  /\ WF_vars(CollectorCtxDone)
  /\ \A t \in Transports :
       /\ WF_vars(\E o \in ClientOutcomes : Answer(t, o))
       /\ WF_vars(Expire(t)) /\ WF_vars(FallbackBegin(t))
       /\ WF_vars(FallbackAbort(t)) /\ WF_vars(Drop(t)) /\ WF_vars(Receive(t))

Spec == Init /\ [][Next]_vars /\ Fairness

-----------------------------------------------------------------------------
(* Properties.                                                             *)

TypeOK ==
  /\ mode \in Modes /\ timing \in Timings
  /\ now \in 0..MaxTime
  /\ {callerCancelled, queryCancelled, hasFb, allRej, allRejOnly} \subseteq BOOLEAN
  /\ timer \in {"armed", "closed", "none"}
  /\ task \in [Transports -> {"wait", "query", "send", "exit"}]
  /\ res \in [Transports -> Results \cup {None}]
  /\ startAt \in [Fallback -> {NoTime} \cup 0..MaxTime]
  /\ coll \in {"loop", "decide", "returned"}
  /\ got \in 0..Total /\ nErrs \in 0..Total
  /\ fbVal \in Returns \cup {None}
  /\ ret \in Returns \cup {None}

\* The racer keeps the promise of DNSRaceSpec: one return, no result taken
\* after it, the winning answer returned at once, the retained response or
\* the classified error otherwise (router.go collector loops).
Race == INSTANCE DNSRaceSpec
          WITH Transports <- Transports,
               mode <- mode,
               result <- IF coll = "returned" THEN ret ELSE None
RaceRefinement == Race!Spec

\* No fallback transport is queried before upstreamTimeout has elapsed, even
\* when fallbackStart is closed early by a cancelled queryCtx (the
\* queryCtx.Err() re-check in the fallback goroutine).
FallbackNotBeforeUpstreamTimeout ==
  \A t \in Fallback : startAt[t] # NoTime => startAt[t] >= UpstreamTimeout

\* Every branch is bounded: unless the caller cancels, a hedged race returns
\* by upstreamTimeout plus the longer of grace and fallbackTimeout, a plain
\* race with an upstream timeout by that timeout.
ReturnDeadline ==
  IF Hedged
    THEN UpstreamTimeout + (IF FallbackGrace > FallbackTimeout
                              THEN FallbackGrace ELSE FallbackTimeout)
    ELSE UpstreamTimeout

ReturnsByDeadline ==
  coll # "returned" => now <= ReturnDeadline

\* The call ends cleanly: the collector returns and every goroutine it
\* started exits, none left blocked on the results channel (the `returned`
\* sentinel) or on fallbackStart.
RacerTerminates ==
  <>(coll = "returned" /\ timer # "armed" /\ \A t \in Transports : task[t] = "exit")

=============================================================================
