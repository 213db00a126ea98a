----------------------------- MODULE HealthTicker -----------------------------
(***************************************************************************)
(* The ticker lifecycle of the health checker (src/protocol/group/         *)
(* healthcheck.go): PostStart, Touch (called by every dial of the group),  *)
(* Close, and the loopCheck goroutine that stops the ticker once the group *)
(* has been idle for idleTimeout.                                          *)
(*                                                                         *)
(* Every section under h.access is one step.  age abstracts                *)
(* time.Since(lastActive): younger than interval, older than interval, or  *)
(* older than idleTimeout (interval <= idleTimeout, newHealthChecker).     *)
(* The probe rounds CheckOutbounds starts are the HealthCheck module's;    *)
(* here a check only refreshes nothing and returns.                        *)
(*                                                                         *)
(* The pause-manager registration of the current ticker is counted by      *)
(* unregs, the Unregister calls made on it.                                *)
(***************************************************************************)
EXTENDS Naturals

CONSTANTS
  StaleTick   \* Stop leaves a tick already in ticker.C receivable (Go < 1.23)

ASSUME StaleTick \in BOOLEAN

VARIABLES
  started,      \* h.started
  ticker,       \* h.ticker: "nil", "running", "stopped"
  tick,         \* a tick is waiting in ticker.C
  cb,           \* h.pauseCallback: "none" or "registered"
  unregs,       \* UnregisterCallback calls on the current registration
  closed,       \* h.close has been closed
  closeCalled,  \* Close has been called (once, by the outbound manager)
  age,          \* time since lastActive: "fresh", "interval", "idle"
  loop          \* the loopCheck goroutine: "none", "init", "wait", "decide", "stop"

vars == <<started, ticker, tick, cb, unregs, closed, closeCalled, age, loop>>

-----------------------------------------------------------------------------

\* PostStart: under the lock, started and lastActive; the first check runs
\* in its own goroutine.
PostStart ==
  /\ ~started
  /\ started' = TRUE
  /\ age' = "fresh"
  /\ UNCHANGED <<ticker, tick, cb, unregs, closed, closeCalled, loop>>

\* Touch: nothing before PostStart; with a ticker, lastActive is refreshed;
\* without one, a new ticker, a new loopCheck and a new pause registration.
Touch ==
  /\ started
  /\ IF ticker # "nil"
       THEN /\ age' = "fresh"
            /\ UNCHANGED <<ticker, cb, unregs, loop>>
       ELSE /\ ticker' = "running"
            /\ loop' = "init"
            /\ cb' = "registered"
            /\ unregs' = 0
            /\ UNCHANGED age
  /\ UNCHANGED <<started, tick, closed, closeCalled>>

\* Close: without a ticker it returns; otherwise Stop, unregister, close.
Close ==
  /\ ~closeCalled
  /\ closeCalled' = TRUE
  /\ IF ticker = "nil"
       THEN UNCHANGED <<ticker, tick, unregs, closed>>
       ELSE /\ ticker' = "stopped"
            /\ tick' = (tick /\ StaleTick)
            /\ unregs' = unregs + 1
            /\ closed' = TRUE
  /\ UNCHANGED <<started, cb, age, loop>>

-----------------------------------------------------------------------------
(* loopCheck.                                                              *)

\* The first check when lastActive is older than interval.
LoopInit ==
  /\ loop = "init"
  /\ loop' = "wait"
  /\ age' = IF age # "fresh" THEN "fresh" ELSE age
  /\ UNCHANGED <<started, ticker, tick, cb, unregs, closed, closeCalled>>

\* select: h.close is closed; the goroutine returns.
LoopClosed ==
  /\ loop = "wait"
  /\ closed
  /\ loop' = "none"
  /\ UNCHANGED <<started, ticker, tick, cb, unregs, closed, closeCalled, age>>

\* select: a tick is received.
LoopTick ==
  /\ loop = "wait"
  /\ tick
  /\ tick' = FALSE
  /\ loop' = "decide"
  /\ UNCHANGED <<started, ticker, cb, unregs, closed, closeCalled, age>>

\* Mutant: the idle test is missing; every tick only checks.
LoopDecideNeverStop ==
  /\ loop = "decide"
  /\ loop' = "wait"
  /\ UNCHANGED <<started, ticker, tick, cb, unregs, closed, closeCalled, age>>

\* lastActive is read outside the lock: idle for idleTimeout goes on to
\* stop, otherwise CheckOutbounds(false) and back to the select.
LoopDecide ==
  /\ loop = "decide"
  /\ loop' = IF age = "idle" THEN "stop" ELSE "wait"
  /\ UNCHANGED <<started, ticker, tick, cb, unregs, closed, closeCalled, age>>

\* Mutant: the ticker is stopped but h.ticker is not reset to nil.
LoopStopKeepTicker ==
  /\ loop = "stop"
  /\ ticker' = "stopped"
  /\ tick' = FALSE
  /\ unregs' = unregs + 1
  /\ cb' = "none"
  /\ loop' = "none"
  /\ UNCHANGED <<started, closed, closeCalled, age>>

\* Under the lock: Stop, ticker = nil, unregister, pauseCallback = nil;
\* the goroutine returns.
LoopStop ==
  /\ loop = "stop"
  /\ ticker' = "nil"
  /\ tick' = FALSE
  /\ unregs' = unregs + 1
  /\ cb' = "none"
  /\ loop' = "none"
  /\ UNCHANGED <<started, closed, closeCalled, age>>

-----------------------------------------------------------------------------
(* Time.                                                                   *)

\* The running ticker delivers a tick (ticker.C holds one).
TickerFire ==
  /\ ticker = "running"
  /\ ~tick
  /\ tick' = TRUE
  /\ UNCHANGED <<started, ticker, cb, unregs, closed, closeCalled, age, loop>>

\* Time passes over lastActive.
AgeStep ==
  /\ age # "idle"
  /\ age' = IF age = "fresh" THEN "interval" ELSE "idle"
  /\ UNCHANGED <<started, ticker, tick, cb, unregs, closed, closeCalled, loop>>

Init ==
  /\ started = FALSE
  /\ ticker = "nil"
  /\ tick = FALSE
  /\ cb = "none"
  /\ unregs = 0
  /\ closed = FALSE
  /\ closeCalled = FALSE
  /\ age = "fresh"
  /\ loop = "none"

Next ==
  \/ PostStart \/ Touch \/ Close
  \/ LoopInit \/ LoopClosed \/ LoopTick \/ LoopDecide \/ LoopStop
  \/ TickerFire \/ AgeStep

\* The loopCheck goroutine runs, the ticker fires and time passes; dials
\* (Touch) and Close are up to the group's users.
Fairness ==
  /\ WF_vars(LoopInit) /\ WF_vars(LoopClosed) /\ WF_vars(LoopTick)
  /\ WF_vars(LoopDecide) /\ WF_vars(LoopStop)
  /\ WF_vars(TickerFire) /\ WF_vars(AgeStep)

Spec == Init /\ [][Next]_vars /\ Fairness

-----------------------------------------------------------------------------
(* Properties.                                                             *)

\* Touch starts a loopCheck only when h.ticker is nil, and only loopCheck's
\* idle stop (or Close) ever ends one: until h.close is closed, the checker
\* holds a ticker exactly when a loopCheck goroutine runs for it, and its
\* pause callback is registered exactly then.  If the idle stop left
\* h.ticker set, or a Touch installed a ticker beside a live loop, the
\* group would go unprobed while in use, or probe twice per interval.
LoopOwnsTicker ==
  ~closed =>
    /\ (ticker # "nil") <=> (loop # "none")
    /\ (cb = "registered") <=> (ticker # "nil")

\* Self-quiescing ticker: a group left idle for idleTimeout eventually
\* releases its ticker's pause registration (loopCheck's idle stop), unless
\* it was closed or is used again.
QuiescesWhenIdle ==
  (age = "idle") ~> (cb = "none" \/ closed \/ age # "idle")

\* Close releases the checker for good (spec 4.2 close(): stop the ticker,
\* unregister the pause callback, signal the loop to exit; design notes:
\* guard against double-stop and double-unregister): once h.close is
\* closed and no loopCheck goroutine is left, no ticker runs and the
\* current pause registration has been released.  A Close between
\* loopCheck's idle test and its locked stop lets the stop set the ticker
\* to nil (unregistering a second time), after which a Touch installs a
\* ticker and a registration whose loopCheck exits at once on h.close.
ReleasedAfterClose ==
  (closed /\ loop = "none") =>
    /\ ticker # "running"
    /\ cb = "registered" => unregs > 0

=============================================================================
