# TLA+ models of radio-box

This directory holds TLA+ models of the concurrent parts of radio-box, checked with TLC:

- the DNS router's racers (`src/dns/router.go`);
- the health checker (`src/protocol/group/healthcheck.go`);
- the Fallback and LoadBalance outbound groups (`src/protocol/group/fallback.go`, `load_balance.go`).

`PROJECT.json` lists:

- every component and whether it is modelled;
- the TLC runs;
- the mutants that show each checked property can fail;
- the map from each definition to the source lines it translates;
- the findings;
- the hazards that are hard to test.

## 1. Inventory of the system

| Part | State | Operations | Hard behaviour | What makes it correct |
|---|---|---|---|---|
| C1 URL-test history (outside `src/`) | tag → {time, delay} | Load, Store, Delete | concurrent probes and dials write the same entry | readers see an entry only if the last probe/dial of it succeeded |
| C2 health checker | `checking` flag, ticker, `lastActive`, `started` | PostStart, Touch, loopCheck, Close, CheckOutbounds/urlTest | single-flight rounds; probe goroutines; onUpdate before the flag clears; idle stop done as check-then-act | a round probes every stale member; onUpdate sees a settled round; forced checks are not lost for good |
| C3 interrupt group (outside `src/`) | tracked connections, external flag | NewConn, Interrupt(alsoExternal) | registration races with interrupt | after a switch no interruptible connection uses the old outbound |
| C4 Fallback group | `selectedOutboundTCP/UDP` | DialContext, ListenPacket, storeSelected, performUpdateCheck, Select, Now | concurrent dials, probe rounds and callbacks interleave; atomic Swap but non-atomic Swap+NewConn | recovery to the primary; interrupt on every switch; one forced check per call |
| C5 LoadBalance group | RR counter, sticky cache, `lastSelected` | DialContext, ListenPacket, candidates, selectOutbound | excluded-set retry loop; sticky delete/store race; one forced check per call | the loop terminates; it never re-dials an excluded member |
| C6 DNS client (outside `src/`) | cache | Exchange, Lookup | results arrive at any time or on context expiry | — |
| C7 rule matcher and rule loop | rule index, options | matchDNS, Exchange/Lookup loop | retry on rejection and address limit | the next rule is tried only when the spec says so |
| C8 racers | per-task goroutines, `fallbackStart`, `returned`, collector flags | exchange/lookup × hedged/plain | timer vs cancellation; random `select`; goroutines sending after return | first winning answer; correct error classification; deadline; no leaked goroutine |
| C9 reverse-mapping LRU | LRU | store on answer, lookup | fake-IP answers must not be stored | only real answers are written (`ExchangeRoutesAsSpecified`) |
| EDNS0 client subnet | the message's OPT record | setClientSubnet, ExtractClientSubnet | record order in the additional section; clone vs shallow copy | one OPT record with one subnet option of the prefix's family and length; the masked prefix reads back |

How the parts interact:

- **DNS path:** C7 picks transports for a query. C8 runs the race over them, calling C6 for each transport.
- **Outbound path:** C4 and C5 read and prune C1.
  - C2 refills C1 and calls C4's `performUpdateCheck` after each round.
  - C4 and C5 start forced rounds of C2 after failed dials.
  - C3 closes the connections of a group when its selection changes.

## 2. Plan

Module order, most important first:

1. `DNSRaceSpec` is the abstract promise of a racer:
   - results are taken one at a time;
   - it returns once;
   - a win returns at once;
   - otherwise it returns the first retainable result or the classified error.
2. `DNSRacer` (done) is the four racer functions over a discrete clock. `RaceRefinement` checks that it implements `DNSRaceSpec`.
3. `HealthCheck` (done) is the probe round, shared by both groups.
4. `FallbackGroup` (done) extends `HealthCheck` with concurrent dialers and `performUpdateCheck`.
5. `LoadBalance` (done) extends `HealthCheck`. It adds the excluded-set loop, round-robin, the sticky cache and rendezvous with an abstract score.
6. `HealthTicker` (done) is the Touch/loopCheck/Close lifecycle and the idle stop.
7. `DNSRouter` (done) is the rule loop of Exchange/Lookup over matchDNS and the racer's outcome. `RoutesAsSpecified` checks it against a recursive reading of the specification's rule walk.
8. `EDNS0Subnet` (done) is `setClientSubnet` and `ExtractClientSubnet` as operators, checked over bounded prefixes and messages. Two runs were retired to make room within the limit of twelve: the plain exchange racer and the UDP variant of Fallback recovery (see §6).

## 3. Modules and their correspondence to the code

**`DNSRacer`**

The variables are:

| Variable | Models |
|---|---|
| `task[t]` | the goroutine of transport `t`: waiting for `fallbackStart`, querying, sending on `results`, or gone |
| `timer` | the `fallbackStart` goroutine |
| `coll` | the collector loop |
| `cur`, `got`, `hasFb`, `fbVal`, `allRej`, `allRejOnly`, `nErrs` | the collector's locals |
| `callerCancelled`, `queryCancelled` | the two cancellations |
| `now` | discrete time |
| `recv` | a history variable: the results received so far, in order |

Contexts are predicates over this state (`ParentDone`, `QueryDone`, `CtxDone(t)`), not variables.

The actions are:

- `Answer`: a client result.
- `Expire`: the client returns the context error.
- `TimerClose`.
- `FallbackBegin` / `FallbackAbort`: the select on `fallbackStart` plus the `queryCtx.Err()` re-check.
- `Receive` and `Decide`: one iteration of the collector loop.
- `CollectorCtxDone`: the `ctx.Done()` case.
- `Drop`: the `<-returned` case of a send.
- `Tick`: advances time only when no goroutine can act without waiting (`~ENABLED Urgent`). Deadlines therefore fire at their instant.

`mode` (exchange or lookup bookkeeping) and `timing` (upstream timeout, fallback timeout, fallback grace) are variables chosen in `Init` and never changed, as a configuration is fixed for a call. One run therefore covers both racers and both orders of grace and fallback timeout. The refinement passes `mode` to `DNSRaceSpec`, which holds it as a variable for the same reason. An empty `Fallback` set is the plain racer, and the upstream timeout then wraps the caller's ctx, as `Exchange` and `Lookup` do. No current run uses an empty `Fallback`; see §6.

**`HealthCheck`**

- `history[o]` is none, fresh or stale.
- `up[o]` says whether a probe or dial of `o` would succeed now.
- `checking` is the single-flight flag, and `round` is the one round it allows.
- `TickRound` is `CheckOutbounds(false)` from PostStart or the ticker.
- `ForcedAttempt` is a spawned `CheckOutbounds(true)`.
- `Probe` is one batch job.
- `ProbesDone` is `b.Wait()`.
- `EndRound` is the deferred `checking.Store(false)`. It runs after the group's onUpdate steps.
- `Age` and `Flip` are the environment: time passing interval, and outbounds failing or recovering.

**`FallbackGroup`**

- Each dialer is one `DialContext`/`ListenPacket` call, split at the points where other goroutines can interleave:
  - `DialStart`: the candidates and the history snapshot;
  - `DialSuccess`: the dial plus `storeSelected`;
  - `DialFailure`: the dial fails, then delete and spawn;
  - `Register`: `interruptGroup.NewConn`.
- `UpdRead`, `UpdStore` and `UpdFinish` split `performUpdateCheck` the same way: the Select/Load, the Store per network, then the final Interrupt.
- `conns` is the interrupt group. It is modelled from the specification, because `interrupt.Group` is not under `src/`.

**`HealthTicker`**

- `started`, `ticker` (nil, running or stopped), `cb` (the pause callback) and `closed` (the `h.close` channel) are the checker's fields. `tick` is a tick waiting in `ticker.C`.
- `age` abstracts `time.Since(lastActive)` to fresh, older than `interval`, or older than `idleTimeout`.
- `unregs` counts `UnregisterCallback` calls on the current registration.
- `Touch` and `Close` are one step each, because each runs under `h.access`.
- `loopCheck` is split into the following steps:
  - `LoopInit`: the first check;
  - `LoopClosed` / `LoopTick`: the two cases of the select;
  - `LoopDecide`: the idle test, which runs outside the lock;
  - `LoopStop`: the stop, taken under the lock.
- `StaleTick` covers Go runtimes before 1.23, where a tick buffered before `Stop` can still be received. No Go version is pinned, so the pass run allows stale ticks. The violation run shows the race without them.
- Close is called once, by the outbound manager. Touch is not ordered with it: a dial that is still in flight, or a caller holding the outbound, calls Touch after Close.

**`DNSRouter`**

- `rules` is the rule list, fixed in `Init` among all lists of `NRules` rules from `RuleKinds`. A rule keeps the fields the loop tells apart: its action (Route, RouteOptions, Reject, Predefined), address limit, whether it matches, the primary transports matchDNS resolves it to (none, one, two, fake-IP only, one real and one fake-IP), its fallback transports (none, a real one, or a fake-IP one, which Lookup drops and which sets disableCache as a fake-IP primary does) and its own upstream timeout, its disableCache, the Reject method and the Predefined answer.
- `mode` (Exchange or Lookup) is a variable chosen in `Init` and never changed, so one run covers both handlers; `RuleKinds[mode]` gives the rule shapes for each.
- The other configuration is chosen in `Init` too: a default transport, an address query, the router's upstream timeout, an independent cache, the caller's disableCache, and the entry (bad question, a pinned transport in the context, or the rule loop).
- `MatchFrom` / `MatchDNS` are matchDNS: a recursive walk from the index after the last raced rule. RouteOptions merges its disableCache and goes on; a Route whose transports all drop out (fake-IP in Lookup) is skipped.
- `BadQuestion` and `Pinned` are Exchange's early exits and the pinned-transport branch of both calls.
- `Match` is one loop iteration up to the Reject and Predefined returns. In Lookup it keeps `err` from the previous iteration, as the code does.
- `Race` is the options copy, the cache-pollution overrides, the racer dispatch (hedged, timed, plain), and the break-or-continue test (`Retry`). Each race is appended to `races` with its dispatch, its disableCache flags and its outcome class, which is chosen when the race runs. The racers themselves are `DNSRacer`'s. A finished Exchange sets `mapped` when it writes the reverse mapping; a finished Lookup applies `printResult` to `err`.
- `SpecRoute`, `SpecResult`, `SpecMapped` and `SpecLaunch` are the specification's walk (§4.7, §4.8) as recursive operators over the list and the recorded races.

**`EDNS0Subnet`**

- A message is its additional section: a sequence of OPT records, each with its options, and other records.
- An address is a sequence of bits. Widths `W4` and `W6` stand for 32 and 128. The extractor pads or truncates an address of another length, as `copy` does.
- `FindExists` is the `findExists` loop, including the type assertion that resets `optRecord` to nil on a non-OPT record.
- `SetSubnet` is `setClientSubnet`, including its clone recursion. `SetClientSubnet` calls it with clone set.
- `ExtractClientSubnet` includes miekg's `IsEdns0`, which takes the last OPT record, and then takes the first subnet option of that record.
- `Stamp` and `Extract` apply the two helpers to an input chosen in `Init`.
- Messages are values, so the shallow copy is not modelled. Nothing under `src/` calls these helpers twice on one message.

**`LoadBalance`**

- Each dialer is one call of the retry loop.
  - `Begin` starts the call: an empty excluded set and `triggeredCheck` false.
  - `Pick` is one turn: `candidates` (members with history, else all members of the network), minus excluded, then `selectOutbound`. `PickRoundRobin`, `PickHashing` and `PickSticky` are its strategies.
  - `GiveUp` is the return with the last error when no candidate is left.
  - `DialOk` is success: `lastSelected` and `storeSticky`.
  - `DialFail` is failure: delete the history and the sticky entry, exclude the member, spawn a forced check if none was spawned yet, and loop.
- `rrCounter` wraps at `RRModulus`, which stands for 2^64. The runs use 2, a multiple of the candidate counts they have, so the wrap behaves as at 2^64.
- fnv1a64 is replaced by `Score`, a fixed table of scores per key. The MC table makes the destination key prefer the second member and the sticky keys tie, which exercises "first on ties".
- `StickyExpire` is ten minutes passing over an entry. `loadSticky` deletes an expired entry when it meets one. It leaves in place an entry whose outbound is not a candidate; the specification (§4.5) says to delete it. The call's own dial then stores or deletes the entry, so only a concurrent call on the same key sees the difference.
- The health checker has no onUpdate callback here (`NoUpdate`).
- `strategy` is a variable fixed in `Init` among `Strategies`, so one run covers every strategy a configuration can choose.

## 4. Runs

| Run | Bounds | Shows |
|---|---|---|
| racer_hedged | primaries {p1,p2}, fallback {f1}; exchange and lookup; (T,F,G) = (2,2,1) and (1,1,2); time ≤ 5; caller may cancel | refinement of `DNSRaceSpec`; no fallback before T; return by T+max(G,F); every goroutine ends; `TypeOK` (lookup's empty success coerced) |
| fallback_recovery | members p, b (TCP); one caller; 2 outage flips; 1 pending forced check | `RecoversToPrimary`; `TypeOK` (the try list holds each candidate once) |
| lb_strategies | members a, b; the strategy chosen at construction among all three; two concurrent TCP callers; 1 flip; counter modulus 2; sticky entries expiring | every call returns (`CallReturns`); no call redials a member it excluded, even through a sticky entry another call stored (`NeverRedialsExcluded`); `TypeOK` |
| ticker_lifecycle | one Close, unbounded Touches, stale ticks allowed | `LoopOwnsTicker`: until Close, a ticker and its pause registration exist exactly while a loopCheck goroutine runs for them; `QuiescesWhenIdle`: an idle group's ticker is stopped and unregistered unless closed or touched again |
| ticker_close_race (violation) | no stale ticks | `ReleasedAfterClose` fails |
| router_loop | Exchange and Lookup; every list of 3 rules from 10 (Exchange) or 9 (Lookup) shapes; every outcome of every race; every entry and configuration flag; at most 4 races | Exchange returns what the specification's walk returns and maps only real answers (`ExchangeRoutesAsSpecified`); every race of either handler starts with the disableCache and dispatch the specification derives (`RaceOptionsAsSpecified`); both always leave the loop |
| router_lookup_retry (violation) | Lookup, lists of 2 rules from 9 shapes | `RoutesAsSpecified` fails |
| router_lookup_predefined (violation) | the same | `PredefinedAnswered` fails |
| edns0_roundtrip | every IPv4/IPv6 prefix with address widths 2 and 3; every additional section of up to 2 records, with at most one OPT record holding up to 2 options | `RoundTrip` (spec test 8) |
| edns0_set_spec (violation) | the same inputs | `SetAsSpecified` fails |
| fallback_stale_conn (violation) | two concurrent TCP callers | `NoStaleConnection` fails |
| fallback_forced_once (violation) | one caller, both members down | `ForcedCheckOncePerCall` fails |

Why these bounds are enough:

- **Racers:** two primaries and one fallback give every ordering of a primary result, a fallback result and the timer. A clock with T, F and G at 1–2 separates "before T", "between T and T+G" and "after the fallback timeout". Two primaries and a fallback also give three results, enough for a mix of rejected, cached-rejected and other errors.
- **Router:** three rules allow two retries followed by the default, a skipped rule between two raced ones, and a RouteOptions rule before and after a raced rule. The ten exchange shapes cover every branch of matchDNS's walk and of the dispatch. `MaxRaces = NRules + 1` bounds the race history: the loop races each rule and the default at most once. The two rejection errors are one outcome class: the loop and the specification treat them alike.
- **Fallback:** two members and two flips allow primary down → backup → primary back. One caller is enough for recovery. The stale-connection race needs two callers, or one caller and a round.

**Findings.**

- `fallback_stale_conn` shows a code bug. `storeSelected` interrupts before the new connection is registered, so a connection made through the old outbound by a concurrent call survives the interrupt meant to close it (fallback.go:215).
- `ticker_close_race` shows a code bug and a divergence from the spec. loopCheck tests idleness outside the lock (healthcheck.go:131). A `Close` between that test and the locked stop means the ticker is stopped and the pause callback unregistered twice; the spec asks implementers to guard against both. The stop then sets `h.ticker` to nil on the closed checker, so a later `Touch` (a dial still in flight) installs a new ticker and registration. Its loopCheck returns at once on the closed `h.close`, and nothing releases them.
- `router_lookup_retry` shows a divergence from the spec. Lookup goes on to a later rule after any error of an address-limited rule (router.go:583), including a timeout or the caller's cancellation. The specification, and Exchange, retry only after a rejection.
- `router_lookup_predefined` shows a code bug. Lookup keeps `err` across loop iterations (router.go:519). After an address-limited race fails, a Predefined rule with a success rcode appends its addresses but leaves the old error. Lookup then returns the addresses with that error, and callers treat the lookup as failed.
- `edns0_set_spec` shows a code bug in `setClientSubnet`:
  - In `findExists`, the type assertion resets `optRecord` to nil on every non-OPT record (extension_edns0_subnet.go:21). When an OPT record without a subnet option is followed by another record, a second OPT record is therefore appended. RFC 6891 allows one; a server answers FORMERR.
  - TLC's trace is the section `<<OPT(), RR>>`: the result carries the original OPT record and a new one holding the subnet option.
  - `SetAsSpecified` does not compare the address. The code writes it unmasked (line 55), but miekg/dns masks it to the source netmask when it packs the option, so nothing unmasked reaches the wire.
  - The round trip still holds, because `ExtractClientSubnet` reads the last OPT record and masks the address.
- `fallback_forced_once` shows a divergence from the spec. The spec asks for one forced check per call, but fallback.go:221 starts one per failure.

**Mutants.** Every property of a passing run has a mutant in `PROJECT.json`: a plausible code bug defined just before the operator it replaces. TLC finds the property violated under that mutant.

- **LoadBalance:** two callers allow a call's failure to delete a history entry or a sticky entry that the other call is using. The members start up or down arbitrarily, and one flip lets a member change state while a call retries.

## 5. Fairness

- **Racer:** every goroutine step is weakly fair: the Go runtime schedules runnable goroutines, and a transport either answers or its context ends. `Tick` is weakly fair because time passes. The caller is not obliged to cancel.
- **Groups:**
  - Probe rounds, probes, the onUpdate steps and a started dial's own steps are weakly fair. For LoadBalance this includes every turn of the retry loop.
  - The ticker (`TickRound`) is weakly fair. This assumes the group is in use, so its idle stop does not fire; `HealthTicker` checks the idle stop itself.
- **Router:** the loop is sequential code, so `Next` is weakly fair. A finished call has no further step, so its runs do not check deadlock.
- **Ticker:** the loopCheck goroutine, the ticker's delivery and the passing of time are weakly fair. Touch and Close are not: they come from the group's users and the outbound manager.
  - New calls (`DialStart`, `Begin`), sticky expiry, outages (`Flip`), ageing (`Age`) and connection close are not fair: nothing in the code forces them.

## 6. Not modelled

- **The plain racer** (`Fallback = {}`) and **Fallback recovery over UDP** no longer have runs of their own. The run limit is twelve, and both were retired for the EDNS0 runs.
  - The plain racer has the same actions as the hedged one. Only the upstream-timeout wrapper of `ParentDone` is left unchecked.
  - ListenPacket is `DialStart` with `n = "udp"`, the same actions as the TCP run.
- **EDNS0 with invalid inputs:** an invalid `netip.Prefix` (`Bits()` = -1, written as netmask 255) and messages with two OPT records are outside the inputs.

- Time is abstracted to "fresh/stale" for history, and to small integers in the racers.
- The DNS messages, addresses, logging and the reverse-mapping LRU's internals are not modelled. Of the query options only disableCache is kept: strategy, client subnet, rewriteTTL and the legacy transports' fill-ins do not affect control flow in the loop.
- fnv1a64 is out of TLC's practical reach and is abstracted as a score table (`Score`).
- JSONC and the option structs have no state.
- The history store may come from the context and be shared with other groups. The models start it empty, as a fresh group-local store.
