------------------------------ MODULE DNSRouter ------------------------------
(***************************************************************************)
(* Router.Exchange and Router.Lookup (src/dns/router.go) over matchDNS:    *)
(* the malformed-question and pinned-transport paths, the rule loop, the   *)
(* options each race runs with, and what the call returns.                 *)
(*                                                                         *)
(* A rule is abstracted to the fields the loop tells apart: its action,    *)
(* whether it carries an address limit and matches the query; for a Route *)
(* the primary transports it resolves to ("none", "one", "two", "fake":    *)
(* fake-IP only, "mixed": one real and one fake-IP), its fallback        *)
(* transports ("none", "real", "fake": fake-IP only) and its own upstream  *)
(* timeout; the disableCache of a Route or RouteOptions; the method of a   *)
(* Reject; the answer of a Predefined.  Of the query options only          *)
(* disableCache is kept: it is the one the router itself derives.  The    *)
(* race a rule starts (DNSRacer) is abstracted to its outcome class,       *)
(* chosen when it runs.  Indices are the code's: 0-based, -1 for "no      *)
(* rule".                                                                  *)
(***************************************************************************)
EXTENDS Integers, Sequences, TLC

CONSTANTS
  NRules,          \* length of the rule list
  RuleKinds,       \* RuleKinds[m]: the rules a list is built from, per call
  Modes,           \* the handlers: "exchange" (Exchange), "lookup" (Lookup)
  ReverseMapping   \* options.ReverseMapping (r.dnsReverseMapping != nil)

ASSUME NRules \in Nat
ASSUME Modes \subseteq {"exchange", "lookup"}
ASSUME ReverseMapping \in BOOLEAN

Rules ==
  [act : {"route", "routeOptions", "reject", "predefined"},
   al : BOOLEAN, match : BOOLEAN,
   tr : {"none", "one", "two", "fake", "mixed"}, fb : {"none", "real", "fake"},
   ut : BOOLEAN,
   dc : BOOLEAN, drop : BOOLEAN, ans : {"addrs", "noaddrs", "rcode"}]

ASSUME \A m \in Modes : RuleKinds[m] \subseteq Rules

VARIABLES
  mode,        \* the handler the call runs, fixed for the call
  rules,       \* r.rules
  hasDefault,  \* r.transport.Default() != nil
  addrQuery,   \* isAddressQuery(message) (Lookup: always)
  routerUT,    \* r.upstreamTimeout > 0
  indep,       \* the client's independentCache
  callerDC,    \* the caller's options.DisableCache
  entry,       \* how the call enters (Entries)
  pc,          \* "badQuestion", "pinned", "match", "race" or "done"
  ruleIndex,   \* the loop's ruleIndex
  rule,        \* what matchDNS returned: [kind, idx, dc]
  races,       \* the races started, in order: [idx, how, pdc, fdc, out, fake]
  result,      \* what the call returns: [kind, idx, out]
  err,         \* Lookup's err variable: "nil" or an error class
  mapped       \* Exchange wrote answers into the reverse mapping

vars == <<mode, rules, hasDefault, addrQuery, routerUT, indep, callerDC, entry,
          pc, ruleIndex, rule, races, result, err, mapped>>

\* Outcome classes of a race: exchange, a response with or without answer
\* records or an error; lookup, addresses (the racers turn an empty list
\* into an error) or an error.  "rejected" stands for both
\* ErrResponseRejected and ErrResponseRejectedCached, which the router
\* treats alike (errors.Is on either).
Outcomes ==
  IF mode = "exchange"
    THEN {"answer", "noanswer", "rejected", "error"}
    ELSE {"addrs", "rejected", "error"}

Indices == 0..(NRules - 1)

\* Bound on the races of one call: once per rule and once past the end, as
\* many as a loop that always moves to a later rule can start.
MaxRaces == NRules + 1

\* How a call enters: a message without exactly one question (Exchange
\* only), options.Transport set, or the rules.
Entries ==
  IF mode = "exchange" THEN {"badQuestion", "pinned", "rules"}
                       ELSE {"pinned", "rules"}

-----------------------------------------------------------------------------
(* matchDNS.                                                               *)

\* Exchange calls matchDNS with allowFakeIP true, Lookup with false.
AllowFakeIP == mode = "exchange"

\* hasFakeIP: a primary or fallback server is a fake-IP transport, whether
\* or not it is dropped.
HasFakeIP(r) == r.tr \in {"fake", "mixed"} \/ r.fb = "fake"

\* The primary transports a Route resolves to once fake-IP transports are
\* dropped when not allowed.
Resolved(r) ==
  CASE r.tr = "none"  -> 0
    [] r.tr = "one"   -> 1
    [] r.tr = "two"   -> 2
    [] r.tr = "fake"  -> IF AllowFakeIP THEN 1 ELSE 0
    [] r.tr = "mixed" -> IF AllowFakeIP THEN 2 ELSE 1

\* The fallback transports left once fake-IP ones are dropped.
HasFallback(r) == r.fb = "real" \/ (r.fb = "fake" /\ AllowFakeIP)

\* An address-limit rule is skipped for a non-address query; then Match.
Applies(r) == (r.al => addrQuery) /\ r.match

\* Walk the rules from index i with the options dc: RouteOptions merges
\* disableCache and goes on, a Route left without transports is skipped,
\* a Route merges disableCache (forced by a fake-IP transport) and stops,
\* Reject and Predefined stop; past the end, the default transport (rule
\* nil, index -1), or none.
RECURSIVE MatchFrom(_, _)
MatchFrom(i, dc) ==
  IF i >= NRules
    THEN [kind |-> IF hasDefault THEN "default" ELSE "none", idx |-> -1, dc |-> dc]
    ELSE LET r == rules[i]
         IN  CASE ~Applies(r) \/ (r.act = "route" /\ Resolved(r) = 0) ->
                    MatchFrom(i + 1, dc)
               [] r.act = "routeOptions" -> MatchFrom(i + 1, dc \/ r.dc)
               [] r.act = "route" ->
                    [kind |-> "route", idx |-> i, dc |-> dc \/ HasFakeIP(r) \/ r.dc]
               [] OTHER -> [kind |-> r.act, idx |-> i, dc |-> dc]

\* Mutant: the walk restarts at the rule that was just raced.
MatchDNSSameIndex(ri, dc) == MatchFrom(IF ri # -1 THEN ri ELSE 0, dc)

MatchDNS(ri, dc) == MatchFrom(IF ri # -1 THEN ri + 1 ELSE 0, dc)

\* withAddressLimit := rule != nil && rule.WithAddressLimit()
WithAddressLimit(m) == m.kind = "route" /\ rules[m.idx].al

-----------------------------------------------------------------------------
(* Starting a race.                                                        *)

\* The matched upstreamTimeout (the rule's, else the router's) is > 0; the
\* rule has fallback transports; the number of primary transports.
UT(m) == IF m.kind = "route" THEN rules[m.idx].ut \/ routerUT ELSE routerUT
FB(m) == m.kind = "route" /\ HasFallback(rules[m.idx])
NPrimary(m) ==
  CASE m.kind = "route"   -> Resolved(rules[m.idx])
    [] m.kind = "default" -> 1
    [] OTHER              -> 0

\* primaryOptions and fallbackOptions copied from dnsOptions, disableCache
\* forced against cache pollution when the cache is shared (len(transports)
\* > 1; a fallback set with upstreamTimeout > 0), then the dispatch: hedged
\* racer, plain racer under an upstreamTimeout context, plain racer.
Launch(m) ==
  [idx |-> m.idx,
   how |-> IF UT(m) /\ FB(m) THEN "hedged" ELSE IF UT(m) THEN "timed" ELSE "plain",
   pdc |-> m.dc \/ (~indep /\ NPrimary(m) > 1),
   fdc |-> m.dc \/ (~indep /\ UT(m) /\ FB(m))]

\* The outcomes the race can have: the empty race (no rule, no default)
\* returns ErrResponseRejectedCached (exchangeRacer: allRejectedOnly starts
\* true) or no error and no address (lookupRacer: E.Errors() of nothing).
RaceOutcomes(m) ==
  IF m.kind = "none"
    THEN IF mode = "exchange" THEN {"rejected"} ELSE {"empty"}
    ELSE Outcomes

\* Whether the winning transport is a fake-IP one: a primary, or a
\* fallback when the hedged racer runs.
WinnerFake(m) ==
  LET r       == rules[m.idx]
      primary == CASE r.tr = "fake"  -> {TRUE}
                   [] r.tr = "mixed" -> BOOLEAN
                   [] OTHER          -> {FALSE}
  IN  IF mode = "lookup" \/ m.kind # "route" THEN {FALSE}
      ELSE IF UT(m) /\ FB(m) /\ r.fb = "fake" THEN primary \cup {TRUE}
      ELSE primary

\* Mutant: a rejection moves on to the next rule without an address limit.
RetryIgnoresLimit(m, o) ==
  IF mode = "exchange" THEN o = "rejected" ELSE o \notin {"addrs", "empty"}

\* The loop goes on to a later rule: Exchange after a rejection under an
\* address limit; Lookup after any error under an address limit.
Retry(m, o) ==
  /\ WithAddressLimit(m)
  /\ IF mode = "exchange" THEN o = "rejected" ELSE o # "addrs"

\* Lookup's printResult on the final err: no error and no address is the
\* "empty result" error.
PrintResult(e) == IF e = "empty" THEN "emptyResult" ELSE e

\* Exchange's tail: a response with answers from a transport that is not
\* fake-IP is written into the reverse mapping.
MapsAnswer(o, fake) == ReverseMapping /\ o = "answer" /\ ~fake

-----------------------------------------------------------------------------
(* The handlers.                                                           *)

\* Exchange: a message without exactly one question gets FORMERR back.
BadQuestion ==
  /\ pc = "badQuestion"
  /\ pc' = "done"
  /\ result' = [kind |-> "formerr", idx |-> -1, out |-> "none"]
  /\ UNCHANGED <<mode, rules, hasDefault, addrQuery, routerUT, indep, callerDC, entry,
                 ruleIndex, rule, races, err, mapped>>

\* options.Transport set: one client call with the caller's options, under
\* an upstreamTimeout context when it is > 0; then the handler's tail.
Pinned ==
  \E o \in (IF mode = "exchange" THEN {"answer", "noanswer", "error"}
                                 ELSE {"addrs", "empty", "error"}),
     fake \in (IF mode = "exchange" THEN BOOLEAN ELSE {FALSE}) :
    /\ pc = "pinned"
    /\ pc' = "done"
    /\ races' = Append(races, [idx |-> -1, how |-> IF routerUT THEN "timed" ELSE "plain",
                               pdc |-> callerDC, fdc |-> callerDC, out |-> o, fake |-> fake])
    /\ result' = [kind |-> "pinned", idx |-> -1, out |-> o]
    /\ err' = IF mode = "lookup" /\ o # "addrs" THEN PrintResult(o) ELSE err
    /\ mapped' = (mode = "exchange" /\ MapsAnswer(o, fake))
    /\ UNCHANGED <<mode, rules, hasDefault, addrQuery, routerUT, indep, callerDC, entry,
                   ruleIndex, rule>>

\* Mutant: dnsOptions is carried over from the previous iteration.
MatchKeepOptions ==
  LET m == MatchDNS(ruleIndex, rule.dc)
  IN  /\ pc = "match"
      /\ rule' = m
      /\ ruleIndex' = m.idx
      /\ pc' = IF m.kind \in {"reject", "predefined"} THEN "done" ELSE "race"
      /\ UNCHANGED <<mode, rules, hasDefault, addrQuery, routerUT, indep, callerDC, entry,
                     races, result, err, mapped>>

\* An iteration starts from a copy of the caller's options; matchDNS.
\* Reject returns Refused or ErrDrop (Exchange), a RejectedError (Lookup).
\* Predefined returns its response (Exchange); Lookup sets err only for a
\* non-success rcode, so an err left by an earlier iteration stays, and
\* printResult turns no error and no address into "empty result".
Match ==
  LET m == MatchDNS(ruleIndex, callerDC)
      a == IF m.kind = "predefined" THEN rules[m.idx].ans ELSE "addrs"
  IN  /\ pc = "match"
      /\ rule' = m
      /\ ruleIndex' = m.idx
      /\ IF m.kind \in {"reject", "predefined"}
           THEN /\ pc' = "done"
                /\ result' = [kind |-> m.kind, idx |-> m.idx,
                              out |-> CASE m.kind = "predefined" -> "none"
                                        [] mode = "lookup"       -> "rejectedError"
                                        [] rules[m.idx].drop     -> "dropped"
                                        [] OTHER                 -> "refused"]
                /\ err' = CASE mode = "exchange"  -> err
                            [] m.kind = "reject"  -> "rejectedError"
                            [] a = "rcode"        -> "rcodeError"
                            [] a = "noaddrs" /\ err = "nil" -> "emptyResult"
                            [] OTHER              -> err
           ELSE /\ pc' = "race"
                /\ UNCHANGED <<result, err>>
      /\ UNCHANGED <<mode, rules, hasDefault, addrQuery, routerUT, indep, callerDC, entry,
                     races, mapped>>

\* The racer runs with the derived options; the loop continues (Lookup's
\* printResult runs on the error) or breaks into the handler's tail.
Race ==
  \E o \in RaceOutcomes(rule), fake \in WinnerFake(rule) :
    /\ pc = "race"
    /\ Len(races) < MaxRaces
    /\ races' = Append(races, Launch(rule) @@ [out |-> o, fake |-> fake])
    /\ IF Retry(rule, o)
         THEN /\ pc' = "match"
              /\ err' = IF mode = "lookup" THEN o ELSE err
              /\ UNCHANGED <<result, mapped>>
         ELSE /\ pc' = "done"
              /\ result' = [kind |-> rule.kind, idx |-> rule.idx, out |-> o]
              /\ err' = IF mode = "lookup"
                          THEN IF o = "addrs" THEN "nil" ELSE PrintResult(o)
                          ELSE err
              /\ mapped' = (mode = "exchange" /\ MapsAnswer(o, fake))
    /\ UNCHANGED <<mode, rules, hasDefault, addrQuery, routerUT, indep, callerDC, entry,
                   ruleIndex, rule>>

Init ==
  /\ mode \in Modes
  /\ rules \in [Indices -> RuleKinds[mode]]
  /\ hasDefault \in BOOLEAN
  /\ addrQuery \in IF mode = "lookup" THEN {TRUE} ELSE BOOLEAN
  /\ routerUT \in BOOLEAN
  /\ indep \in BOOLEAN
  /\ callerDC \in BOOLEAN
  /\ entry \in Entries
  /\ pc = IF entry = "rules" THEN "match" ELSE entry
  /\ ruleIndex = -1
  /\ rule = [kind |-> "none", idx |-> -1, dc |-> callerDC]
  /\ races = << >>
  /\ result = [kind |-> "none", idx |-> -1, out |-> "none"]
  /\ err = "nil"
  /\ mapped = FALSE

Next == BadQuestion \/ Pinned \/ Match \/ Race

\* The handlers are sequential code in the caller's goroutine.
Spec == Init /\ [][Next]_vars /\ WF_vars(Next)

-----------------------------------------------------------------------------
(* The specification's routing (spec 4.7 and 4.8), as a reference.          *)

\* The outcome of the race the call ran for rule i (-1: the default
\* transport or the empty race), "unraced" if it ran none.
ResOf(i) ==
  LET ks == {k \in DOMAIN races : races[k].idx = i}
  IN  IF ks = {} THEN "unraced"
      ELSE races[CHOOSE k \in ks : \A k2 \in ks : k2 <= k].out

\* Walk the rules in order.  A rule applies unless it is an address-limit
\* rule for a non-address query, does not match, is a Route without
\* resolved transports, or is RouteOptions.  Reject and Predefined answer;
\* a Route answers with its race unless it has an address limit and the
\* result is rejected, in which case the walk goes on.  Past the last rule
\* the default transport is raced (with none, the empty race).
RECURSIVE SpecRoute(_)
SpecRoute(i) ==
  IF i >= NRules
    THEN [kind |-> IF hasDefault THEN "default" ELSE "none", idx |-> -1, out |-> ResOf(-1)]
    ELSE LET r == rules[i]
             applies == /\ r.al => addrQuery
                        /\ r.match
                        /\ r.act \notin {"routeOptions"}
                        /\ r.act = "route" => Resolved(r) > 0
         IN  CASE ~applies -> SpecRoute(i + 1)
               [] r.act = "reject" ->
                    [kind |-> "reject", idx |-> i,
                     out |-> IF mode = "lookup" THEN "rejectedError"
                             ELSE IF r.drop THEN "dropped" ELSE "refused"]
               [] r.act = "predefined" -> [kind |-> "predefined", idx |-> i, out |-> "none"]
               [] r.al /\ ResOf(i) = "rejected" -> SpecRoute(i + 1)
               [] OTHER -> [kind |-> "route", idx |-> i, out |-> ResOf(i)]

\* Exchange's preconditions and the pinned transport come before the rules.
SpecResult ==
  CASE entry = "badQuestion" -> [kind |-> "formerr", idx |-> -1, out |-> "none"]
    [] entry = "pinned"      -> [kind |-> "pinned", idx |-> -1, out |-> ResOf(-1)]
    [] OTHER                 -> SpecRoute(0)

\* The reverse mapping is written on a successful exchange whose selected
\* transport is not fake-IP.
SpecMapped ==
  ReverseMapping /\ result.out = "answer" /\ ~races[Len(races)].fake

\* The options and the dispatch of the k-th race: a copy of the caller's
\* options, widened by the RouteOptions rules that applied since the rule
\* raced before it and by the Route itself (its disableCache, or a fake-IP
\* transport); the cache-pollution guard when the cache is shared; the
\* hedged racer when upstreamTimeout > 0 and fallbacks exist, else the
\* plain racer, under upstreamTimeout when it is > 0.
SpecLaunch(k) ==
  LET i  == races[k].idx
      lo == IF k = 1 THEN 0 ELSE races[k - 1].idx + 1
      hi == IF i = -1 THEN NRules - 1 ELSE i
      ut == routerUT \/ (i # -1 /\ rules[i].ut)
      fb == i # -1 /\ (rules[i].fb = "real" \/ (rules[i].fb = "fake" /\ mode = "exchange"))
      n  == IF i = -1 THEN IF hasDefault THEN 1 ELSE 0 ELSE Resolved(rules[i])
      dc == \/ callerDC
            \/ \E j \in lo..hi : /\ Applies(rules[j])
                                 /\ rules[j].act = "routeOptions"
                                 /\ rules[j].dc
            \/ i # -1 /\ (rules[i].dc \/ HasFakeIP(rules[i]))
  IN  IF entry = "pinned"
        THEN [how |-> IF routerUT THEN "timed" ELSE "plain",
              pdc |-> callerDC, fdc |-> callerDC]
        ELSE [how |-> IF ut /\ fb THEN "hedged" ELSE IF ut THEN "timed" ELSE "plain",
              pdc |-> dc \/ (~indep /\ n > 1),
              fdc |-> dc \/ (~indep /\ ut /\ fb)]

-----------------------------------------------------------------------------
(* Properties.                                                             *)

\* The handler, with matchDNS resuming after the rule just raced, returns
\* what the specification's walk over the rule list returns (the same rule
\* or default and the same outcome, or FORMERR, or the pinned transport's
\* answer), and Exchange writes the reverse mapping exactly for an answer
\* of a transport that is not fake-IP; for every rule list, every race
\* outcome and every kind of query.
RoutesAsSpecified ==
  pc = "done" =>
    /\ result = SpecResult
    /\ mode = "exchange" => mapped = SpecMapped

\* Exchange routes as the specification walks (RoutesAsSpecified for the
\* Exchange handler; Lookup's retry departs from the walk, router.go:583).
ExchangeRoutesAsSpecified ==
  mode = "exchange" => RoutesAsSpecified

\* Every race of a call, first or after a rejection, runs with the options
\* the specification derives for it (router.go: dnsOptions := options at
\* the top of each iteration, matchDNS's merges, the cache-pollution guard,
\* the dispatch): a RouteOptions or Route merge of an earlier iteration
\* never leaks into a later rule's race, and disableCache is only widened.
RaceOptionsAsSpecified ==
  \A k \in DOMAIN races :
    [f \in {"how", "pdc", "fdc"} |-> races[k][f]] = SpecLaunch(k)

\* A Lookup that ends at a Predefined rule returns what that rule defines:
\* its addresses, its rcode as RcodeError, or the empty-result error when
\* it has no address record, whatever the races before it returned.
PredefinedAnswered ==
  pc = "done" /\ result.kind = "predefined" /\ mode = "lookup" =>
    err = CASE rules[result.idx].ans = "rcode"   -> "rcodeError"
            [] rules[result.idx].ans = "noaddrs" -> "emptyResult"
            [] OTHER                             -> "nil"

\* Every query leaves the rule loop: a retry always moves to a later rule.
LoopTerminates == <>(pc = "done")

=============================================================================
