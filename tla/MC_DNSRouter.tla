---------------------------- MODULE MC_DNSRouter ----------------------------
EXTENDS DNSRouter

\* A rule's fields with their defaults.
Base ==
  [act |-> "route", al |-> FALSE, match |-> TRUE, tr |-> "one", fb |-> "none",
   ut |-> FALSE, dc |-> FALSE, drop |-> FALSE, ans |-> "addrs"]

\* One rule of each shape Exchange tells apart: an address-limited Route
\* with disableCache, a hedged Route with two transports, an
\* address-limited Route that does not match, a Route whose servers all
\* drop out, an address-limited Route with a fake-IP transport beside a
\* real one (either may win), a Route whose fallback is fake-IP, RouteOptions with disableCache, Reject
\* (default and, address-limited, drop) and an address-limited Predefined.
MCExchangeKinds ==
  { [Base EXCEPT !.al = TRUE, !.dc = TRUE],
    [Base EXCEPT !.tr = "two", !.fb = "real", !.ut = TRUE],
    [Base EXCEPT !.al = TRUE, !.match = FALSE],
    [Base EXCEPT !.tr = "none"],
    [Base EXCEPT !.al = TRUE, !.tr = "mixed"],
    [Base EXCEPT !.fb = "fake", !.ut = TRUE],
    [Base EXCEPT !.act = "routeOptions", !.dc = TRUE],
    [Base EXCEPT !.act = "reject"],
    [Base EXCEPT !.act = "reject", !.al = TRUE, !.drop = TRUE],
    [Base EXCEPT !.act = "predefined", !.al = TRUE] }

\* Lookup: an address-limited Route, a plain Route, a fake-IP-only Route
\* (dropped by Lookup), a Route whose fake-IP fallback Lookup drops, RouteOptions, Reject, and Predefined rules with
\* addresses, without, and with a non-success rcode.
MCLookupKinds ==
  { [Base EXCEPT !.al = TRUE, !.dc = TRUE],
    [Base EXCEPT !.tr = "two", !.fb = "real", !.ut = TRUE],
    [Base EXCEPT !.tr = "fake"],
    [Base EXCEPT !.fb = "fake", !.ut = TRUE],
    [Base EXCEPT !.act = "routeOptions", !.dc = TRUE],
    [Base EXCEPT !.act = "reject"],
    [Base EXCEPT !.act = "predefined"],
    [Base EXCEPT !.act = "predefined", !.ans = "noaddrs"],
    [Base EXCEPT !.act = "predefined", !.ans = "rcode"] }

\* The kinds each handler is checked over.
MCRuleKinds ==
  [m \in {"exchange", "lookup"} |->
     IF m = "exchange" THEN MCExchangeKinds ELSE MCLookupKinds]

=============================================================================
