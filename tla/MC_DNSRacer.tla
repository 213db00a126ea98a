----------------------------- MODULE MC_DNSRacer -----------------------------
(* Model-checking instance of DNSRacer; the transports and bounds are      *)
(* given in the .cfg file of the run.                                      *)
EXTENDS DNSRacer

\* Two hedged rules: grace shorter than the fallback timeout (the fallback
\* task is the last to time out), and grace longer than it (the primaries
\* are).
MCTimings ==
  { [ut |-> 2, ft |-> 2, grace |-> 1],
    [ut |-> 1, ft |-> 1, grace |-> 2] }

=============================================================================
