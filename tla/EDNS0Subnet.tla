----------------------------- MODULE EDNS0Subnet -----------------------------
(***************************************************************************)
(* The EDNS0 client-subnet helpers (src/dns/extension_edns0_subnet.go):    *)
(* setClientSubnet stamps a prefix into a message, ExtractClientSubnet     *)
(* reads it back.                                                          *)
(*                                                                         *)
(* A message is its additional section: a sequence of records, each an    *)
(* OPT record with its options or another record ("RR").  An option is    *)
(* an EDNS0_SUBNET option (family, source netmask, address) or another     *)
(* option.  An address is a sequence of bits: W4 and W6 bits stand for    *)
(* the 32 and 128 of IPv4 and IPv6, and an address shorter or longer than *)
(* its family's width is what copy() pads or truncates.  Messages are     *)
(* values: a deep or a shallow copy differs only in aliasing, which no     *)
(* caller under src/ exercises.                                            *)
(***************************************************************************)
EXTENDS Naturals, Sequences, SequencesExt

CONSTANTS
  W4, W6,        \* address widths standing for 32 and 128 bits
  InputOptions,  \* options the incoming messages may carry
  MaxRecords,    \* bound on the records of an incoming additional section
  MaxOptions     \* bound on the options of an incoming OPT record

ASSUME W4 \in Nat /\ W6 \in Nat /\ W4 < W6

Bit == {0, 1}

Width(is4) == IF is4 THEN W4 ELSE W6

\* netip.Prefix values: an address of its family's width and 0..width bits.
ClientSubnets ==
  UNION { [is4 : {is4}, addr : [1..Width(is4) -> Bit], bits : 0..Width(is4)]
          : is4 \in BOOLEAN }

Other == [code |-> "OTHER", family |-> 0, netmask |-> 0, address |-> << >>]

IsSubnet(o) == o.code = "SUBNET"

IsOPT(r) == r.type = "OPT"

RR == [type |-> "RR", opts |-> << >>]

\* Incoming additional sections: at most one OPT record (RFC 6891), with at
\* most one subnet option.
OPTRecords ==
  { r \in [type : {"OPT"}, opts : BoundedSeq(InputOptions, MaxOptions)] :
      Len(SelectSeq(r.opts, IsSubnet)) <= 1 }

Messages ==
  { m \in BoundedSeq({RR} \cup OPTRecords, MaxRecords) :
      Len(SelectSeq(m, IsOPT)) <= 1 }

-----------------------------------------------------------------------------
(* setClientSubnet.                                                        *)

\* The findExists loop from record i on: every OPT record becomes
\* optRecord and every option the type assertion's result (nil unless a
\* subnet option), a non-OPT record resets optRecord to nil through the
\* failed type assertion; the first subnet option breaks out.  Indices,
\* 0 for nil.
RECURSIVE FindExists(_, _, _)
FindExists(extra, i, st) ==
  IF i > Len(extra) THEN st
  ELSE IF ~IsOPT(extra[i])
    THEN FindExists(extra, i + 1, [st EXCEPT !.opt = 0])
  ELSE LET os == extra[i].opts
           k  == SelectInSeq(os, IsSubnet)
       IN  IF k # 0 THEN [opt |-> i, sub |-> k]
           ELSE FindExists(extra, i + 1,
                           [opt |-> i, sub |-> IF os = << >> THEN st.sub ELSE 0])

\* A new OPT record with an empty root name.
NewOPT == [type |-> "OPT", opts |-> << >>]

\* The option as setClientSubnet writes it: family 1 for IPv4, else 2;
\* SourceNetmask the prefix bits; Address the prefix address (AsSlice).
SubnetFor(p) ==
  [code |-> "SUBNET", family |-> IF p.is4 THEN 1 ELSE 2,
   netmask |-> p.bits, address |-> p.addr]

\* With an OPT record found and clone set, the same steps on a copy; with
\* none, an OPT record appended; a subnet option appended when there is
\* none; the option filled in.
RECURSIVE SetSubnet(_, _, _)
SetSubnet(extra, p, clone) ==
  LET f == FindExists(extra, 1, [opt |-> 0, sub |-> 0])
  IN  IF f.opt # 0 /\ clone
        THEN SetSubnet(extra, p, FALSE)
        ELSE LET e1 == IF f.opt = 0 THEN Append(extra, NewOPT) ELSE extra
                 oi == IF f.opt = 0 THEN Len(e1) ELSE f.opt
                 os == IF f.sub = 0 THEN Append(e1[oi].opts, Other) ELSE e1[oi].opts
                 si == IF f.sub = 0 THEN Len(os) ELSE f.sub
             IN  [e1 EXCEPT ![oi].opts = [os EXCEPT ![si] = SubnetFor(p)]]

\* SetClientSubnet: the exported entry clones.
SetClientSubnet(extra, p) == SetSubnet(extra, p, TRUE)

-----------------------------------------------------------------------------
(* ExtractClientSubnet.                                                    *)

\* Mutant: the address is copied but not masked.
ExtractAddrNoMask(addr, w, bits) ==
  [i \in 1..w |-> IF i <= Len(addr) THEN addr[i] ELSE 0]

\* copy() into a zeroed array of the family's width, then Masked().
ExtractAddr(addr, w, bits) ==
  [i \in 1..w |-> IF i <= Len(addr) /\ i <= bits THEN addr[i] ELSE 0]

None == [ok |-> FALSE, prefix |-> [is4 |-> FALSE, addr |-> << >>, bits |-> 0]]

\* message.IsEdns0() (the last OPT record of the section), then the first
\* subnet option of it: bits beyond the family's width or an unknown
\* family give no prefix.
ExtractClientSubnet(extra) ==
  LET oi == SelectLastInSeq(extra, IsOPT)
      k  == IF oi = 0 THEN 0 ELSE SelectInSeq(extra[oi].opts, IsSubnet)
      s  == extra[oi].opts[k]
  IN  IF k = 0 \/ s.family \notin {1, 2} THEN None
      ELSE LET is4 == s.family = 1
           IN  IF s.netmask > Width(is4) THEN None
               ELSE [ok |-> TRUE,
                     prefix |-> [is4 |-> is4, bits |-> s.netmask,
                                 addr |-> ExtractAddr(s.address, Width(is4), s.netmask)]]

-----------------------------------------------------------------------------
(* A message stamped and read back.                                        *)

VARIABLES
  msg,     \* the incoming additional section
  prefix,  \* the client subnet to stamp
  out,     \* what setClientSubnet returned
  got,     \* what ExtractClientSubnet read from it
  pc

vars == <<msg, prefix, out, got, pc>>

Init ==
  /\ msg \in Messages
  /\ prefix \in ClientSubnets
  /\ out = << >>
  /\ got = None
  /\ pc = "set"

Stamp ==
  /\ pc = "set"
  /\ out' = SetClientSubnet(msg, prefix)
  /\ pc' = "extract"
  /\ UNCHANGED <<msg, prefix, got>>

Extract ==
  /\ pc = "extract"
  /\ got' = ExtractClientSubnet(out)
  /\ pc' = "done"
  /\ UNCHANGED <<msg, prefix, out>>

Next == Stamp \/ Extract

Spec == Init /\ [][Next]_vars

-----------------------------------------------------------------------------
(* Properties.                                                             *)

\* The prefix with the bits past its length cleared (netip Masked).
MaskedPrefix(p) ==
  [p EXCEPT !.addr = [i \in DOMAIN p.addr |-> IF i <= p.bits THEN p.addr[i] ELSE 0]]

\* Spec test 8: setClientSubnet followed by ExtractClientSubnet returns the
\* masked prefix, for IPv4 and IPv6, whatever OPT record, subnet option or
\* other records the message already carried.
RoundTrip == pc = "done" => got = [ok |-> TRUE, prefix |-> MaskedPrefix(prefix)]

\* The specification of setClientSubnet: the message carries exactly one
\* OPT record (RFC 6891), holding exactly one subnet option, with the
\* family of the prefix and its length as source netmask.  The address is
\* left out: the option is packed with the address masked to the source
\* netmask, so the unmasked AsSlice() value never reaches the wire.  The
\* findExists scan forgets an OPT record without a subnet option when a
\* non-OPT record follows it, and a second OPT record is appended.
SetAsSpecified ==
  pc # "set" =>
    LET opts == SelectSeq(out, IsOPT)
    IN  /\ Len(opts) = 1
        /\ Len(SelectSeq(opts[1].opts, IsSubnet)) = 1
        /\ LET s == SelectSeq(opts[1].opts, IsSubnet)[1]
           IN  /\ s.family = IF prefix.is4 THEN 1 ELSE 2
               /\ s.netmask = prefix.bits

=============================================================================
