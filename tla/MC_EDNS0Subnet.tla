--------------------------- MODULE MC_EDNS0Subnet ---------------------------
EXTENDS EDNS0Subnet

\* Options an incoming OPT record may carry: another option, an IPv4
\* subnet option, an IPv6 one whose netmask exceeds the width, and one of
\* an unknown family with an empty address.
MCInputOptions ==
  { Other,
    [code |-> "SUBNET", family |-> 1, netmask |-> 1, address |-> <<1, 1>>],
    [code |-> "SUBNET", family |-> 2, netmask |-> 4, address |-> <<1, 0, 1, 1>>],
    [code |-> "SUBNET", family |-> 3, netmask |-> 0, address |-> << >>] }

=============================================================================
