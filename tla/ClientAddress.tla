---------------------------- MODULE ClientAddress ---------------------------
(***************************************************************************)
(* The identity a per-address limit counts against (rateLimitIdentity). An *)
(* address is the text a proxy wrote, already split at its separators:     *)
(*    [v |-> 4, quad |-> <<a, b, c, d>>]                                   *)
(*    [v |-> 6, head |-> parts, tail |-> parts, gap |-> has "::"]          *)
(*    [v |-> 0, text |-> t]   anything that is not an address, the guard's *)
(*                            "unknown" included                           *)
(* where a part is <<n>>, a hexadecimal group, or <<a, b, c, d>>, a dotted *)
(* quad.                                                                   *)
(***************************************************************************)
EXTENDS Naturals, Sequences, SequencesExt

\* parse(): a group is one number, a dotted quad two.
Parse(parts) ==
    FoldLeft(LAMBDA groups, p :
                 groups \o IF Len(p) = 1 THEN p
                           ELSE <<p[1] * 256 + p[2], p[3] * 256 + p[4]>>,
             <<>>, parts)

\* The eight 16-bit groups; "::" stands for as many zeros as are missing.
ExpandIPv6(address) ==
    LET front == Parse(address.head)
        back  == Parse(address.tail)
    IN  IF address.gap
        THEN front \o [i \in 1 .. 8 - Len(front) - Len(back) |-> 0] \o back
        ELSE front

\* IPv4-mapped, recognised by value rather than by spelling.
Mapped(groups) == (\A i \in 1 .. 5 : groups[i] = 0) /\ groups[6] = 65535

\* The address for IPv4, the /64 for IPv6, and for the rest the text unchanged.
RateLimitIdentity(address) ==
    CASE address.v = 4 -> <<"v4", address.quad>>
      [] address.v = 0 -> <<"text", address.text>>
      [] OTHER ->
           LET g == ExpandIPv6(address)
           IN  IF Mapped(g)
               THEN <<"v4", <<g[7] \div 256, g[7] % 256, g[8] \div 256, g[8] % 256>>>>
               ELSE <<"v6", SubSeq(g, 1, 4)>>
=============================================================================
