---------------------------- MODULE HostNetwork ----------------------------
(***************************************************************************)
(* The host's network stack, as coarsely as the daemon's lifecycle sees    *)
(* it, and what the daemon's sequences of shell commands do to it.         *)
(* routing: the ip rules and table 100 (not tun0 itself, which may outlive *)
(* a teardown without them); nat: the chain and its hook in POSTROUTING;   *)
(* mss: copies of the TCPMSS rule, appended one at a time and deleted one  *)
(* at a time; ipv6off: IPv6 disabled.  NetworkSetup has the commands one   *)
(* by one and checks these operators against them.                         *)
(***************************************************************************)
EXTENDS Naturals

HostType == [routing : {"none", "partial", "full"}, nat : BOOLEAN,
             mss : Nat, ipv6off : BOOLEAN]

CleanHost == [routing |-> "none", nat |-> FALSE, mss |-> 0, ipv6off |-> FALSE]

DropMssRule(n) == IF n = 0 THEN 0 ELSE n - 1

\* The mini-cleanup of `vpn start`, and all of a teardown but IPv6.
RulesRemoved(h) ==
  [routing |-> "none", nat |-> FALSE, mss |-> DropMssRule(h.mss), ipv6off |-> h.ipv6off]

\* Mutant: teardown forgets restore_ipv6.
TornDownButIpv6(h) == RulesRemoved(h)

TornDown(h) == [RulesRemoved(h) EXCEPT !.ipv6off = FALSE]

FirewallApplied(h) ==
  [routing |-> h.routing, nat |-> TRUE, mss |-> h.mss + 1, ipv6off |-> TRUE]

RoutingApplied(h) == [h EXCEPT !.routing = "full"]

\* A few of the routing commands ran and not the others.
SomeRouting(h) ==
  [h EXCEPT !.routing = IF h.routing = "full" THEN "full" ELSE "partial"]

\* The server bypasses were cleared, and those of the servers that resolve
\* added; they may be the only routing there is.
Rebypassed(h) ==
  {h, SomeRouting(h)}
    \cup (IF h.routing = "full" THEN {} ELSE {[h EXCEPT !.routing = "none"]})

\* What an interrupted removal leaves, in the order of a teardown (routing,
\* firewall) or of `vpn start` (the rules last); IPv6 comes back at the end.
PartlyRemoved(h) ==
  [routing : {h.routing, "partial", "none"}, nat : {h.nat, FALSE},
   mss : {h.mss, DropMssRule(h.mss)}, ipv6off : {h.ipv6off}]

\* What an interrupted set-up of the firewall leaves.
PartlyFirewalled(h) ==
  [routing : {h.routing}, nat : {TRUE}, mss : {h.mss, h.mss + 1}, ipv6off : {h.ipv6off}]
=============================================================================
