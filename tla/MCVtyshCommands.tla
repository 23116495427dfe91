-------------------------- MODULE MCVtyshCommands --------------------------
(* Small instances of VtyshCommands for TLC. *)
EXTENDS VtyshCommands

CONSTANTS k1, n1, f1, a, b, c

\* Two pairs that have an interface in common, and one interface twice.
Pairs == <<<<a, b>>, <<c, b>>, <<c, c>>>>

\* Two values where a later command can change an earlier one, one value of
\* the commands that behave alike; wg may not take a peer with the value 2.
Entered == LinesOf("address", {"wan"}, {Dhcp, 1})
           \cup LinesOf("address", {"wg0"}, {1}) \cup LinesOf("route", Nets, {1, 2})
           \cup LinesOf("filter", Rules, {Insert, Behind}) \cup LinesOf("link", {None}, {Down, Up})
           \cup LinesOf("listenport", {None}, {1}) \cup LinesOf("peer", Peers, {Bare, 1, 2})
           \cup LinesOf("bridge", {1}, {1, 2}) \cup LinesOf("bridge", {2}, {2, 3})
=============================================================================
