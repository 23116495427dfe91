---------------------------- MODULE MCWebClients ----------------------------
(* Small instances of WebClients for TLC. *)
EXTENDS WebClients, TLC

CONSTANTS i1, i2, ka, u1

\* Two interfaces: the range is in the network of the first only.
Wide   == [ip |-> 1, net |-> 0 .. 7]
Narrow == [ip |-> 3, net |-> 2 .. 3]
TwoServers == {Wide, Narrow}
UpperHalf  == 4 .. 7

\* Clients with and without a Telegram id and an Endpoint; SetClientStatus disables
\* them.  Of the addresses the one of the second interface, the first of the range.
AskedFor(ip, tgs, endpoint) == [ip : {ip}, enabled : {TRUE}, tg : tgs, endpoint : {endpoint}]
Asked == AskedFor(3, {u1}, TRUE) \cup AskedFor(4, {None, u1}, TRUE) \cup AskedFor(4, {None}, FALSE)

\* Handlers are interchangeable.
Symmetry == Permutations(Handlers)
=============================================================================
