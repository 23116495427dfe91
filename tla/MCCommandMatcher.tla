-------------------------- MODULE MCCommandMatcher --------------------------
(* The commands of vtysh's configuration node that write a line or share  *)
(* a beginning with one that does.                                        *)
EXTENDS CommandMatcher, TLC

K(w) == {w}

MCTable == [
  hostname      |-> <<K("hostname"), K(Variable)>>,
  no_hostname   |-> <<K("no"), K("hostname"), K(Option)>>,
  nameserver    |-> <<K("nameserver"), K(Address), K(Address)>>,
  no_nameserver |-> <<K("no"), K("nameserver")>>,
  address       |-> <<K("ip"), K("address"), K(Variable), K(Address), K(Address)>>,
  dhcp          |-> <<K("ip"), K("address"), K(Variable), K("dhcp")>>,
  no_address    |-> <<K("no"), K("ip"), K("address"), K(Variable)>>,
  route         |-> <<K("ip"), K("route"), K(Address), K(Address), K(Address), K(Variable)>>,
  listenport    |-> <<K("wg"), K("listenport"), K(Variable)>>,
  peer          |-> <<K("wg"), K("peer"), K(Variable)>>,
  allowed       |-> <<K("wg"), K("peer"), K(Variable), K("allowed-ips"), K(Variable)>>,
  endpoint      |-> <<K("wg"), K("peer"), K(Variable), K("allowed-ips"), K(Variable),
                      K("endpoint"), {"none", Variable}>>,
  keepalive     |-> <<K("wg"), K("peer"), K(Variable), K("allowed-ips"), K(Variable),
                      K("endpoint"), {"none", Variable}, K("persistent-keepalive"), {"off", Variable}>>,
  no_peer       |-> <<K("no"), K("wg"), K("peer"), K(Variable)>>,
  link          |-> <<K("wg"), {"link-up", "link-down"}>>,
  rekey         |-> <<K("wg"), K("regenerate-key")>>,
  disable       |-> <<K("bridge"), K("disable")>>,
  bridge        |-> <<K("bridge"), K(Variable), K(Variable), K(Variable)>>,
  no_disable    |-> <<K("no"), K("bridge"), K("disable")>>,
  no_bridge     |-> <<K("no"), K("bridge"), K(Variable)>>,
  portmap       |-> <<K("sfirewall"), K("nat"), K("portmap"), K(Variable), {"vpn", "wan"},
                      K(Address), {"tcp", "udp", "all"}, K(Variable), K(Variable)>>,
  portmap_apply |-> <<K("sfirewall"), K("nat"), K("portmap"), K("apply")>>,
  filter        |-> <<K("sfirewall"), K("filter"), K(Variable), {"lan2wan", "wan2lan"}, {"in", "out", "fw"},
                      {"insert", "append"}, {"permit", "deny", "reject"}, {"tcp", "udp", "icmp"},
                      K(Variable), K(Variable), K(Variable), K(Variable), K(Variable), K(Variable), K(Variable)>>,
  filter_apply  |-> <<K("sfirewall"), K("filter"), K("apply")>>,
  write         |-> <<K("write")>>,
  write_file    |-> <<K("write"), K("file")>>,
  show_bridge   |-> <<K("show"), K("bridge")>>,
  show_mac      |-> <<K("show"), K("bridge"), K(Variable)>>]

MCWriters == {"hostname", "nameserver", "address", "dhcp", "route", "listenport", "peer",
              "allowed", "endpoint", "keepalive", "link", "disable", "bridge", "portmap", "filter"}

\* sfirewall_filter_rules checks all its choices but the protocol.
MCChecked == {"filter"} \X (4 .. 7)

Keywords == UNION {UNION {t[i] : i \in DOMAIN t} : t \in {MCTable[c] : c \in DOMAIN MCTable}} \ NotKeywords

\* Abbreviations: some that are unique and some that are not.
Abbreviated ==
  [t |-> {"tcp"}, h |-> {"hostname"}, e |-> {"endpoint"}, ad |-> {"address"}, di |-> {"disable"},
   ro |-> {"route"}, po |-> {"portmap"}, s |-> {"sfirewall", "show"}, sf |-> {"sfirewall"},
   n |-> {"no", "nameserver", "nat", "none"}, na |-> {"nameserver", "nat"},
   w |-> {"wg", "write", "wan", "wan2lan"}, al |-> {"allowed-ips", "all"},
   l |-> {"listenport", "link-up", "link-down", "lan2wan"}, li |-> {"listenport", "link-up", "link-down"},
   no |-> {"no", "none"}, o |-> {"off", "out"}, in |-> {"in", "insert"},
   all |-> {"all", "allowed-ips"}, wan |-> {"wan", "wan2lan"}]
  @@ ("link-" :> {"link-up", "link-down"}) @@ ("link-u" :> {"link-up"})
\* A complete address, an incomplete one, one that goes on after a number that
\* is too large, and one without its first number.
MCFields ==
  ("10.0.0.1" :> <<10, 0, 0, 1>>) @@ ("10.0" :> <<10, 0>>)
  @@ ("300." :> <<300, Empty>>) @@ (".0.0.1" :> <<Empty, 0, 0, 1>>) @@ ("10.256" :> <<10, 256>>)

MCBegins == Abbreviated @@ [k \in Keywords |-> {k}]
=============================================================================
