--------------------------- MODULE VtyshCommands ---------------------------
(***************************************************************************)
(* What the configuration commands of vtysh do (wgshell/vtysh/cmd): each   *)
(* edits the lines of config_top and then changes the system through       *)
(* ifconfig, wg and uci.  "vtysh -e" loads the configuration file, runs    *)
(* one command and saves, here in one step (VtyshStore has the steps); an  *)
(* interactive shell loads once, runs commands and saves when told to      *)
(* "write"; after a boot, start_wg.sh runs every line of the file.         *)
(*                                                                         *)
(* A line is a command, what it is about and a number for its other        *)
(* arguments.  config_top is sorted and its commands do not repeat a line, *)
(* so that it is a set here.  Arguments that a command refuses change      *)
(* nothing and are left out, but for "bridge", which refuses interfaces    *)
(* that are not there, and interfaces come and go.  A peer line is kept    *)
(* whether or not wg takes it: nobody looks at the result of "wg set".     *)
(***************************************************************************)
EXTENDS Integers, Sequences, FiniteSets, SequencesExt

CONSTANTS
  Peers,     \* public keys
  Nets,      \* destinations of routes
  Rules,     \* rules of "sfirewall filter", but for insert or append, and of "nat portmap"
  Vals,      \* other arguments
  Fallible,  \* those with which wg may not take a peer: the endpoint is "none" or a name
  Bridges,   \* numbers of bridges
  Pair,      \* the two interfaces that a value stands for in "bridge"
  Removable, \* interfaces that can be unplugged
  None,      \* nothing
  Asked,     \* the lines that are entered
  MaxSteps   \* bound: commands, boots and changes around the device

\* Arguments with a meaning of their own.
Bare   == 0    \* "wg peer K" and nothing else
Dhcp   == 0    \* "ip address wan dhcp"
Down   == 0    \* "wg link-down"
Up     == 1    \* "wg link-up"
Insert == 0    \* of a filter rule
Behind == 1    \* append, of a filter rule

\* The lines of config_top.
LinesOf(cmd, args, vals) == [cmd : {cmd}, arg : args, val : vals]
Lines == UNION {LinesOf("hostname", {None}, Vals), LinesOf("nameserver", {None}, Vals),
                LinesOf("address", {"lan", "wan", "wg0"}, Vals), LinesOf("address", {"wan"}, {Dhcp}),
                LinesOf("route", Nets, Vals), LinesOf("filter", Rules, {Insert, Behind}),
                LinesOf("portmap", Rules, {Insert}), LinesOf("bridge disable", {None}, {Down}),
                LinesOf("bridge", Bridges, DOMAIN Pair),
                LinesOf("link", {None}, {Down, Up}), LinesOf("listenport", {None}, Vals),
                LinesOf("peer", Peers, Vals \cup {Bare})}

ASSUME CommandsAssumption ==
  /\ Vals \subseteq Nat \ {0} /\ Fallible \subseteq Vals
  /\ MaxSteps \in Nat /\ Asked \subseteq Lines
  /\ Bridges \subseteq 1 .. 9 /\ DOMAIN Pair \subseteq Vals
  /\ \A v \in DOMAIN Pair : Len(Pair[v]) = 2
  /\ None \notin Nat /\ \A top \in SUBSET Asked : top # None

VARIABLES
  file,     \* the lines of the configuration file
  shell,    \* config_top of the interactive shell, or None
  sys,      \* what the commands change; see System
  steps,    \* how many of them there were
  behind,   \* history: a vtysh -e ran since the shell loaded or wrote the file
  drifted,  \* history: file and system were given different changes, and no boot has put
            \* that right
  cleared   \* history: the key was deleted and wg0 has not got another one

vars == <<file, shell, sys, steps, behind, drifted, cleared>>

\* What has a single value: for lan, wan and the host name in uci, which a boot
\* keeps, otherwise in the kernel.
Slots == {"hostname", "nameserver", "listenport"} \X {None}
         \cup {"address"} \X {"lan", "wan", "wg0"} \cup {"peer"} \X Peers
Volatile == {"listenport"} \X {None} \cup {"address"} \X {"wg0"} \cup {"peer"} \X Peers
Slot(l) == <<l.cmd, l.arg>>

\* Commands that only keep their line; the rules wait for "apply".
Inert == {"filter", "portmap", "bridge disable"}

Ports(v)   == {Pair[v][1], Pair[v][2]}
Interfaces == UNION {Ports(v) : v \in DOMAIN Pair}

System == [live   : [Slots -> Vals \cup {Bare, None}],
           up     : BOOLEAN,                       \* wg0
           routes : Seq(Nets \X Vals),             \* uci network.@route
           allow  : Seq(Vals),                     \* uci rules Allow-WG-Inbound
           key    : Nat \cup {None},               \* the private key file
           wgkey  : Nat \cup {None},               \* the private key of wg0
           fresh  : Nat,                           \* the next key "wg genkey" makes
           ports  : [Bridges -> SUBSET Interfaces],\* of the bridges brad1 to brad9
           gone   : SUBSET Removable,              \* interfaces that are unplugged
           bad    : SUBSET Fallible]               \* what wg does not take now

\* After the first boot with an empty configuration.
Init ==
  /\ file = {} /\ shell = None
  /\ sys = [live |-> [x \in Slots |-> None], up |-> FALSE, routes |-> <<>>, allow |-> <<>>,
            key |-> 0, wgkey |-> 0, fresh |-> 1,
            ports |-> [n \in Bridges |-> {}], gone |-> {}, bad |-> {}]
  /\ steps = 0
  /\ behind = FALSE /\ drifted = FALSE /\ cleared = FALSE

----------------------------------------------------------------------------
(* config_top.                                                             *)

\* config_del_line_byleft: the first line that begins with the command and
\* its subject.
ByLeft(top, l) == {m \in top : Slot(m) = Slot(l)}
FirstOf(ls) == {m \in ls : \A n \in ls : m.val <= n.val}

\* Mutant: an inserted rule may be appended too.
ReplacedFilterToo(top, l) ==
  CASE l.cmd = "link" -> ByLeft(top, l)
    [] l.cmd \in {"route"} \cup Inert -> {l}
    [] OTHER -> FirstOf(ByLeft(top, l))

\* What goes when l is added: both link lines, both forms of a filter rule,
\* the very line of a route, a port mapping or "bridge disable", and otherwise
\* the line with that beginning.
Replaced(top, l) ==
  CASE l.cmd \in {"link", "filter"} -> ByLeft(top, l)
    [] l.cmd \in {"route", "portmap", "bridge disable"} -> {l}
    [] OTHER -> FirstOf(ByLeft(top, l))

AddLine(top, l) == (top \ Replaced(top, l)) \cup {l}

\* Mutant: "no wg peer" leaves the line.
RemovePeerNot(top, l) ==
  CASE l.cmd = "peer" -> top
    [] l.cmd \in Inert -> top \ {l}
    [] OTHER -> top \ FirstOf(ByLeft(top, l))

\* The "no" commands: a rule has to be given as it is.  For a peer whose key is not
\* given in full see EvalNoBeginning.
RemoveLine(top, l) == IF l.cmd \in Inert THEN top \ {l} ELSE top \ FirstOf(ByLeft(top, l))

\* Commands that have a "no" form.
HasNo(l) == l.cmd \notin {"link", "listenport"}

----------------------------------------------------------------------------
(* The system.                                                             *)

SetLive(y, l, v) == [y EXCEPT !.live[Slot(l)] = v]

\* config_hostname, config_dns; config_no_hostname, config_no_dns.
Hostname(y, l)     == SetLive(y, l, l.val)
NoHostname(y, l)   == SetLive(y, l, None)
Nameserver(y, l)   == SetLive(y, l, l.val)
NoNameserver(y, l) == SetLive(y, l, None)

\* ip_address: uci for lan and wan, then ifconfig, which also brings the
\* interface up; ip_address_dhcp: uci only.
IpAddressDhcp(y, l) == SetLive(y, l, Dhcp)
IpAddress(y, l) ==
  IF l.arg = "wg0" THEN [SetLive(y, l, l.val) EXCEPT !.up = TRUE] ELSE SetLive(y, l, l.val)

\* no_ip_address: uci forgets the address; ifconfig down leaves wg0's in place.
NoIpAddress(y, l) == IF l.arg = "wg0" THEN [y EXCEPT !.up = FALSE] ELSE SetLive(y, l, None)

\* wg_listenport: the old rule is looked up but never deleted.
WgListenport(y, l) == [SetLive(y, l, l.val) EXCEPT !.allow = Append(@, l.val)]

\* Mutant: the key file is made again although it is there.
GenKeyAlways(y) == [y EXCEPT !.key = y.fresh, !.fresh = @ + 1]

\* "wg genkey" if there is no private key file.
GenKey(y) == IF y.key = None THEN [y EXCEPT !.key = y.fresh, !.fresh = @ + 1] ELSE y

\* wg_peer_public_key: wg set leaves the attributes that are not given.
WgPeerBare(y, l) ==
  LET z == GenKey(y)
      v == IF z.live[Slot(l)] = None THEN Bare ELSE z.live[Slot(l)]
  IN  [SetLive(z, l, v) EXCEPT !.wgkey = z.key]

\* wg does not take the peer: "wg set" sets nothing, the private key included.
Missed(y, l) == l.cmd = "peer" /\ l.val \in y.bad

\* wg_peer_allowed_ips, wg_peer_endpoint and wg_peer_persistent_keepalive.
WgPeer(y, l) ==
  LET z == GenKey(y)
  IN  IF Missed(y, l) THEN z ELSE [SetLive(z, l, l.val) EXCEPT !.wgkey = z.key]

NoWgPeer(y, l) == SetLive(y, l, None)

WgLink(y, l) == [y EXCEPT !.up = (l.val = Up)]

IpRoute(y, l) == [y EXCEPT !.routes = Append(@, <<l.arg, l.val>>)]

\* uci delete network.@route[-1]: the last route, whichever was named.
NoIpRoute(y) == IF y.routes = <<>> THEN y ELSE [y EXCEPT !.routes = Front(@)]

\* wg_rekey and wg_clearkey.
WgRekey(y) == [y EXCEPT !.key = y.fresh, !.wgkey = y.fresh, !.fresh = @ + 1]
WgClearkey(y) == [y EXCEPT !.key = None]

\* bridge_add: brctl adds the interfaces one after the other and stops at one
\* that is in a bridge, be it this one.
Bridged(y)  == UNION {y.ports[n] : n \in Bridges}
AddIf(y, l) ==
  LET p == Pair[l.val]
  IN  IF p[1] \in Bridged(y) THEN {} ELSE IF p[2] \in Bridged(y) THEN {p[1]} ELSE Ports(l.val)
Failed(y, l) == Pair[l.val][1] \in Bridged(y) \/ Pair[l.val][2] \in Bridged(y) \cup {Pair[l.val][1]}
Refused(y, l) == l.cmd = "bridge" /\ Ports(l.val) \cap y.gone # {}
BridgeAdd(y, l) == IF Refused(y, l) THEN y ELSE [y EXCEPT !.ports[l.arg] = @ \cup AddIf(y, l)]

\* no_bridge_add.
NoBridgeAdd(y, l) == [y EXCEPT !.ports[l.arg] = {}]

\* A line takes effect.
Effect(y, l) ==
  CASE l.cmd = "hostname"   -> Hostname(y, l)
    [] l.cmd = "nameserver" -> Nameserver(y, l)
    [] l.cmd = "address"    -> IF l.val = Dhcp THEN IpAddressDhcp(y, l) ELSE IpAddress(y, l)
    [] l.cmd = "listenport" -> WgListenport(y, l)
    [] l.cmd = "peer"       -> IF l.val = Bare THEN WgPeerBare(y, l) ELSE WgPeer(y, l)
    [] l.cmd = "link"       -> WgLink(y, l)
    [] l.cmd = "route"      -> IpRoute(y, l)
    [] l.cmd = "bridge"     -> BridgeAdd(y, l)
    [] OTHER                -> y

NoEffect(y, l) ==
  CASE l.cmd = "hostname"   -> NoHostname(y, l)
    [] l.cmd = "nameserver" -> NoNameserver(y, l)
    [] l.cmd = "address"    -> NoIpAddress(y, l)
    [] l.cmd = "peer"       -> NoWgPeer(y, l)
    [] l.cmd = "route"      -> NoIpRoute(y)
    [] l.cmd = "bridge"     -> NoBridgeAdd(y, l)
    [] OTHER                -> y

\* Mutant: the line stays although an interface could not be added.
EditedAnyway(top, y, l) == IF Refused(y, l) THEN top ELSE AddLine(top, l)

\* The lines once l was run: bridge_add takes back its line if an interface could
\* not be added.
Edited(top, y, l) ==
  IF Refused(y, l) THEN top
  ELSE IF l.cmd = "bridge" /\ Failed(y, l) THEN top \ ByLeft(top, l)
  ELSE AddLine(top, l)

----------------------------------------------------------------------------
\* vtysh_load_config: a line that is refused is lost.  The other commands stop at
\* ENSURE_CONFIG, where only their lines are added.
Kept(y, top) == {l \in top : ~Refused(y, l)}

\* vtysh_load_config: commands stop at ENSURE_CONFIG, but the wg_peer ones make
\* the key file before.
Loaded(y, top) == IF \E l \in top : l.cmd = "peer" THEN GenKey(y) ELSE y

Count == steps < MaxSteps /\ steps' = steps + 1

\* vtysh -e: load, run, save.
Eval(ok, top, y) ==
  /\ Count /\ ok
  /\ file' = top
  /\ sys' = y
  /\ behind' = (behind \/ shell # None)
  /\ UNCHANGED <<shell, drifted>>

\* A line with which wg0 gets the key of the key file.
GivesKey(y, l) == l.cmd = "peer" /\ ~Missed(y, l)

EvalSet(l) ==
  /\ Eval(TRUE, Edited(Kept(sys, file), sys, l), Effect(Loaded(sys, file), l))
  /\ cleared' = (cleared /\ ~GivesKey(sys, l))
EvalNo(l) ==
  /\ Eval(HasNo(l), RemoveLine(Kept(sys, file), l), NoEffect(Loaded(sys, file), l))
  /\ UNCHANGED cleared
\* no_wg_peer does not look at its argument: given the beginning of a key,
\* config_del_line_byleft deletes the first line with it, and wg, which wants a whole
\* key, keeps the peer.
EvalNoBeginning(l) ==
  /\ Count
  /\ l \in file /\ l.cmd = "peer"
  /\ file' = Kept(sys, file) \ {l}
  /\ sys' = Loaded(sys, file)
  /\ behind' = (behind \/ shell # None) /\ drifted' = TRUE
  /\ UNCHANGED <<shell, cleared>>

EvalRekey == Eval(TRUE, Kept(sys, file), WgRekey(Loaded(sys, file))) /\ cleared' = FALSE
EvalClearkey == Eval(TRUE, Kept(sys, file), WgClearkey(Loaded(sys, file))) /\ cleared' = TRUE

\* The interactive shell: vtysh_load_config, then its command loop.
Open ==
  /\ Count
  /\ shell = None
  /\ shell' = Kept(sys, file)
  /\ sys' = Loaded(sys, file)
  /\ behind' = FALSE
  /\ UNCHANGED <<file, drifted, cleared>>

ShellSet(l) ==
  /\ Count /\ shell # None
  /\ shell' = Edited(shell, sys, l)
  /\ sys' = Effect(sys, l)
  /\ cleared' = (cleared /\ ~GivesKey(sys, l))
  /\ UNCHANGED <<file, behind, drifted>>
ShellNo(l) ==
  /\ Count /\ shell # None /\ HasNo(l)
  /\ shell' = RemoveLine(shell, l)
  /\ sys' = NoEffect(sys, l)
  /\ UNCHANGED <<file, behind, drifted, cleared>>

ShellNoBeginning(l) ==
  /\ Count
  /\ shell # None /\ l \in shell /\ l.cmd = "peer"
  /\ shell' = shell \ {l}
  /\ drifted' = TRUE
  /\ UNCHANGED <<file, sys, behind, cleared>>

\* config_write_file: the shell's lines replace the file, whatever it holds.
ShellWrite ==
  /\ shell # None
  /\ file' = shell
  /\ drifted' = (drifted \/ (behind /\ shell # file))
  /\ behind' = FALSE
  /\ UNCHANGED <<shell, sys, steps, cleared>>

\* config_exit of the view node.
ShellExit ==
  /\ shell # None
  /\ shell' = None
  /\ drifted' = (drifted \/ shell # file)
  /\ behind' = FALSE
  /\ UNCHANGED <<file, sys, steps, cleared>>

\* strcmp order of the commands.
Order == <<"bridge", "bridge disable", "hostname", "address", "route", "nameserver", "filter", "portmap",
           "link", "listenport", "peer">>

\* Mutant: new lines go to the front.
RankReversed(l) == 0 - (CHOOSE i \in DOMAIN Order : Order[i] = l.cmd)

Rank(l) == CHOOSE i \in DOMAIN Order : Order[i] = l.cmd
Before(a, b) ==
  \/ Rank(a) < Rank(b)
  \/ Rank(a) = Rank(b) /\ IF a.cmd = "bridge" /\ a.arg # b.arg THEN a.arg < b.arg ELSE a.val < b.val
First(top) == CHOOSE l \in top : \A m \in top : ~Before(m, l)

\* vtysh_boot_config: the lines take effect one after the other, in the order
\* in which config_dump left them in the file.
BootConfig(y, top) ==
  LET run[n \in 0 .. Cardinality(top)] ==
        IF n = 0 THEN <<y, top>>
        ELSE LET last == run[n - 1]
                 l    == First(last[2])
             IN  <<Effect(last[1], l), last[2] \ {l}>>
  IN  run[Cardinality(top)][1]

\* Two bridges have an interface in common.
Disputed(top) ==
  \E l, m \in top : /\ l.cmd = "bridge" /\ m.cmd = "bridge" /\ l # m
                    /\ Ports(l.val) \cap Ports(m.val) # {}

\* start_wg.sh: a new wg0; a key if there is none; vtysh -b runs the lines.
Boot(y, plugged) ==
  LET off == [y EXCEPT !.live = [x \in Slots |-> IF x \in Volatile THEN None ELSE y.live[x]],
                       !.up = FALSE, !.wgkey = None,
                       !.ports = [n \in Bridges |-> {}], !.gone = @ \ plugged]
  IN  IF y.key = None THEN WgRekey(Loaded(off, file)) ELSE off

Reboot(plugged) ==
  LET on == Boot(sys, plugged)
  IN  /\ Count
      /\ file' = IF sys.key = None THEN Kept(on, file) ELSE file
      /\ sys' = BootConfig(on, file')
      /\ shell' = None
      /\ behind' = FALSE /\ cleared' = FALSE
      /\ drifted' = ((drifted \/ shell \notin {None, file}) /\ Disputed(file'))

\* An interface goes, and leaves its bridge.
Unplug(i) ==
  /\ Count
  /\ i \notin sys.gone
  /\ sys' = [sys EXCEPT !.gone = @ \cup {i}, !.ports = [n \in Bridges |-> sys.ports[n] \ {i}]]
  /\ UNCHANGED <<file, shell, behind, drifted, cleared>>

\* Names get and lose their addresses.
Resolve(bad) ==
  /\ Count
  /\ sys' = [sys EXCEPT !.bad = bad]
  /\ UNCHANGED <<file, shell, behind, drifted, cleared>>

Next ==
  \/ \E l \in Asked : EvalSet(l) \/ EvalNo(l) \/ ShellSet(l) \/ ShellNo(l)
  \/ \E l \in Asked : EvalNoBeginning(l) \/ ShellNoBeginning(l)
  \/ EvalRekey \/ EvalClearkey
  \/ Open \/ ShellWrite \/ ShellExit
  \/ \E i \in Removable : Unplug(i)
  \/ \E bad \in SUBSET Fallible : Resolve(bad)
  \/ \E plugged \in SUBSET sys.gone : Reboot(plugged)

Spec == Init /\ [][Next]_vars

----------------------------------------------------------------------------
\* The shape of the state.
TypeOK ==
  /\ file \subseteq Lines
  /\ shell # None => shell \subseteq Lines
  /\ sys \in System
  /\ steps \in 0 .. MaxSteps

\* No command is in the configuration twice with different arguments, and no
\* filter rule is both inserted and appended (cmd_fw.c: "to prevent duplicate
\* rules"); only routes to one network may differ in their gateway.
OneLinePerCommand ==
  \A top \in {file} \cup ({shell} \ {None}) :
    \A l, m \in top : Slot(l) = Slot(m) /\ l.cmd # "route" => l = m

\* Unless a shell wrote over newer lines or left without writing, or a line was
\* deleted by the beginning of its key, wg0 is what the file describes whenever the
\* shell has nothing to write: its lines are in effect, but for peers that wg may not
\* take, and every peer has a line (cmd_vpn.c, cmd_ip.c).
WgMatchesFile ==
  ~drifted /\ shell \in {None, file} =>
    /\ \A l \in file : Slot(l) \in Volatile /\ l.val # Bare => sys.live[Slot(l)] = l.val
                       \/ (l.cmd = "peer" /\ l.val \in Fallible)
    /\ \A k \in Peers : sys.live[<<"peer", k>>] # None => \E l \in file : Slot(l) = <<"peer", k>>

\* A bridge line that is in the file is true as long as its interfaces stay plugged
\* in, in whatever order bridges were entered, changed and removed, and although
\* brctl may have added one interface only: under the same condition as above both
\* interfaces are in that bridge (cmd_bridge.c bridge_add, no_bridge_add).
BridgeInPlace ==
  ~drifted /\ shell \in {None, file} =>
    \A l \in file : l.cmd = "bridge" /\ ~Refused(sys, l) => Ports(l.val) \subseteq sys.ports[l.arg]

\* As long as the key was not deleted, a wg0 that has peers uses the private
\* key of the key file, whose public half the peers were given (cmd_vpn.c
\* PRIVATEKEY_PATH, start_wg.sh).
KeyAgrees ==
  ~cleared /\ (\E k \in Peers : sys.live[<<"peer", k>>] # None) => sys.wgkey = sys.key

\* After a boot every line of the file is in effect, those that the order of
\* the lines could undo included: "wg link-down" after "ip address wg0", which
\* brings wg0 up; but a peer line that wg does not take at the boot is none, and its
\* peer is not there, whatever it was before (vtysh_boot_config, config_dump).
InEffect(y, l) ==
  CASE l.cmd = "link"   -> y.up = (l.val = Up)
    [] l.cmd = "route"  -> \E i \in DOMAIN y.routes : y.routes[i] = <<l.arg, l.val>>
    [] l.cmd = "bridge" -> Ports(l.val) \subseteq y.ports[l.arg] \/ Refused(y, l) \/ Disputed(file)
    [] l.cmd \in Inert  -> TRUE
    [] OTHER            -> y.live[Slot(l)] = IF Missed(y, l) THEN None ELSE l.val
BootApplies ==
  [][Reboot(sys.gone \ sys'.gone) => \A l \in file : InEffect(sys', l)]_vars
=============================================================================
