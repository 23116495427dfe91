------------------------ MODULE VtyshCommandsProofs ------------------------
(***************************************************************************)
(* Theorems about VtyshCommands for any peers, networks, rules, bridges    *)
(* and values, whatever is entered, loaded, written and booted, by shells  *)
(* and by vtysh -e.  No two lines of a configuration contradict each       *)
(* other; wg0, its key and the bridges are what the file says; and a boot  *)
(* puts every line into effect.                                            *)
(*                                                                         *)
(* A boot runs its lines one after the other.  What it does is proved by   *)
(* induction on the lines (BootInduct), with a set of pairs, the system    *)
(* and the lines that are left, in place of the predicate.                 *)
(***************************************************************************)
EXTENDS VtyshCommands, NatBounds, FiniteSetTheorems

\* Lines are records; port mappings and "bridge disable" have no number.
LEMMA LineShape ==
  ASSUME NEW l \in Lines
  PROVE  /\ l = [cmd |-> l.cmd, arg |-> l.arg, val |-> l.val]
         /\ l.val \in Nat
         /\ l.cmd = "portmap" => l.val = Insert
         /\ l.cmd = "bridge disable" => l.val = Down
<1> DEFINE Of(cmd, args, vals) == l \in LinesOf(cmd, args, vals)
           Shape == /\ l = [cmd |-> l.cmd, arg |-> l.arg, val |-> l.val]
                    /\ l.val \in Nat
                    /\ l.cmd = "portmap" => l.val = Insert
                    /\ l.cmd = "bridge disable" => l.val = Down
<1>1. \/ Of("hostname", {None}, Vals) \/ Of("nameserver", {None}, Vals)
      \/ Of("address", {"lan", "wan", "wg0"}, Vals) \/ Of("address", {"wan"}, {Dhcp})
      \/ Of("route", Nets, Vals) \/ Of("filter", Rules, {Insert, Behind})
      \/ Of("portmap", Rules, {Insert}) \/ Of("bridge disable", {None}, {Down})
      \/ Of("bridge", Bridges, DOMAIN Pair) \/ Of("link", {None}, {Down, Up})
      \/ Of("listenport", {None}, Vals) \/ Of("peer", Peers, Vals \cup {Bare})
  BY Zenon DEF Lines
<1>2. ASSUME NEW cmd, NEW args, NEW vals, Of(cmd, args, vals), vals \subseteq Nat,
             cmd = "portmap" => vals = {Insert}, cmd = "bridge disable" => vals = {Down}
      PROVE  Shape
  BY <1>2 DEF LinesOf
<1>3. /\ Vals \subseteq Nat /\ DOMAIN Pair \subseteq Nat /\ {Dhcp} \subseteq Nat /\ {Insert} \subseteq Nat
      /\ {Insert, Behind} \subseteq Nat /\ {Down, Up} \subseteq Nat /\ {Down} \subseteq Nat
      /\ Vals \cup {Bare} \subseteq Nat
  <2>1. Vals \subseteq Nat /\ DOMAIN Pair \subseteq Vals
    BY CommandsAssumption, Zenon
  <2>2. DOMAIN Pair \subseteq Nat
    BY <2>1, Zenon
  <2>3. Vals \cup {Bare} \subseteq Nat
    BY <2>1 DEF Bare
  <2>4. /\ {Dhcp} \subseteq Nat /\ {Insert} \subseteq Nat
        /\ {Insert, Behind} \subseteq Nat /\ {Down, Up} \subseteq Nat /\ {Down} \subseteq Nat
    BY DEF Dhcp, Insert, Behind, Down, Up
  <2> QED
    BY <2>1, <2>2, <2>3, <2>4, Zenon
<1> HIDE DEF Of
<1>4. Shape
  <2> HIDE DEF Shape
  <2> QED
    BY <1>1, <1>2, <1>3
<1> QED
  BY <1>4

\* Two lines that have command, subject and number in common are one.
LEMMA SameLine ==
  ASSUME NEW l \in Lines, NEW m \in Lines, Slot(l) = Slot(m), l.val = m.val
  PROVE  l = m
<1>1. l.cmd = m.cmd /\ l.arg = m.arg
  BY DEF Slot
<1> QED
  BY <1>1, LineShape

\* The lines of a config_top that agrees with itself.
Single(top) ==
  /\ top \subseteq Lines
  /\ \A l, m \in top : Slot(l) = Slot(m) /\ l.cmd # "route" => l = m

\* Taking lines away does no harm.
LEMMA SingleSubset ==
  ASSUME NEW top, Single(top), NEW sub, sub \subseteq top
  PROVE  Single(sub)
BY DEF Single

\* Each command takes away what its new line would contradict.
LEMMA AddLineSingle ==
  ASSUME NEW top, Single(top), NEW l \in Lines
  PROVE  Single(AddLine(top, l))
<1>1. top \subseteq Lines
  BY DEF Single
<1>2. AddLine(top, l) \subseteq Lines
  BY <1>1 DEF AddLine
<1>3. ASSUME NEW m \in top, m \notin Replaced(top, l), Slot(m) = Slot(l), l.cmd # "route"
      PROVE  m = l
  <2>1. m \in Lines /\ m \in ByLeft(top, l) /\ m.cmd = l.cmd
    BY <1>1, <1>3 DEF ByLeft, Slot
  <2>2. CASE l.cmd \in {"link", "filter"}
    BY <1>3, <2>1, <2>2 DEF Replaced
  <2>3. CASE l.cmd \in {"portmap", "bridge disable"}
    <3>1. m.val = l.val
      BY <2>1, <2>3, LineShape DEF Insert, Down
    <3> QED
      BY <1>3, <2>1, <3>1, SameLine
  <2>4. CASE l.cmd \notin {"link", "filter", "portmap", "bridge disable"}
    <3>1. \A n \in ByLeft(top, l) : n = m
      BY <1>3, <2>1 DEF ByLeft, Single
    <3>2. m.val <= m.val
      <4>1. m.val \in Nat
        BY <2>1, LineShape
      <4> QED
        BY <4>1
    <3>3. m \in FirstOf(ByLeft(top, l))
      BY <2>1, <3>1, <3>2 DEF FirstOf
    <3>4. Replaced(top, l) = FirstOf(ByLeft(top, l))
      BY <1>3, <2>4 DEF Replaced
    <3> QED
      BY <1>3, <3>3, <3>4
  <2> QED
    BY <2>2, <2>3, <2>4
<1>4. ASSUME NEW a \in AddLine(top, l), NEW b \in AddLine(top, l), Slot(a) = Slot(b), a.cmd # "route"
      PROVE  a = b
  <2>1. a.cmd = b.cmd
    BY <1>4 DEF Slot
  <2>2. (a \in top /\ a \notin Replaced(top, l)) \/ a = l
    BY DEF AddLine
  <2>3. (b \in top /\ b \notin Replaced(top, l)) \/ b = l
    BY DEF AddLine
  <2>4. CASE a = l
    BY <1>3, <1>4, <2>1, <2>3, <2>4
  <2>5. CASE b = l
    BY <1>3, <1>4, <2>1, <2>2, <2>5
  <2> QED
    BY <1>4, <2>2, <2>3, <2>4, <2>5 DEF Single
<1> QED
  BY <1>2, <1>4 DEF Single

\* Commands, their "no" forms and loading keep a configuration without
\* contradictions, whatever the system is.
LEMMA EditsSingle ==
  ASSUME NEW top, Single(top), NEW y, NEW l \in Lines
  PROVE  /\ Single(Kept(y, top))
         /\ Single(Edited(top, y, l))
         /\ Single(RemoveLine(top, l))
<1>1. Single(Kept(y, top))
  BY SingleSubset DEF Kept
<1>2. Single(top \ ByLeft(top, l)) /\ Single(AddLine(top, l))
  BY SingleSubset, AddLineSingle
<1>3. Single(Edited(top, y, l))
  BY <1>2 DEF Edited
<1>4. Single(RemoveLine(top, l))
  BY SingleSubset DEF RemoveLine
<1> QED
  BY <1>1, <1>3, <1>4

----------------------------------------------------------------------------
(* The system: what a command leaves of it.                                *)

\* What each command is about.
LEMMA LineKinds ==
  ASSUME NEW l \in Lines
  PROVE  /\ l.cmd \in {"hostname", "nameserver", "listenport"} => l.arg = None /\ l.val \in Vals
         /\ l.cmd = "address" => l.arg \in {"lan", "wan", "wg0"} /\ (l.val \in Vals \/ (l.arg = "wan" /\ l.val = Dhcp))
         /\ l.cmd = "route" => l.arg \in Nets /\ l.val \in Vals
         /\ l.cmd = "bridge" => l.arg \in Bridges /\ l.val \in DOMAIN Pair
         /\ l.cmd = "link" => l.arg = None
         /\ l.cmd = "peer" => l.arg \in Peers /\ l.val \in Vals \cup {Bare}
         /\ l.cmd \in {"hostname", "nameserver", "listenport", "address", "route", "bridge", "link", "peer"} \cup Inert
<1> DEFINE Of(cmd, args, vals) == l \in LinesOf(cmd, args, vals)
<1>1. \/ Of("hostname", {None}, Vals) \/ Of("nameserver", {None}, Vals)
      \/ Of("address", {"lan", "wan", "wg0"}, Vals) \/ Of("address", {"wan"}, {Dhcp})
      \/ Of("route", Nets, Vals) \/ Of("filter", Rules, {Insert, Behind})
      \/ Of("portmap", Rules, {Insert}) \/ Of("bridge disable", {None}, {Down})
      \/ Of("bridge", Bridges, DOMAIN Pair) \/ Of("link", {None}, {Down, Up})
      \/ Of("listenport", {None}, Vals) \/ Of("peer", Peers, Vals \cup {Bare})
  BY Zenon DEF Lines
<1> DEFINE Is(cmd, args, vals) == l.cmd = cmd /\ l.arg \in args /\ l.val \in vals
<1>2. ASSUME NEW cmd, NEW args, NEW vals, Of(cmd, args, vals) PROVE Is(cmd, args, vals)
  BY <1>2 DEF LinesOf
<1> HIDE DEF Of, Is
<1>3. \/ Is("hostname", {None}, Vals) \/ Is("nameserver", {None}, Vals)
      \/ Is("address", {"lan", "wan", "wg0"}, Vals) \/ Is("address", {"wan"}, {Dhcp})
      \/ Is("route", Nets, Vals) \/ Is("filter", Rules, {Insert, Behind})
      \/ Is("portmap", Rules, {Insert}) \/ Is("bridge disable", {None}, {Down})
      \/ Is("bridge", Bridges, DOMAIN Pair) \/ Is("link", {None}, {Down, Up})
      \/ Is("listenport", {None}, Vals) \/ Is("peer", Peers, Vals \cup {Bare})
  BY <1>1, <1>2
<1>4. l.cmd \in {"hostname", "nameserver", "listenport"} => l.arg = None /\ l.val \in Vals
  BY <1>3 DEF Is
<1>5. l.cmd = "address" => l.arg \in {"lan", "wan", "wg0"} /\ (l.val \in Vals \/ (l.arg = "wan" /\ l.val = Dhcp))
  BY <1>3 DEF Is
<1>6. /\ l.cmd = "route" => l.arg \in Nets /\ l.val \in Vals
      /\ l.cmd = "bridge" => l.arg \in Bridges /\ l.val \in DOMAIN Pair
  BY <1>3 DEF Is
<1>7. /\ l.cmd = "link" => l.arg = None
      /\ l.cmd = "peer" => l.arg \in Peers /\ l.val \in Vals \cup {Bare}
  BY <1>3 DEF Is
<1>8. l.cmd \in {"hostname", "nameserver", "listenport", "address", "route", "bridge", "link", "peer"} \cup Inert
  BY <1>3 DEF Is, Inert
<1> QED
  BY <1>4, <1>5, <1>6, <1>7, <1>8

\* A slot that gets a value.
LEMMA SetLiveIs ==
  ASSUME NEW y \in System, NEW l, Slot(l) \in Slots, NEW v \in Vals \cup {Bare, None},
         NEW z, z = SetLive(y, l, v)
  PROVE  /\ z \in System /\ z.live[Slot(l)] = v
         /\ z.up = y.up /\ z.routes = y.routes /\ z.allow = y.allow
         /\ z.key = y.key /\ z.wgkey = y.wgkey /\ z.fresh = y.fresh
         /\ z.ports = y.ports /\ z.gone = y.gone /\ z.bad = y.bad
         /\ \A x \in Slots : x # Slot(l) => z.live[x] = y.live[x]
BY DEF SetLive, System

\* wg genkey makes a key only if there is none.
LEMMA GenKeyIs ==
  ASSUME NEW y \in System, NEW z, z = GenKey(y)
  PROVE  /\ z \in System /\ z.key # None
         /\ y.key # None => z = y
         /\ z.live = y.live /\ z.up = y.up /\ z.routes = y.routes /\ z.allow = y.allow
         /\ z.wgkey = y.wgkey /\ z.ports = y.ports /\ z.gone = y.gone /\ z.bad = y.bad
<1>1. None \notin Nat
  BY CommandsAssumption
<1>2. CASE y.key = None
  <2>1. z = [y EXCEPT !.key = y.fresh, !.fresh = @ + 1]
    BY <1>2 DEF GenKey
  <2>2. y.fresh \in Nat /\ y.fresh + 1 \in Nat
    BY DEF System
  <2> QED
    BY <1>1, <1>2, <2>1, <2>2 DEF System
<1>3. CASE y.key # None
  BY <1>3 DEF GenKey
<1> QED
  BY <1>2, <1>3

\* A peer that wg does not take has arguments.
LEMMA MissedIs ==
  ASSUME NEW y \in System, NEW l, Missed(y, l)
  PROVE  l.cmd = "peer" /\ l.val # Bare /\ l.val \in Fallible
<1>1. y.bad \subseteq Fallible /\ Fallible \subseteq Vals /\ \A v \in Vals : v # 0
  BY CommandsAssumption DEF System
<1>2. l.cmd = "peer" /\ l.val \in y.bad
  BY DEF Missed
<1> QED
  BY <1>1, <1>2 DEF Bare

\* The commands that set one of the slots.
Setters == {"hostname", "nameserver", "listenport", "address", "peer"}

\* What a line does to the system, one field after the other.
Changed(y, l, z) ==
  /\ z \in System /\ z.gone = y.gone /\ z.bad = y.bad
  /\ \A x \in Slots : x # Slot(l) \/ l.cmd \notin Setters => z.live[x] = y.live[x]
  /\ l.cmd \in Setters => /\ Slot(l) \in Slots
                           /\ \/ z.live[Slot(l)] = l.val /\ ~Missed(y, l)
                              \/ l.cmd = "peer" /\ l.val = Bare /\ y.live[Slot(l)] # None
                              \/ Missed(y, l) /\ z.live[Slot(l)] = y.live[Slot(l)]
  /\ IF GivesKey(y, l) THEN z.wgkey = z.key /\ z.key # None
     ELSE z.wgkey = y.wgkey /\ (y.key # None => z.key = y.key)
  /\ l.cmd # "bridge" => z.ports = y.ports
  /\ l.cmd = "link" => z.up = (l.val = Up)
  /\ l.cmd \notin {"link", "address"} => z.up = y.up
  /\ z.routes = IF l.cmd = "route" THEN Append(y.routes, <<l.arg, l.val>>) ELSE y.routes

\* A command that only gives its slot a value.
LEMMA SlotChanged ==
  ASSUME NEW y \in System, NEW l \in Lines, l.cmd \in Setters \ {"peer", "address"}, NEW z, z = SetLive(y, l, l.val)
  PROVE  Changed(y, l, z)
<1>1. Slot(l) \in Slots /\ l.val \in Vals \cup {Bare, None}
  BY LineKinds DEF Setters, Slots, Slot, Bare
<1>2. /\ z \in System /\ z.live[Slot(l)] = l.val
      /\ z.up = y.up /\ z.routes = y.routes
      /\ z.key = y.key /\ z.wgkey = y.wgkey
      /\ z.ports = y.ports /\ z.gone = y.gone /\ z.bad = y.bad
      /\ \A x \in Slots : x # Slot(l) => z.live[x] = y.live[x]
  BY <1>1, SetLiveIs
<1>3. l.cmd \notin {"peer", "link", "route", "bridge", "address"}
  BY DEF Setters
<1> QED
  BY <1>1, <1>2, <1>3 DEF Changed, Missed, GivesKey

\* Every line does what Changed says.
LEMMA EffectIs ==
  ASSUME NEW y \in System, NEW l \in Lines, NEW z, z = Effect(y, l)
  PROVE  Changed(y, l, z)
<1>1. l.cmd \in Setters => Slot(l) \in Slots /\ l.val \in Vals \cup {Bare, None}
  BY LineKinds DEF Setters, Slots, Slot, Bare, Dhcp
<1>2. l.val \in Nat
  BY LineShape
<1>3. CASE l.cmd \in {"hostname", "nameserver"}
  <2>1. z = SetLive(y, l, l.val) /\ l.cmd \in Setters \ {"peer", "address"}
    BY <1>3 DEF Effect, Hostname, Nameserver, Setters
  <2> QED
    BY <2>1, SlotChanged
<1>4. CASE l.cmd = "address"
  <2>1. PICK s : s = SetLive(y, l, l.val)
    OBVIOUS
  <2>2. l.cmd \in Setters
    BY <1>4 DEF Setters
  <2>3. /\ s \in System /\ s.live[Slot(l)] = l.val
        /\ s.routes = y.routes /\ s.key = y.key /\ s.wgkey = y.wgkey
        /\ s.ports = y.ports /\ s.gone = y.gone /\ s.bad = y.bad
        /\ \A x \in Slots : x # Slot(l) => s.live[x] = y.live[x]
    BY <1>1, <2>1, <2>2, SetLiveIs
  <2>4. z = s \/ z = [s EXCEPT !.up = TRUE]
    BY <1>4, <2>1 DEF Effect, IpAddress, IpAddressDhcp, Dhcp
  <2>5. /\ z \in System /\ z.live = s.live
        /\ z.routes = s.routes /\ z.key = s.key /\ z.wgkey = s.wgkey
        /\ z.ports = s.ports /\ z.gone = s.gone /\ z.bad = s.bad
    BY <2>3, <2>4 DEF System
  <2> QED
    BY <1>1, <1>4, <2>2, <2>3, <2>5 DEF Changed, Missed, GivesKey
<1>5. CASE l.cmd = "listenport"
  <2>1. PICK s : s = SetLive(y, l, l.val)
    OBVIOUS
  <2>2. Changed(y, l, s)
    BY <1>5, <2>1, SlotChanged DEF Setters
  <2>3. z = [s EXCEPT !.allow = Append(@, l.val)] /\ l.val \in Vals
    BY <1>5, <2>1, LineKinds DEF Effect, WgListenport
  <2>4. s \in System
    BY <2>2 DEF Changed
  <2>5. PICK a \in Seq(Vals) : z = [s EXCEPT !.allow = a]
    <3>1. s.allow \in Seq(Vals)
      BY <2>4 DEF System
    <3>2. Append(s.allow, l.val) \in Seq(Vals)
      BY <2>3, <3>1
    <3> QED
      BY <2>3, <3>2
  <2>6. /\ z \in System /\ z.live = s.live /\ z.up = s.up
        /\ z.routes = s.routes /\ z.key = s.key /\ z.wgkey = s.wgkey
        /\ z.ports = s.ports /\ z.gone = s.gone /\ z.bad = s.bad
    BY <2>4, <2>5 DEF System
  <2> QED
    BY <2>2, <2>6 DEF Changed
<1>11. CASE Missed(y, l)
  <2>1. l.cmd = "peer" /\ l.val # Bare
    BY <1>11, MissedIs
  <2>2. z = GenKey(y)
    <3>1. z = WgPeer(y, l)
      BY <2>1 DEF Effect
    <3> QED
      BY <1>11, <3>1 DEF WgPeer
  <2>3. /\ z \in System /\ (y.key # None => z.key = y.key)
        /\ z.live = y.live /\ z.up = y.up /\ z.routes = y.routes
        /\ z.wgkey = y.wgkey /\ z.ports = y.ports /\ z.gone = y.gone /\ z.bad = y.bad
    BY <2>2, GenKeyIs
  <2>4. l.cmd \in Setters /\ Slot(l) \in Slots /\ ~GivesKey(y, l)
    BY <1>1, <1>11, <2>1 DEF Setters, GivesKey
  <2> QED
    BY <1>11, <2>1, <2>3, <2>4 DEF Changed
<1>6. CASE l.cmd = "peer" /\ ~Missed(y, l)
  <2>1. PICK g : g = GenKey(y)
    OBVIOUS
  <2>2. /\ g \in System /\ g.key # None
        /\ g.live = y.live /\ g.up = y.up /\ g.routes = y.routes
        /\ g.ports = y.ports /\ g.gone = y.gone /\ g.bad = y.bad
    BY <2>1, GenKeyIs
  <2>3. PICK v : v = IF l.val = Bare /\ g.live[Slot(l)] # None THEN g.live[Slot(l)] ELSE l.val
    OBVIOUS
  <2>4. l.cmd \in Setters /\ Slot(l) \in Slots
    BY <1>1, <1>6 DEF Setters
  <2>5. v \in Vals \cup {Bare, None}
    <3>1. g.live[Slot(l)] \in Vals \cup {Bare, None}
      BY <2>2, <2>4 DEF System
    <3> QED
      BY <1>1, <2>3, <2>4, <3>1
  <2>6. PICK s : s = SetLive(g, l, v)
    OBVIOUS
  <2>7. /\ s \in System /\ s.live[Slot(l)] = v
        /\ s.up = g.up /\ s.routes = g.routes /\ s.key = g.key
        /\ s.ports = g.ports /\ s.gone = g.gone /\ s.bad = g.bad
        /\ \A x \in Slots : x # Slot(l) => s.live[x] = g.live[x]
    BY <2>2, <2>4, <2>5, <2>6, SetLiveIs
  <2>8. z = [s EXCEPT !.wgkey = g.key]
    <3>1. CASE l.val = Bare
      <4>1. z = WgPeerBare(y, l)
        BY <1>6, <3>1 DEF Effect
      <4>2. v = IF g.live[Slot(l)] = None THEN Bare ELSE g.live[Slot(l)]
        BY <2>3, <3>1
      <4> QED
        BY <2>1, <2>6, <4>1, <4>2 DEF WgPeerBare
    <3>2. CASE l.val # Bare
      <4>1. z = WgPeer(y, l)
        BY <1>6, <3>2 DEF Effect
      <4>2. v = l.val
        BY <2>3, <3>2
      <4> QED
        BY <1>6, <2>1, <2>6, <4>1, <4>2 DEF WgPeer
    <3> QED
      BY <3>1, <3>2
  <2>9. /\ z \in System /\ z.live = s.live /\ z.up = s.up
        /\ z.routes = s.routes /\ z.key = s.key /\ z.wgkey = g.key
        /\ z.ports = s.ports /\ z.gone = s.gone /\ z.bad = s.bad
    <3>1. g.key \in Nat \cup {None}
      BY <2>2 DEF System
    <3> QED
      BY <2>7, <2>8, <3>1 DEF System
  <2> QED
    BY <1>6, <2>2, <2>3, <2>4, <2>7, <2>9 DEF Changed, GivesKey
<1>7. CASE l.cmd = "link"
  <2>1. z = [y EXCEPT !.up = (l.val = Up)]
    BY <1>7 DEF Effect, WgLink
  <2>2. /\ z \in System /\ z.live = y.live /\ z.up = (l.val = Up)
        /\ z.routes = y.routes /\ z.key = y.key /\ z.wgkey = y.wgkey
        /\ z.ports = y.ports /\ z.gone = y.gone /\ z.bad = y.bad
    BY <2>1 DEF System
  <2> QED
    BY <1>7, <2>2 DEF Changed, Setters, Missed, GivesKey
<1>8. CASE l.cmd = "route"
  <2>1. z = [y EXCEPT !.routes = Append(@, <<l.arg, l.val>>)] /\ <<l.arg, l.val>> \in Nets \X Vals
    BY <1>8, LineKinds DEF Effect, IpRoute
  <2>2. PICK r \in Seq(Nets \X Vals) : r = Append(y.routes, <<l.arg, l.val>>)
    <3>1. y.routes \in Seq(Nets \X Vals)
      BY DEF System
    <3>2. ASSUME NEW S, NEW q \in Seq(S), NEW e \in S PROVE Append(q, e) \in Seq(S)
      OBVIOUS
    <3> QED
      BY <2>1, <3>1, <3>2, Zenon
  <2>3. /\ z \in System /\ z.live = y.live /\ z.up = y.up
        /\ z.routes = r /\ z.key = y.key /\ z.wgkey = y.wgkey
        /\ z.ports = y.ports /\ z.gone = y.gone /\ z.bad = y.bad
    <3>1. z = [y EXCEPT !.routes = r]
      BY <2>1, <2>2
    <3> QED
      BY <3>1 DEF System
  <2> QED
    BY <1>8, <2>2, <2>3 DEF Changed, Setters, Missed, GivesKey
<1>9. CASE l.cmd = "bridge"
  <2>1. l.arg \in Bridges /\ l.val \in DOMAIN Pair
    BY <1>9, LineKinds
  <2>2. AddIf(y, l) \subseteq Interfaces
    BY <2>1 DEF AddIf, Interfaces, Ports
  <2>3. z = y \/ z = [y EXCEPT !.ports[l.arg] = @ \cup AddIf(y, l)]
    BY <1>9 DEF Effect, BridgeAdd
  <2> HIDE DEF AddIf
  <2>4. /\ z \in System /\ z.live = y.live /\ z.up = y.up
        /\ z.routes = y.routes /\ z.key = y.key /\ z.wgkey = y.wgkey
        /\ z.gone = y.gone /\ z.bad = y.bad
    <3>1. CASE z = y
      BY <3>1
    <3>2. CASE z = [y EXCEPT !.ports[l.arg] = @ \cup AddIf(y, l)]
      <4>1. PICK ports \in [Bridges -> SUBSET Interfaces] : z = [y EXCEPT !.ports = ports]
        <5>1. y.ports \in [Bridges -> SUBSET Interfaces]
          BY DEF System
        <5>2. [y.ports EXCEPT ![l.arg] = @ \cup AddIf(y, l)] \in [Bridges -> SUBSET Interfaces]
          BY <2>1, <2>2, <5>1
        <5> QED
          BY <3>2, <5>2, Zenon
      <4> HIDE <2>3, <3>2
      <4> QED
        BY <4>1 DEF System
    <3> QED
      BY <2>3, <3>1, <3>2
  <2> QED
    BY <1>9, <2>4 DEF Changed, Setters, Missed, GivesKey
<1>10. CASE l.cmd \in Inert
  <2>1. z = y
    BY <1>10 DEF Effect, Inert
  <2> QED
    BY <1>10, <2>1 DEF Changed, Setters, Inert, Missed, GivesKey
<1> QED
  BY <1>3, <1>4, <1>5, <1>6, <1>7, <1>8, <1>9, <1>10, <1>11, LineKinds

\* brctl adds what AddIf says, unless the line is refused.
LEMMA BridgeIs ==
  ASSUME NEW y \in System, NEW l \in Lines, l.cmd = "bridge", NEW z, z = Effect(y, l)
  PROVE  /\ Refused(y, l) => z = y
         /\ ~Refused(y, l) => z.ports[l.arg] = y.ports[l.arg] \cup AddIf(y, l)
         /\ \A n \in Bridges : n # l.arg => z.ports[n] = y.ports[n]
<1>1. l.arg \in Bridges
  BY LineKinds
<1>2. z = IF Refused(y, l) THEN y ELSE [y EXCEPT !.ports[l.arg] = @ \cup AddIf(y, l)]
  BY DEF Effect, BridgeAdd
<1>3. CASE Refused(y, l)
  BY <1>2, <1>3
<1>4. CASE ~Refused(y, l)
  <2>1. z = [y EXCEPT !.ports[l.arg] = @ \cup AddIf(y, l)]
    BY <1>2, <1>4
  <2> QED
    BY <1>1, <1>4, <2>1 DEF System
<1> QED
  BY <1>3, <1>4

\* What a "no" command does to the system.
Undone(y, l, z) ==
  /\ z \in System /\ z.gone = y.gone /\ z.bad = y.bad /\ z.key = y.key /\ z.wgkey = y.wgkey
  /\ l.cmd = "peer" => z.live[Slot(l)] = None
  /\ \A x \in Volatile : x # Slot(l) \/ l.cmd # "peer" => z.live[x] = y.live[x]
  /\ l.cmd = "bridge" => z.ports[l.arg] = {}
  /\ \A n \in Bridges : n # l.arg \/ l.cmd # "bridge" => z.ports[n] = y.ports[n]

\* The volatile slots are slots, and a command that is not volatile has none of them.
LEMMA VolatileSlots ==
  /\ Volatile \subseteq Slots
  /\ \A k \in Peers : <<"peer", k>> \in Volatile
  /\ \A l \in Lines : /\ Slot(l) \in Volatile <=> l.cmd \in {"listenport", "peer"} \/ (l.cmd = "address" /\ l.arg = "wg0")
                      /\ Slot(l) \in Volatile /\ l.cmd # "peer" => l.val # Bare
<1>1. Volatile \subseteq Slots /\ \A k \in Peers : <<"peer", k>> \in Volatile
  BY DEF Volatile, Slots
<1>2. ASSUME NEW l \in Lines
      PROVE  /\ Slot(l) \in Volatile <=> l.cmd \in {"listenport", "peer"} \/ (l.cmd = "address" /\ l.arg = "wg0")
             /\ Slot(l) \in Volatile /\ l.cmd # "peer" => l.val # Bare
  <2>1. Slot(l) \in Volatile <=> l.cmd \in {"listenport", "peer"} \/ (l.cmd = "address" /\ l.arg = "wg0")
    BY LineKinds DEF Volatile, Slot
  <2>2. \A v \in Vals : v # 0
    BY CommandsAssumption
  <2>3. l.cmd = "listenport" \/ (l.cmd = "address" /\ l.arg = "wg0") => l.val \in Vals
    BY LineKinds
  <2> QED
    BY <2>1, <2>2, <2>3 DEF Bare
<1> QED
  BY <1>1, <1>2

LEMMA NoEffectIs ==
  ASSUME NEW y \in System, NEW l \in Lines, NEW z, z = NoEffect(y, l)
  PROVE  Undone(y, l, z)
<1>1. l.cmd \in Setters => Slot(l) \in Slots
  BY LineKinds DEF Setters, Slots, Slot
<1>2. Slot(l) \in Volatile /\ l.cmd # "peer" /\ l.cmd # "listenport" => l.cmd = "address" /\ l.arg = "wg0"
  BY VolatileSlots
<1>3. ASSUME l.cmd \in {"hostname", "nameserver", "peer"} \/ (l.cmd = "address" /\ l.arg # "wg0")
      PROVE  Undone(y, l, z)
  <2>1. z = SetLive(y, l, None)
    BY <1>3 DEF NoEffect, NoHostname, NoNameserver, NoIpAddress, NoWgPeer
  <2>2. Slot(l) \in Slots
    BY <1>1, <1>3 DEF Setters
  <2>3. /\ z \in System /\ z.live[Slot(l)] = None
        /\ z.key = y.key /\ z.wgkey = y.wgkey /\ z.ports = y.ports /\ z.gone = y.gone /\ z.bad = y.bad
        /\ \A x \in Slots : x # Slot(l) => z.live[x] = y.live[x]
    BY <2>1, <2>2, SetLiveIs
  <2>4. Slot(l) \in Volatile => l.cmd = "peer"
    BY <1>2, <1>3
  <2> QED
    BY <1>3, <2>3, <2>4, VolatileSlots DEF Undone
<1>4. CASE l.cmd = "address" /\ l.arg = "wg0"
  <2>1. z = [y EXCEPT !.up = FALSE]
    BY <1>4 DEF NoEffect, NoIpAddress
  <2>2. /\ z \in System /\ z.live = y.live /\ z.key = y.key /\ z.wgkey = y.wgkey
        /\ z.ports = y.ports /\ z.gone = y.gone /\ z.bad = y.bad
    BY <2>1 DEF System
  <2> QED
    BY <1>4, <2>2 DEF Undone
<1>5. CASE l.cmd = "route"
  <2>1. PICK r \in Seq(Nets \X Vals) : z = [y EXCEPT !.routes = r]
    <3>1. y.routes \in Seq(Nets \X Vals)
      BY DEF System
    <3>2. CASE y.routes = <<>>
      <4>1. z = y /\ y = [y EXCEPT !.routes = y.routes]
        BY <1>5, <3>2 DEF NoEffect, NoIpRoute, System
      <4> QED
        BY <3>1, <4>1
    <3>3. CASE y.routes # <<>>
      <4>1. z = [y EXCEPT !.routes = Front(y.routes)]
        BY <1>5, <3>3 DEF NoEffect, NoIpRoute
      <4>2. ASSUME NEW S, NEW q \in Seq(S), q # <<>> PROVE Front(q) \in Seq(S)
        BY <4>2 DEF Front
      <4>3. Front(y.routes) \in Seq(Nets \X Vals)
        BY <3>1, <3>3, <4>2, Zenon
      <4> QED
        BY <4>1, <4>3
    <3> QED
      BY <3>2, <3>3
  <2>2. /\ z \in System /\ z.live = y.live /\ z.key = y.key /\ z.wgkey = y.wgkey
        /\ z.ports = y.ports /\ z.gone = y.gone /\ z.bad = y.bad
    BY <2>1 DEF System
  <2> QED
    BY <1>5, <2>2 DEF Undone
<1>6. CASE l.cmd = "bridge"
  <2>1. l.arg \in Bridges
    BY <1>6, LineKinds
  <2>2. PICK e \in SUBSET Interfaces : e = {} /\ z = [y EXCEPT !.ports[l.arg] = e]
    BY <1>6 DEF NoEffect, NoBridgeAdd
  <2>3. /\ z \in System /\ z.live = y.live /\ z.key = y.key /\ z.wgkey = y.wgkey
        /\ z.gone = y.gone /\ z.bad = y.bad /\ z.ports[l.arg] = e
        /\ \A n \in Bridges : n # l.arg => z.ports[n] = y.ports[n]
    <3> HIDE <2>2
    <3>1. PICK ports \in [Bridges -> SUBSET Interfaces] :
            /\ z = [y EXCEPT !.ports = ports] /\ ports[l.arg] = e
            /\ \A n \in Bridges : n # l.arg => ports[n] = y.ports[n]
      <4>1. y.ports \in [Bridges -> SUBSET Interfaces]
        BY DEF System
      <4>2. PICK ports : ports = [y.ports EXCEPT ![l.arg] = e]
        OBVIOUS
      <4>3. /\ ports \in [Bridges -> SUBSET Interfaces] /\ ports[l.arg] = e
            /\ \A n \in Bridges : n # l.arg => ports[n] = y.ports[n]
        BY <2>1, <4>1, <4>2
      <4>4. z = [y EXCEPT !.ports = ports]
        BY <2>2, <4>2
      <4> QED
        BY <4>3, <4>4
    <3> QED
      BY <3>1 DEF System
  <2> QED
    BY <1>6, <2>2, <2>3 DEF Undone
<1>7. CASE l.cmd \notin {"hostname", "nameserver", "peer", "address", "route", "bridge"}
  <2>1. z = y
    BY <1>7 DEF NoEffect
  <2> QED
    BY <1>7, <2>1 DEF Undone
<1> QED
  BY <1>3, <1>4, <1>5, <1>6, <1>7

\* Loading makes a key at most.
LEMMA LoadedIs ==
  ASSUME NEW y \in System, NEW top, NEW z, z = Loaded(y, top)
  PROVE  /\ z \in System /\ z.live = y.live /\ z.wgkey = y.wgkey
         /\ z.ports = y.ports /\ z.gone = y.gone /\ z.bad = y.bad
         /\ y.key # None => z.key = y.key
BY GenKeyIs DEF Loaded

\* The commands about the key.
LEMMA KeysAre ==
  ASSUME NEW y \in System, NEW z
  PROVE  /\ z = WgRekey(y) => /\ z \in System /\ z.live = y.live /\ z.key = z.wgkey /\ z.key # None
                              /\ z.ports = y.ports /\ z.gone = y.gone /\ z.bad = y.bad /\ z.up = y.up /\ z.routes = y.routes
         /\ z = WgClearkey(y) => z \in System /\ z.live = y.live /\ z.ports = y.ports /\ z.gone = y.gone /\ z.bad = y.bad
<1>1. None \notin Nat /\ y.fresh \in Nat /\ y.fresh + 1 \in Nat
  BY CommandsAssumption DEF System
<1>2. ASSUME z = WgRekey(y)
      PROVE  /\ z \in System /\ z.live = y.live /\ z.key = z.wgkey /\ z.key # None
             /\ z.ports = y.ports /\ z.gone = y.gone /\ z.bad = y.bad /\ z.up = y.up /\ z.routes = y.routes
  BY <1>1, <1>2 DEF WgRekey, System
<1>3. ASSUME z = WgClearkey(y)
      PROVE  z \in System /\ z.live = y.live /\ z.ports = y.ports /\ z.gone = y.gone /\ z.bad = y.bad
  BY <1>3 DEF WgClearkey, System
<1> QED
  BY <1>2, <1>3

----------------------------------------------------------------------------
(* A boot: the lines take effect one after the other.                      *)

\* The rank of a line is the place of its command.
LEMMA RankIs ==
  ASSUME NEW l \in Lines
  PROVE  Rank(l) \in 1 .. 11 /\ Order[Rank(l)] = l.cmd
<1>1. DOMAIN Order = 1 .. 11
  BY DEF Order
<1>2. \E i \in 1 .. 11 : Order[i] = l.cmd
  <2>1. /\ Order[1] = "bridge" /\ Order[2] = "bridge disable" /\ Order[3] = "hostname"
        /\ Order[4] = "address" /\ Order[5] = "route" /\ Order[6] = "nameserver"
        /\ Order[7] = "filter" /\ Order[8] = "portmap" /\ Order[9] = "link"
        /\ Order[10] = "listenport" /\ Order[11] = "peer"
    BY DEF Order
  <2>2. l.cmd \in {"bridge", "bridge disable", "hostname", "address", "route", "nameserver",
                   "filter", "portmap", "link", "listenport", "peer"}
    BY LineKinds DEF Inert
  <2>3. \A i \in {1, 2, 3, 4, 5, 6, 7, 8, 9, 10, 11} : i \in 1 .. 11
    OBVIOUS
  <2> QED
    BY <2>1, <2>2, <2>3, Zenon
<1> QED
  BY <1>1, <1>2 DEF Rank

\* Some line is first.
LEMMA FirstIs ==
  ASSUME NEW top, top \subseteq Lines, top # {}, NEW l, l = First(top)
  PROVE  l \in top /\ \A m \in top : ~Before(m, l)
<1> DEFINE Least(f) == \A m \in top : ~Before(m, f)
<1>0. ASSUME \E f \in top : Least(f) PROVE l \in top /\ Least(l)
  <2>1. l = CHOOSE f \in top : Least(f)
    BY Zenon DEF First
  <2> HIDE DEF Least
  <2> QED
    BY <1>0, <2>1, Zenon
<1> SUFFICES \E f \in top : \A m \in top : ~Before(m, f)
  BY <1>0
<1>1. \A m \in top : Rank(m) \in Nat /\ Order[Rank(m)] = m.cmd /\ m.val \in Nat
  <2>1. ASSUME NEW m \in top PROVE Rank(m) \in 1 .. 11 /\ Order[Rank(m)] = m.cmd /\ m.val \in Nat
    <3>1. m \in Lines
      OBVIOUS
    <3>2. Rank(m) \in 1 .. 11 /\ Order[Rank(m)] = m.cmd
      BY <3>1, RankIs, Zenon
    <3>3. m.val \in Nat
      BY <3>1, LineShape, Zenon
    <3> QED
      BY <3>2, <3>3, Zenon
  <2>2. \A i \in 1 .. 11 : i \in Nat
    OBVIOUS
  <2> QED
    BY <2>1, <2>2, Zenon
<1>2. PICK r \in top : \A m \in top : Rank(r) <= Rank(m)
  <2> DEFINE S == {Rank(m) : m \in top}
  <2>1. S \subseteq Nat /\ S # {}
    BY <1>1
  <2>2. PICK x \in S : \A z \in S : x <= z
    BY <2>1, NatLeast
  <2> QED
    BY <2>2
<1>3. CASE r.cmd = "bridge"
  <2> DEFINE A == {m \in top : Rank(m) = Rank(r)}
             S == {m.arg : m \in A}
  <2>1. \A m \in A : m.cmd = "bridge" /\ m.arg \in Nat
    <3>1. Bridges \subseteq Nat
      BY CommandsAssumption
    <3> QED
      BY <1>1, <1>3, <3>1, LineKinds
  <2>2. PICK x \in S : \A z \in S : x <= z
    <3>1. S \subseteq Nat /\ S # {}
      BY <2>1
    <3> HIDE DEF S
    <3> QED
      BY <3>1, NatLeast
  <2> DEFINE V == {m.val : m \in {n \in A : n.arg = x}}
  <2>3. PICK v \in V : \A z \in V : v <= z
    <3>1. V \subseteq Nat /\ V # {}
      BY <1>1
    <3> HIDE DEF V
    <3> QED
      BY <3>1, NatLeast
  <2>4. PICK f \in A : f.arg = x /\ f.val = v
    OBVIOUS
  <2>5. ASSUME NEW m \in top PROVE ~Before(m, f)
    <3>1. CASE Rank(m) # Rank(r)
      BY <1>1, <1>2, <3>1 DEF Before
    <3>2. CASE Rank(m) = Rank(r)
      <4>1. m \in A /\ f \in A
        BY <3>2
      <4>2. m.cmd = "bridge" /\ m.arg \in Nat /\ f.arg \in Nat /\ f.arg <= m.arg
        BY <4>1, <2>1, <2>2, <2>4
      <4>3. m.arg = f.arg => f.val <= m.val
        BY <4>1, <2>3, <2>4
      <4>4. m.val \in Nat /\ f.val \in Nat /\ Rank(m) = Rank(f) /\ Rank(m) \in Nat
        BY <1>1, <3>2, <4>1
      <4> QED
        BY <4>2, <4>3, <4>4 DEF Before
    <3> QED
      BY <3>1, <3>2
  <2> QED
    BY <2>5
<1>4. CASE r.cmd # "bridge"
  <2> DEFINE V == {m.val : m \in {n \in top : Rank(n) = Rank(r)}}
  <2>1. PICK v \in V : \A z \in V : v <= z
    <3>1. V \subseteq Nat /\ V # {}
      BY <1>1
    <3> HIDE DEF V
    <3> QED
      BY <3>1, NatLeast
  <2>2. PICK f \in top : Rank(f) = Rank(r) /\ f.val = v
    OBVIOUS
  <2>3. ASSUME NEW m \in top PROVE ~Before(m, f)
    <3>1. CASE Rank(m) # Rank(r)
      BY <1>1, <1>2, <2>2, <3>1 DEF Before
    <3>2. CASE Rank(m) = Rank(r)
      <4>1. m.cmd # "bridge"
        BY <1>1, <1>4, <3>2
      <4>2. f.val <= m.val
        BY <3>2, <2>1, <2>2
      <4>3. m.val \in Nat /\ f.val \in Nat /\ Rank(m) = Rank(f) /\ Rank(m) \in Nat
        BY <1>1, <3>2, <2>2
      <4> QED
        BY <4>1, <4>2, <4>3 DEF Before
    <3> QED
      BY <3>1, <3>2
  <2> QED
    BY <2>3
<1> QED
  BY <1>3, <1>4

\* One line takes effect.
Turn(s) == <<Effect(s[1], First(s[2])), s[2] \ {First(s[2])}>>

\* What holds before a boot runs its first line, and is kept by the first of
\* any lines that are left, holds when none is left.
LEMMA BootInduct ==
  ASSUME NEW y \in System, NEW top, top \subseteq Lines, IsFiniteSet(top),
         NEW P, <<y, top>> \in P,
         \A z \in System : \A left \in SUBSET top : \A l \in left :
           <<z, left>> \in P /\ (\A m \in left : ~Before(m, l)) => <<Effect(z, l), left \ {l}>> \in P
  PROVE  BootConfig(y, top) \in System /\ <<BootConfig(y, top), {}>> \in P
<1> DEFINE E == System \X SUBSET top
           T == [s \in E |-> IF s[2] = {} THEN s ELSE Turn(s)]
           n == Cardinality(top)
           Listing(r) == [i \in 0 .. n |->
                           IF i = 0 THEN <<y, top>>
                           ELSE <<Effect(r[i - 1][1], First(r[i - 1][2])),
                                  r[i - 1][2] \ {First(r[i - 1][2])}>>]
<1>1. n \in Nat
  BY FS_CardinalityType
<1>2. ASSUME NEW s \in E, s[2] # {}
      PROVE  Turn(s) \in E /\ First(s[2]) \in s[2]
  <2>1. PICK l : l = First(s[2])
    OBVIOUS
  <2>2. s[1] \in System /\ s[2] \subseteq top /\ s[2] \subseteq Lines
    OBVIOUS
  <2>3. l \in s[2] /\ l \in Lines
    BY <1>2, <2>1, <2>2, FirstIs
  <2>4. PICK z : z = Effect(s[1], l)
    OBVIOUS
  <2>5. z \in System
    BY <2>2, <2>3, <2>4, EffectIs DEF Changed
  <2>6. Turn(s) = <<z, s[2] \ {l}>>
    BY <2>1, <2>4 DEF Turn
  <2> QED
    BY <2>1, <2>2, <2>3, <2>5, <2>6
<1>3. T \in [E -> E]
  <2> HIDE DEF E
  <2>1. ASSUME NEW s \in E PROVE (IF s[2] = {} THEN s ELSE Turn(s)) \in E
    BY <1>2
  <2> QED
    BY <2>1, Zenon
<1>4. <<y, top>> \in E
  OBVIOUS
<1>5. PICK f \in [0 .. n -> E] : f[0] = <<y, top>> /\ \A i \in 1 .. n : f[i] = T[f[i - 1]]
  <2> HIDE DEF E, T, n
  <2>1. \E f : Course(E, <<y, top>>, T, n, f)
    BY <1>1, <1>3, <1>4, Iterate, Zenon
  <2> QED
    BY <2>1, Zenon DEF Course
<1> DEFINE Sized(i, s) == IsFiniteSet(s[2]) /\ Cardinality(s[2]) = n - i
<1>6. ASSUME NEW s \in E, NEW i \in 1 .. n, Sized(i - 1, s)
      PROVE  s[2] # {} /\ Sized(i, Turn(s))
  <2>1. s[2] # {}
    <3>1. Cardinality(s[2]) # 0
      BY <1>1, <1>6
    <3> QED
      BY <3>1, FS_EmptySet
  <2>2. First(s[2]) \in s[2]
    BY <1>2, <2>1
  <2>3. Turn(s)[2] = s[2] \ {First(s[2])}
    BY DEF Turn
  <2>4. IsFiniteSet(s[2] \ {First(s[2])}) /\ Cardinality(s[2] \ {First(s[2])}) = Cardinality(s[2]) - 1
    BY <1>6, <2>2, FS_RemoveElement
  <2>5. Cardinality(s[2]) - 1 = n - i
    BY <1>1, <1>6
  <2> QED
    BY <2>1, <2>3, <2>4, <2>5
<1>7. \A i \in Nat : i <= n => Sized(i, f[i])
  <2> DEFINE Q == {i \in Nat : i <= n => Sized(i, f[i])}
  <2>1. 0 \in Q
    BY <1>1, <1>5
  <2>2. ASSUME NEW i \in Nat, i \in Q PROVE i + 1 \in Q
    <3> SUFFICES ASSUME i + 1 <= n PROVE Sized(i + 1, f[i + 1])
      OBVIOUS
    <3>1. i + 1 \in 1 .. n /\ (i + 1) - 1 = i /\ i \in 0 .. n /\ Sized(i, f[i])
      BY <1>1, <2>2
    <3>2. f[i] \in E /\ f[i + 1] = T[f[i]]
      BY <1>5, <3>1
    <3> HIDE DEF Sized, E
    <3>3. f[i][2] # {} /\ Sized(i + 1, Turn(f[i]))
      BY <1>6, <3>1, <3>2
    <3> QED
      BY <3>2, <3>3
  <2> HIDE DEF Q
  <2>3. Nat \subseteq Q
    BY <2>1, <2>2, NatInductive
  <2> QED
    BY <2>3 DEF Q
<1>8. f = Listing(f)
  <2>1. ASSUME NEW i \in 0 .. n PROVE f[i] = Listing(f)[i]
    <3>1. CASE i = 0
      BY <1>1, <1>5, <3>1
    <3>2. CASE i # 0
      <4>1. i \in 1 .. n /\ i - 1 \in 0 .. n /\ i - 1 \in Nat /\ i - 1 <= n
        BY <1>1, <3>2
      <4>2. f[i - 1] \in E /\ f[i] = T[f[i - 1]] /\ Sized(i - 1, f[i - 1])
        BY <1>5, <1>7, <4>1
      <4>3. f[i - 1][2] # {}
        <5> HIDE DEF E, Sized
        <5> QED
          BY <1>6, <4>1, <4>2
      <4>4. f[i] = Turn(f[i - 1])
        <5> HIDE DEF E
        <5> QED
          BY <4>2, <4>3
      <4> QED
        BY <4>4, <3>2 DEF Turn
    <3> QED
      BY <3>1, <3>2
  <2> QED
    BY <2>1
<1> DEFINE run == CHOOSE r : r = Listing(r)
<1>9. run = Listing(run)
  <2> HIDE DEF Listing
  <2> QED
    BY <1>8, Zenon
<1>10. BootConfig(y, top) = run[n][1]
  BY Zenon DEF BootConfig
<1> HIDE DEF run
<1>11. \A i \in Nat : i <= n => run[i] \in E /\ run[i] \in P /\ Sized(i, run[i])
  <2> DEFINE Q == {i \in Nat : i <= n => run[i] \in E /\ run[i] \in P /\ Sized(i, run[i])}
  <2>1. 0 \in Q
    <3>1. run[0] = <<y, top>>
      BY <1>1, <1>9
    <3> QED
      BY <1>1, <1>4, <3>1
  <2>2. ASSUME NEW i \in Nat, i \in Q PROVE i + 1 \in Q
    <3> SUFFICES ASSUME i + 1 <= n
                 PROVE  run[i + 1] \in E /\ run[i + 1] \in P /\ Sized(i + 1, run[i + 1])
      OBVIOUS
    <3>1. i + 1 \in 1 .. n /\ (i + 1) - 1 = i /\ i + 1 \in 0 .. n
      BY <1>1
    <3>2. run[i] \in E /\ run[i] \in P /\ Sized(i, run[i])
      BY <1>1, <2>2
    <3>3. run[i + 1] = Listing(run)[i + 1]
      BY <1>9
    <3>4. Listing(run)[i + 1] = Turn(run[i])
      BY <3>1 DEF Turn
    <3>5. run[i][2] # {} /\ Sized(i + 1, Turn(run[i]))
      <4> HIDE DEF Sized, E
      <4> QED
        BY <1>6, <3>1, <3>2
    <3>6. Turn(run[i]) \in P
      <4>1. PICK z \in System, left \in SUBSET top : run[i] = <<z, left>>
        BY <3>2
      <4>2. run[i][1] = z /\ run[i][2] = left /\ left # {} /\ <<z, left>> \in P
        BY <3>2, <3>5, <4>1
      <4>3. PICK l : l = First(left)
        OBVIOUS
      <4>4. l \in left /\ \A m \in left : ~Before(m, l)
        BY <4>2, <4>3, FirstIs
      <4>5. Turn(run[i]) = <<Effect(z, l), left \ {l}>>
        BY <4>2, <4>3 DEF Turn
      <4> QED
        BY <4>2, <4>4, <4>5, Zenon
    <3>7. Turn(run[i]) \in E
      BY <1>2, <3>2, <3>5
    <3> QED
      BY <3>3, <3>4, <3>5, <3>6, <3>7
  <2> HIDE DEF Q
  <2>3. Nat \subseteq Q
    BY <2>1, <2>2, NatInductive
  <2> QED
    BY <2>3 DEF Q
<1>12. run[n] \in E /\ run[n] \in P /\ Sized(n, run[n])
  BY <1>1, <1>11
<1>13. run[n][2] = {}
  <2>1. Cardinality(run[n][2]) = 0 /\ IsFiniteSet(run[n][2])
    BY <1>1, <1>12
  <2> QED
    BY <2>1, FS_EmptySet
<1>14. run[n] = <<run[n][1], {}>> /\ run[n][1] \in System
  BY <1>12, <1>13
<1> QED
  BY <1>10, <1>12, <1>14

\* The system before the first line: a new wg0 without peers, bridges without
\* interfaces, and a key.
Blank(y) ==
  /\ y \in System /\ y.key # None
  /\ \A x \in Volatile : y.live[x] = None
  /\ \A n \in Bridges : y.ports[n] = {}

LEMMA BootIs ==
  ASSUME NEW y \in System, NEW plugged, NEW z, z = Boot(y, plugged)
  PROVE  Blank(z) /\ z.gone = y.gone \ plugged
<1>1. PICK live \in [Slots -> Vals \cup {Bare, None}], ports \in [Bridges -> SUBSET Interfaces],
           gone \in SUBSET Removable, k \in Nat \cup {None} :
        /\ \A x \in Volatile : live[x] = None
        /\ \A n \in Bridges : ports[n] = {}
        /\ gone = y.gone \ plugged /\ k = None
        /\ live = [x \in Slots |-> IF x \in Volatile THEN None ELSE y.live[x]]
        /\ ports = [n \in Bridges |-> {}]
  <2>1. [x \in Slots |-> IF x \in Volatile THEN None ELSE y.live[x]] \in [Slots -> Vals \cup {Bare, None}]
    BY DEF System
  <2>2. [n \in Bridges |-> {}] \in [Bridges -> SUBSET Interfaces]
    OBVIOUS
  <2>3. y.gone \ plugged \in SUBSET Removable
    BY DEF System
  <2>4. \A x \in Volatile : [s \in Slots |-> IF s \in Volatile THEN None ELSE y.live[s]][x] = None
    BY VolatileSlots
  <2> QED
    BY <2>1, <2>2, <2>3, <2>4
<1>2. PICK off : off = [y EXCEPT !.live = live, !.up = FALSE, !.wgkey = k, !.ports = ports, !.gone = gone]
  OBVIOUS
<1>3. z = IF y.key = None THEN WgRekey(Loaded(off, file)) ELSE off
  BY <1>1, <1>2 DEF Boot
<1>4. off \in System /\ off.live = live /\ off.ports = ports /\ off.gone = gone /\ off.key = y.key
  <2> HIDE <1>1
  <2> QED
    BY <1>2 DEF System
<1>5. PICK w : w = Loaded(off, file)
  OBVIOUS
<1>6. w \in System /\ w.live = live /\ w.ports = ports /\ w.gone = gone
  BY <1>4, <1>5, LoadedIs
<1>7. z \in System /\ z.live = live /\ z.ports = ports /\ z.gone = gone /\ z.key # None
  <2>1. CASE y.key = None
    BY <1>3, <1>5, <1>6, <2>1, KeysAre
  <2>2. CASE y.key # None
    BY <1>3, <1>4, <2>2
  <2> QED
    BY <2>1, <2>2
<1> QED
  BY <1>1, <1>7 DEF Blank

----------------------------------------------------------------------------
(* Types.                                                                  *)

\* The types, and that file and shell have only lines that were entered, finitely many.
Stored(top) == top \subseteq Asked /\ IsFiniteSet(top)
TypeInv ==
  /\ Stored(file) /\ (shell # None => Stored(shell))
  /\ sys \in System
  /\ steps \in 0 .. MaxSteps
  /\ behind \in BOOLEAN /\ drifted \in BOOLEAN /\ cleared \in BOOLEAN

\* No command adds but its own line.
LEMMA EditsStored ==
  ASSUME NEW top, Stored(top), NEW y, NEW l \in Asked
  PROVE  /\ Stored(Kept(y, top))
         /\ Stored(Edited(top, y, l))
         /\ Stored(RemoveLine(top, l))
<1>1. \A sub : sub \subseteq top => Stored(sub)
  BY FS_Subset DEF Stored
<1>2. \A sub : sub \subseteq top => Stored(sub \cup {l})
  <2>1. ASSUME NEW sub, sub \subseteq top PROVE Stored(sub \cup {l})
    <3>1. IsFiniteSet(sub \cup {l})
      BY <1>1, <2>1, FS_AddElement DEF Stored
    <3> QED
      BY <2>1, <3>1 DEF Stored
  <2> QED
    BY <2>1
<1>3. Stored(Kept(y, top)) /\ Stored(RemoveLine(top, l))
  BY <1>1 DEF Kept, RemoveLine
<1>4. Edited(top, y, l) \subseteq top \/ \E sub : sub \subseteq top /\ Edited(top, y, l) = sub \cup {l}
  BY DEF Edited, AddLine
<1> QED
  BY <1>1, <1>2, <1>3, <1>4

\* A stored configuration that boots leaves a system.
LEMMA BootType ==
  ASSUME NEW y \in System, NEW top, Stored(top)
  PROVE  BootConfig(y, top) \in System
<1> DEFINE P == {s \in System \X SUBSET top : TRUE}
<1>1. top \subseteq Lines /\ IsFiniteSet(top)
  BY CommandsAssumption DEF Stored
<1>2. <<y, top>> \in P
  OBVIOUS
<1>3. ASSUME NEW z \in System, NEW left \in SUBSET top, NEW l \in left
      PROVE  <<Effect(z, l), left \ {l}>> \in P
  <2>1. Effect(z, l) \in System
    BY <1>1, EffectIs DEF Changed
  <2> QED
    BY <2>1
<1> HIDE DEF P
<1> QED
  BY <1>1, <1>2, <1>3, BootInduct

\* What a step of the specification is, action by action: the ones of vtysh -e,
\* of the shell and of the system.
LEMMA Steps ==
  ASSUME [Next]_vars
  PROVE  \/ \E l \in Asked : EvalSet(l) \/ EvalNo(l) \/ ShellSet(l) \/ ShellNo(l)
         \/ \E l \in Asked : EvalNoBeginning(l) \/ ShellNoBeginning(l)
         \/ EvalRekey \/ EvalClearkey \/ Open \/ ShellWrite \/ ShellExit
         \/ \E i \in Removable : Unplug(i)
         \/ \E bad \in SUBSET Fallible : Resolve(bad)
         \/ \E plugged \in SUBSET sys.gone : Reboot(plugged)
         \/ UNCHANGED vars
BY DEF Next

\* Every step keeps the types.
LEMMA TypeStep == TypeInv /\ [Next]_vars => TypeInv'
<1> SUFFICES ASSUME TypeInv, [Next]_vars PROVE TypeInv'
  OBVIOUS
<1>1. Asked \subseteq Lines /\ MaxSteps \in Nat
  BY CommandsAssumption
<1>2. PICK y : y = Loaded(sys, file)
  OBVIOUS
<1>3. y \in System /\ sys \in System /\ Stored(file)
  BY <1>2, LoadedIs DEF TypeInv
<1>4. ASSUME Count PROVE steps' \in 0 .. MaxSteps
  BY <1>1, <1>4 DEF Count, TypeInv
<1>5. \A l \in Asked : /\ Effect(sys, l) \in System /\ NoEffect(sys, l) \in System
                       /\ Effect(y, l) \in System /\ NoEffect(y, l) \in System
  BY <1>1, <1>3, EffectIs, NoEffectIs DEF Changed, Undone
<1>6. \A w, l : Stored(Kept(w, file)) /\ (l \in Asked => Stored(Edited(Kept(w, file), sys, l)) /\ Stored(RemoveLine(Kept(w, file), l)))
  <2>1. \A w : Stored(Kept(w, file))
    BY <1>3, FS_Subset DEF Stored, Kept
  <2> QED
    BY <2>1, EditsStored
<1>7. ASSUME NEW ok, NEW top, NEW z, Stored(top), z \in System, Eval(ok, top, z), cleared' \in BOOLEAN
      PROVE  TypeInv'
  BY <1>4, <1>7 DEF Eval, TypeInv, Stored
<1>8. ASSUME NEW l \in Asked, EvalSet(l) \/ EvalNo(l)
      PROVE  TypeInv'
  <2>1. cleared' \in BOOLEAN
    BY <1>8 DEF EvalSet, EvalNo, TypeInv
  <2> QED
    BY <1>2, <1>5, <1>6, <1>7, <1>8, <2>1 DEF EvalSet, EvalNo
<1>9. ASSUME NEW l \in Asked, ShellSet(l) \/ ShellNo(l)
      PROVE  TypeInv'
  <2>1. Stored(Edited(shell, sys, l)) /\ Stored(RemoveLine(shell, l))
    BY <1>9, EditsStored DEF ShellSet, ShellNo, TypeInv
  <2>2. cleared' \in BOOLEAN /\ steps' \in 0 .. MaxSteps /\ sys' \in System /\ Stored(shell')
    BY <1>4, <1>5, <1>9, <2>1 DEF ShellSet, ShellNo, TypeInv
  <2>3. UNCHANGED <<file, behind, drifted>>
    BY <1>9 DEF ShellSet, ShellNo
  <2> QED
    BY <2>2, <2>3 DEF TypeInv, Stored
<1>16. ASSUME NEW l \in Asked, EvalNoBeginning(l) \/ ShellNoBeginning(l)
       PROVE  TypeInv'
  <2>1. CASE EvalNoBeginning(l)
    <3>1. /\ file' \subseteq Kept(sys, file) /\ sys' = y /\ Count
          /\ behind' \in BOOLEAN /\ drifted' = TRUE /\ UNCHANGED <<shell, cleared>>
      BY <1>2, <2>1 DEF EvalNoBeginning
    <3>2. Stored(file')
      BY <1>6, <3>1, FS_Subset DEF Stored
    <3>3. /\ (shell # None)' = (shell # None)
          /\ (shell # None => Stored(shell))'
      BY <3>1 DEF TypeInv, Stored
    <3> QED
      BY <1>3, <1>4, <3>1, <3>2, <3>3 DEF TypeInv, Stored
  <2>2. CASE ShellNoBeginning(l)
    <3>1. /\ shell # None /\ shell' \subseteq shell /\ Count
          /\ drifted' = TRUE /\ UNCHANGED <<file, sys, behind, cleared>>
      BY <2>2 DEF ShellNoBeginning
    <3>2. Stored(shell')
      BY <3>1, FS_Subset DEF Stored, TypeInv
    <3> QED
      BY <1>4, <3>1, <3>2 DEF TypeInv, Stored
  <2> QED
    BY <1>16, <2>1, <2>2
<1>17. ASSUME NEW bad \in SUBSET Fallible, Resolve(bad)
       PROVE  TypeInv'
  <2>1. sys' = [sys EXCEPT !.bad = bad]
    BY <1>17 DEF Resolve
  <2>2. sys' \in System
    BY <1>3, <2>1 DEF System
  <2> QED
    BY <1>4, <1>17, <2>2 DEF Resolve, TypeInv, Stored
<1>10. CASE EvalRekey \/ EvalClearkey
  <2>1. WgRekey(y) \in System /\ WgClearkey(y) \in System
    BY <1>3, KeysAre
  <2> QED
    BY <1>2, <1>6, <1>7, <1>10, <2>1 DEF EvalRekey, EvalClearkey
<1>11. CASE Open
  BY <1>2, <1>3, <1>4, <1>6, <1>11 DEF Open, TypeInv, Stored
<1>12. CASE ShellWrite \/ ShellExit
  BY <1>12 DEF ShellWrite, ShellExit, TypeInv, Stored
<1>13. ASSUME NEW i \in Removable, Unplug(i)
       PROVE  TypeInv'
  <2>1. PICK ports \in [Bridges -> SUBSET Interfaces], gone \in SUBSET Removable :
          sys' = [sys EXCEPT !.gone = gone, !.ports = ports]
    <3>1. [n \in Bridges |-> sys.ports[n] \ {i}] \in [Bridges -> SUBSET Interfaces]
      BY <1>3 DEF System
    <3>2. sys.gone \cup {i} \in SUBSET Removable
      BY <1>3 DEF System
    <3> QED
      BY <1>13, <3>1, <3>2 DEF Unplug
  <2>2. sys' \in System
    BY <1>3, <2>1 DEF System
  <2> QED
    BY <1>4, <1>13, <2>2 DEF Unplug, TypeInv, Stored
<1>14. ASSUME NEW plugged \in SUBSET sys.gone, Reboot(plugged)
       PROVE  TypeInv'
  <2>1. PICK on : on = Boot(sys, plugged)
    OBVIOUS
  <2>2. on \in System
    BY <1>3, <2>1, BootIs DEF Blank
  <2>3. Stored(file')
    BY <1>3, <1>6, <1>14 DEF Reboot
  <2>4. sys' \in System
    BY <1>14, <2>1, <2>2, <2>3, BootType DEF Reboot
  <2>5. shell' = None /\ behind' \in BOOLEAN /\ cleared' \in BOOLEAN /\ drifted' \in BOOLEAN
    BY <1>14 DEF Reboot, TypeInv
  <2>6. steps' \in 0 .. MaxSteps
    BY <1>4, <1>14 DEF Reboot
  <2> QED
    BY <2>3, <2>4, <2>5, <2>6 DEF TypeInv, Stored
<1>15. CASE UNCHANGED vars
  BY <1>15 DEF vars, TypeInv, Stored
<1> QED
  BY <1>8, <1>9, <1>10, <1>11, <1>12, <1>13, <1>14, <1>15, <1>16, <1>17, Steps

\* The first state is as after a boot.
LEMMA InitType == Init => TypeInv
<1> SUFFICES ASSUME Init PROVE TypeInv
  OBVIOUS
<1>1. Stored({})
  BY FS_EmptySet DEF Stored
<1>2. sys \in System
  BY DEF Init, System
<1>3. 0 \in 0 .. MaxSteps
  BY CommandsAssumption
<1> QED
  BY <1>1, <1>2, <1>3 DEF Init, TypeInv

\* The shape of the state holds for any configuration that is entered, and however
\* the lines of a file are run at a boot (vtysh.c vtysh_boot_config, start_wg.sh).
THEOREM CommandsTypeCorrect == Spec => []TypeOK
<1>1. TypeInv => TypeOK
  BY CommandsAssumption DEF TypeInv, TypeOK, Stored
<1> QED
  BY <1>1, InitType, TypeStep, PTL DEF Spec

----------------------------------------------------------------------------
(* No line contradicts another one.                                        *)

\* File and shell agree with themselves.
SingleInv == Single(file) /\ (shell # None => Single(shell))

\* Every step keeps both so.
LEMMA SingleStep == SingleInv /\ [Next]_vars => SingleInv'
<1> SUFFICES ASSUME SingleInv, [Next]_vars PROVE SingleInv'
  OBVIOUS
<1> USE DEF SingleInv
<1>1. Asked \subseteq Lines
  BY CommandsAssumption
<1>2. \A l \in Lines : Single(Kept(sys, file))
                       /\ Single(Edited(Kept(sys, file), sys, l))
                       /\ Single(RemoveLine(Kept(sys, file), l))
  BY EditsSingle
<1>3. \A y : Single(Kept(y, file))
  BY SingleSubset DEF Kept
<1>4. ASSUME NEW l \in Asked, EvalSet(l) \/ EvalNo(l)
      PROVE  SingleInv'
  <2>1. UNCHANGED shell /\ file' \in {Edited(Kept(sys, file), sys, l), RemoveLine(Kept(sys, file), l)}
    BY <1>4 DEF EvalSet, EvalNo, Eval
  <2> QED
    BY <1>1, <1>2, <2>1 DEF Single
<1>5. ASSUME NEW l \in Asked, ShellSet(l) \/ ShellNo(l)
      PROVE  SingleInv'
  <2>1. /\ shell # None /\ UNCHANGED file
        /\ shell' \in {Edited(shell, sys, l), RemoveLine(shell, l)}
    BY <1>5 DEF ShellSet, ShellNo
  <2>2. Single(Edited(shell, sys, l)) /\ Single(RemoveLine(shell, l))
    BY <1>1, <2>1, EditsSingle
  <2> QED
    BY <2>1, <2>2 DEF Single
<1>6. CASE EvalRekey \/ EvalClearkey
  BY <1>3, <1>6 DEF EvalRekey, EvalClearkey, Eval, Single
<1>7. CASE Open
  BY <1>3, <1>7 DEF Open, Single
<1>8. CASE ShellWrite \/ ShellExit
  BY <1>8 DEF ShellWrite, ShellExit, Single
<1>9. ASSUME NEW i \in Removable, Unplug(i)
      PROVE  SingleInv'
  BY <1>9 DEF Unplug, Single
<1>10. ASSUME NEW plugged \in SUBSET sys.gone, Reboot(plugged)
       PROVE  SingleInv'
  <2>1. shell' = None /\ (file' = file \/ file' = Kept(Boot(sys, plugged), file))
    BY <1>10 DEF Reboot
  <2> QED
    BY <1>3, <2>1 DEF Single
<1>11. CASE UNCHANGED vars
  BY <1>11 DEF vars, Single
<1>12. ASSUME NEW l \in Asked, EvalNoBeginning(l) \/ ShellNoBeginning(l)
       PROVE  SingleInv'
  <2>1. \/ UNCHANGED shell /\ file' \subseteq Kept(sys, file)
        \/ UNCHANGED file /\ shell # None /\ shell' \subseteq shell
    BY <1>12 DEF EvalNoBeginning, ShellNoBeginning
  <2> QED
    BY <1>3, <2>1, SingleSubset DEF Single
<1>13. ASSUME NEW bad \in SUBSET Fallible, Resolve(bad)
       PROVE  SingleInv'
  BY <1>13 DEF Resolve, Single
<1> QED
  BY <1>4, <1>5, <1>6, <1>7, <1>8, <1>9, <1>10, <1>11, <1>12, <1>13, Steps

\* No command is in the file or in a shell twice with different arguments, and no
\* filter rule is both inserted and appended, for any lines and any number of
\* commands (cmd_vpn.c, cmd_ip.c, cmd_fw.c; vtysh_config.c config_del_line_byleft).
THEOREM LinesDoNotContradict == Spec => []OneLinePerCommand
<1>1. Init => SingleInv
  BY DEF Init, SingleInv, Single
<1>2. SingleInv => OneLinePerCommand
  BY DEF SingleInv, Single, OneLinePerCommand
<1> QED
  BY <1>1, <1>2, SingleStep, PTL DEF Spec

----------------------------------------------------------------------------
(* The private key.                                                        *)

\* The key file is there unless it was deleted, and then a wg0 that has peers
\* uses it.
KeyOf(y, c) ==
  /\ y.key = None => c
  /\ ~c /\ (\E k \in Peers : y.live[<<"peer", k>>] # None) => y.wgkey = y.key
KeyInv == KeyOf(sys, cleared)

\* Commands, loading and boots keep this, a command about a peer even after the
\* key was deleted.
LEMMA KeyKept ==
  ASSUME NEW y \in System, NEW c \in BOOLEAN, KeyOf(y, c)
  PROVE  /\ \A l \in Lines : KeyOf(Effect(y, l), c /\ ~GivesKey(y, l))
         /\ \A l \in Lines : KeyOf(NoEffect(y, l), c)
         /\ \A top : KeyOf(Loaded(y, top), c)
<1>1. ASSUME NEW l \in Lines PROVE KeyOf(Effect(y, l), c /\ ~GivesKey(y, l))
  <2>1. PICK z : z = Effect(y, l)
    OBVIOUS
  <2>2. Changed(y, l, z)
    BY <2>1, EffectIs
  <2>3. CASE GivesKey(y, l)
    <3>1. z.wgkey = z.key /\ z.key # None
      BY <2>2, <2>3 DEF Changed
    <3> QED
      BY <2>1, <2>3, <3>1 DEF KeyOf
  <2>4. CASE ~GivesKey(y, l)
    <3>1. z.wgkey = y.wgkey /\ (y.key # None => z.key = y.key)
      BY <2>2, <2>4 DEF Changed
    <3>2. ASSUME NEW k \in Peers PROVE z.live[<<"peer", k>>] = y.live[<<"peer", k>>]
      <4>1. <<"peer", k>> \in Slots
        BY VolatileSlots
      <4>2. CASE Missed(y, l)
        <5>1. l.cmd \in Setters /\ l.val # Bare
          BY <4>2, MissedIs DEF Setters
        <5> QED
          BY <2>2, <4>1, <4>2, <5>1 DEF Changed
      <4>3. CASE ~Missed(y, l)
        <5>1. <<"peer", k>> # Slot(l)
          BY <2>4, <4>3 DEF Slot, GivesKey
        <5> QED
          BY <2>2, <4>1, <5>1 DEF Changed
      <4> QED
        BY <4>2, <4>3
    <3> QED
      BY <2>1, <2>4, <3>1, <3>2 DEF KeyOf
  <2> QED
    BY <2>3, <2>4
<1>2. ASSUME NEW l \in Lines PROVE KeyOf(NoEffect(y, l), c)
  <2>1. PICK z : z = NoEffect(y, l)
    OBVIOUS
  <2>2. Undone(y, l, z)
    BY <2>1, NoEffectIs
  <2>3. z.wgkey = y.wgkey /\ z.key = y.key
    BY <2>2 DEF Undone
  <2>4. ASSUME NEW k \in Peers, z.live[<<"peer", k>>] # None PROVE y.live[<<"peer", k>>] # None
    <3>1. <<"peer", k>> \in Volatile
      BY VolatileSlots
    <3>2. CASE <<"peer", k>> = Slot(l) /\ l.cmd = "peer"
      BY <2>2, <2>4, <3>2 DEF Undone
    <3>3. CASE ~(<<"peer", k>> = Slot(l) /\ l.cmd = "peer")
      BY <2>2, <2>4, <3>1, <3>3 DEF Undone
    <3> QED
      BY <3>2, <3>3
  <2> QED
    BY <2>1, <2>3, <2>4 DEF KeyOf
<1>3. ASSUME NEW top PROVE KeyOf(Loaded(y, top), c)
  <2>1. PICK z : z = Loaded(y, top)
    OBVIOUS
  <2>2. /\ z.live = y.live /\ z.wgkey = y.wgkey /\ (y.key # None => z.key = y.key)
    BY <2>1, LoadedIs
  <2> QED
    BY <2>1, <2>2 DEF KeyOf
<1> QED
  BY <1>1, <1>2, <1>3

\* A boot ends with it, whatever was before.
LEMMA BootKey ==
  ASSUME NEW y, Blank(y), NEW top, Stored(top)
  PROVE  KeyOf(BootConfig(y, top), FALSE)
<1> DEFINE P == {s \in System \X SUBSET top : KeyOf(s[1], FALSE)}
<1>1. top \subseteq Lines /\ IsFiniteSet(top)
  BY CommandsAssumption DEF Stored
<1>2. ASSUME NEW z \in System, NEW left \in SUBSET top
      PROVE  <<z, left>> \in P <=> KeyOf(z, FALSE)
  <2>1. <<z, left>> \in System \X SUBSET top /\ <<z, left>>[1] = z
    OBVIOUS
  <2> QED
    BY <2>1, Zenon
<1>3. y \in System /\ <<y, top>> \in P
  BY <1>2, VolatileSlots DEF Blank, KeyOf
<1>4. ASSUME NEW z \in System, NEW left \in SUBSET top, NEW l \in left, <<z, left>> \in P
      PROVE  <<Effect(z, l), left \ {l}>> \in P
  <2>1. l \in Lines /\ Effect(z, l) \in System
    BY <1>1, EffectIs DEF Changed
  <2>2. KeyOf(z, FALSE)
    BY <1>2, <1>4
  <2>3. KeyOf(Effect(z, l), FALSE /\ ~GivesKey(z, l))
    BY <2>1, <2>2, KeyKept
  <2>4. KeyOf(Effect(z, l), FALSE)
    BY <2>3 DEF KeyOf
  <2> HIDE DEF P
  <2> QED
    BY <1>2, <2>1, <2>4
<1> HIDE DEF P
<1>5. BootConfig(y, top) \in System /\ <<BootConfig(y, top), {}>> \in P
  BY <1>1, <1>3, <1>4, BootInduct
<1> QED
  BY <1>2, <1>5

\* Every step keeps the key.
LEMMA KeyStep == TypeInv /\ TypeInv' /\ KeyInv /\ [Next]_vars => KeyInv'
<1> SUFFICES ASSUME TypeInv, TypeInv', KeyInv, [Next]_vars PROVE KeyInv'
  OBVIOUS
<1>1. Asked \subseteq Lines
  BY CommandsAssumption
<1>2. PICK y : y = Loaded(sys, file)
  OBVIOUS
<1>3. /\ y \in System /\ sys \in System /\ cleared \in BOOLEAN
      /\ KeyOf(sys, cleared) /\ KeyOf(y, cleared)
  BY <1>2, LoadedIs, KeyKept DEF TypeInv, KeyInv
<1>4. ASSUME NEW l \in Asked, EvalSet(l) \/ ShellSet(l)
      PROVE  KeyInv'
  <2>1. cleared' = (cleared /\ ~GivesKey(sys, l)) /\ (sys' = Effect(y, l) \/ sys' = Effect(sys, l))
    BY <1>2, <1>4 DEF EvalSet, ShellSet, Eval
  <2>2. y.bad = sys.bad
    BY <1>2, <1>3, LoadedIs
  <2>3. GivesKey(y, l) <=> GivesKey(sys, l)
    BY <2>2 DEF GivesKey, Missed
  <2>4. KeyOf(Effect(y, l), cleared /\ ~GivesKey(y, l)) /\ KeyOf(Effect(sys, l), cleared /\ ~GivesKey(sys, l))
    BY <1>1, <1>3, KeyKept
  <2> QED
    BY <2>1, <2>3, <2>4 DEF KeyInv, KeyOf
<1>5. ASSUME NEW l \in Asked, EvalNo(l) \/ ShellNo(l)
      PROVE  KeyInv'
  <2>1. cleared' = cleared /\ (sys' = NoEffect(y, l) \/ sys' = NoEffect(sys, l))
    BY <1>2, <1>5 DEF EvalNo, ShellNo, Eval
  <2>2. KeyOf(NoEffect(y, l), cleared) /\ KeyOf(NoEffect(sys, l), cleared)
    BY <1>1, <1>3, KeyKept
  <2> QED
    BY <2>1, <2>2 DEF KeyInv, KeyOf
<1>6. CASE EvalRekey
  <2>1. cleared' = FALSE /\ sys' = WgRekey(y)
    BY <1>2, <1>6 DEF EvalRekey, Eval
  <2>2. sys'.key = sys'.wgkey /\ sys'.key # None
    BY <1>3, <2>1, KeysAre
  <2> QED
    BY <2>1, <2>2 DEF KeyInv, KeyOf
<1>7. CASE EvalClearkey
  BY <1>7 DEF EvalClearkey, KeyInv, KeyOf
<1>8. CASE Open
  <2>1. sys' = y /\ cleared' = cleared
    BY <1>2, <1>8 DEF Open
  <2> QED
    BY <1>3, <2>1 DEF KeyInv, KeyOf
<1>9. CASE ShellWrite \/ ShellExit
  BY <1>9 DEF ShellWrite, ShellExit, KeyInv, KeyOf
<1>10. ASSUME NEW i \in Removable, Unplug(i)
       PROVE  KeyInv'
  <2>1. sys'.live = sys.live /\ sys'.key = sys.key /\ sys'.wgkey = sys.wgkey /\ cleared' = cleared
    BY <1>3, <1>10 DEF Unplug, System
  <2> QED
    BY <2>1 DEF KeyInv, KeyOf
<1>11. ASSUME NEW plugged \in SUBSET sys.gone, Reboot(plugged)
       PROVE  KeyInv'
  <2>1. PICK on : on = Boot(sys, plugged)
    OBVIOUS
  <2>2. sys' = BootConfig(on, file') /\ cleared' = FALSE /\ Blank(on) /\ Stored(file')
    BY <1>3, <1>11, <2>1, BootIs DEF Reboot, TypeInv, Stored
  <2>3. KeyOf(sys', FALSE)
    BY <2>2, BootKey
  <2> QED
    BY <2>2, <2>3 DEF KeyInv, KeyOf
<1>12. ASSUME NEW l \in Asked, EvalNoBeginning(l) \/ ShellNoBeginning(l)
       PROVE  KeyInv'
  <2>1. cleared' = cleared /\ (sys' = y \/ sys' = sys)
    BY <1>2, <1>12 DEF EvalNoBeginning, ShellNoBeginning
  <2> QED
    BY <1>3, <2>1 DEF KeyInv, KeyOf
<1>13. ASSUME NEW bad \in SUBSET Fallible, Resolve(bad)
       PROVE  KeyInv'
  <2>1. sys'.live = sys.live /\ sys'.key = sys.key /\ sys'.wgkey = sys.wgkey /\ cleared' = cleared
    BY <1>3, <1>13 DEF Resolve, System
  <2> QED
    BY <2>1 DEF KeyInv, KeyOf
<1>14. CASE UNCHANGED vars
  BY <1>14 DEF vars, KeyInv, KeyOf
<1> QED
  BY <1>4, <1>5, <1>6, <1>7, <1>8, <1>9, <1>10, <1>11, <1>12, <1>13, <1>14, Steps

\* As long as the key was not deleted, a wg0 with peers uses the private key of the
\* key file, whatever is entered, loaded, rekeyed and booted (cmd_vpn.c wg_peer_*,
\* wg_rekey, wg_clearkey; start_wg.sh).
THEOREM PeersHaveTheKey == Spec => []KeyAgrees
<1>1. Init => KeyInv
  <2> SUFFICES ASSUME Init PROVE KeyInv
    OBVIOUS
  <2>1. sys.key = 0 /\ sys.wgkey = 0 /\ 0 # None
    BY CommandsAssumption DEF Init
  <2> QED
    BY <2>1 DEF KeyInv, KeyOf
<1>2. KeyInv => KeyAgrees
  BY DEF KeyInv, KeyOf, KeyAgrees
<1> QED
  BY <1>1, <1>2, InitType, TypeStep, KeyStep, PTL DEF Spec

----------------------------------------------------------------------------
(* wg0 and the lines.                                                      *)

\* Every peer has a line.
PeersIn(y, top) ==
  \A k \in Peers : y.live[<<"peer", k>>] # None => \E l \in top : Slot(l) = <<"peer", k>>

\* A line that is not about a bridge is in effect, unless wg does not take the peer.
InPlace(y, l) ==
  /\ l.cmd \in Setters => y.live[Slot(l)] = IF Missed(y, l) THEN None ELSE l.val
  /\ l.cmd = "link" => y.up = (l.val = Up)
  /\ l.cmd = "route" => \E i \in DOMAIN y.routes : y.routes[i] = <<l.arg, l.val>>

\* Half-way through a boot: the lines that were run are in effect, and are not
\* about commands that come after those of the lines left.
Progress(top, z, left) ==
  /\ PeersIn(z, top \ left)
  /\ \A m \in top \ left : InPlace(z, m)
  /\ \A m \in top \ left, n \in left : Rank(m) <= Rank(n)

\* The next line is run: nothing that is in effect is undone.
LEMMA ProgressStep ==
  ASSUME NEW top, Single(top), NEW z \in System, NEW left \in SUBSET top, NEW l \in left,
         Progress(top, z, left), \A m \in left : ~Before(m, l), NEW e, e = Effect(z, l)
  PROVE  Progress(top, e, left \ {l})
<1>1. /\ top \subseteq Lines /\ l \in Lines /\ l \in top
      /\ \A m, n \in top : Slot(m) = Slot(n) /\ m.cmd # "route" => m = n
  BY DEF Single
<1>2. top \ (left \ {l}) = (top \ left) \cup {l}
  BY <1>1
<1>3. Changed(z, l, e)
  BY <1>1, EffectIs
<1>4. \A m \in top : Rank(m) \in 1 .. 11 /\ Order[Rank(m)] = m.cmd
  BY <1>1, RankIs
<1>5. \A m \in left : Rank(l) <= Rank(m)
  BY <1>4 DEF Before
<1>6. ASSUME NEW m \in top \ left, Slot(m) = Slot(l) PROVE m.cmd = "route"
  BY <1>1, <1>6
<1>7. PeersIn(e, top \ (left \ {l}))
  <2> SUFFICES ASSUME NEW k \in Peers, e.live[<<"peer", k>>] # None
               PROVE  \E m \in (top \ left) \cup {l} : Slot(m) = <<"peer", k>>
    BY <1>2 DEF PeersIn
  <2>1. CASE Slot(l) = <<"peer", k>>
    BY <2>1
  <2>2. CASE Slot(l) # <<"peer", k>>
    <3>1. <<"peer", k>> \in Slots
      BY VolatileSlots
    <3>2. z.live[<<"peer", k>>] # None
      BY <1>3, <2>2, <3>1 DEF Changed
    <3> QED
      BY <3>2 DEF Progress, PeersIn
  <2> QED
    BY <2>1, <2>2
<1>8. e.bad = z.bad
  BY <1>3 DEF Changed
<1>9. ASSUME NEW m \in top \ left PROVE InPlace(e, m)
  <2>1. InPlace(z, m) /\ m \in Lines /\ m \in top
    BY <1>1 DEF Progress
  <2>2. ASSUME m.cmd \in Setters PROVE e.live[Slot(m)] = IF Missed(e, m) THEN None ELSE m.val
    <3>1. Slot(m) # Slot(l)
      BY <1>6, <2>2 DEF Setters
    <3>2. Slot(m) \in Slots
      BY <2>1, <2>2, LineKinds DEF Setters, Slots, Slot
    <3>3. e.live[Slot(m)] = z.live[Slot(m)]
      BY <1>3, <3>1, <3>2 DEF Changed
    <3>4. Missed(e, m) <=> Missed(z, m)
      BY <1>8 DEF Missed
    <3> QED
      BY <2>1, <2>2, <3>3, <3>4 DEF InPlace
  <2>3. ASSUME m.cmd = "link" PROVE e.up = (m.val = Up)
    <3>1. l.cmd # "link"
      <4>1. l.cmd = "link" => Slot(l) = Slot(m)
        BY <1>1, <2>1, <2>3, LineKinds DEF Slot
      <4> QED
        BY <1>6, <2>3, <4>1
    <3>2. l.cmd # "address"
      <4>1. Rank(m) <= Rank(l) /\ Rank(m) \in 1 .. 11 /\ Rank(l) \in 1 .. 11
        BY <1>1, <1>4, <2>1 DEF Progress
      <4>2. Order[Rank(m)] = "link" /\ Order[Rank(l)] = l.cmd
        BY <1>1, <1>4, <2>1, <2>3
      <4>3. /\ \A i \in 1 .. 11 : Order[i] = "link" => i = 9
            /\ \A i \in 1 .. 11 : Order[i] = "address" => i = 4
        BY DEF Order
      <4> QED
        BY <4>1, <4>2, <4>3
    <3> QED
      BY <1>3, <2>1, <2>3, <3>1, <3>2 DEF Changed, InPlace
  <2>4. ASSUME m.cmd = "route" PROVE \E i \in DOMAIN e.routes : e.routes[i] = <<m.arg, m.val>>
    <3>1. PICK i \in DOMAIN z.routes : z.routes[i] = <<m.arg, m.val>>
      BY <2>1, <2>4 DEF InPlace
    <3>2. ASSUME NEW S, NEW q \in Seq(S), NEW x, NEW j \in DOMAIN q
          PROVE  j \in DOMAIN Append(q, x) /\ Append(q, x)[j] = q[j]
      OBVIOUS
    <3>3. z.routes \in Seq(Nets \X Vals)
      BY DEF System
    <3>4. e.routes = Append(z.routes, <<l.arg, l.val>>) \/ e.routes = z.routes
      BY <1>3 DEF Changed
    <3>5. /\ i \in DOMAIN Append(z.routes, <<l.arg, l.val>>)
          /\ Append(z.routes, <<l.arg, l.val>>)[i] = z.routes[i]
      BY <3>2, <3>3, Zenon
    <3>6. i \in DOMAIN e.routes /\ e.routes[i] = z.routes[i]
      BY <3>4, <3>5, Zenon
    <3> QED
      BY <3>1, <3>6, Zenon
  <2> QED
    BY <2>2, <2>3, <2>4 DEF InPlace
<1>10. InPlace(e, l)
  <2>1. ASSUME l.cmd \in Setters PROVE e.live[Slot(l)] = IF Missed(e, l) THEN None ELSE l.val
    <3>1. ASSUME l.cmd = "peer" PROVE z.live[Slot(l)] = None
      <4>1. l.arg \in Peers /\ Slot(l) = <<"peer", l.arg>>
        BY <1>1, <3>1, LineKinds DEF Slot
      <4>2. ASSUME NEW m \in top \ left, Slot(m) = Slot(l) PROVE FALSE
        <5>1. m.cmd = "peer"
          BY <3>1, <4>2 DEF Slot
        <5> QED
          BY <1>6, <4>2, <5>1
      <4> QED
        BY <4>1, <4>2 DEF Progress, PeersIn
    <3>2. Missed(e, l) <=> Missed(z, l)
      BY <1>8 DEF Missed
    <3>3. Missed(z, l) => l.cmd = "peer"
      BY MissedIs
    <3>4. \/ e.live[Slot(l)] = l.val /\ ~Missed(z, l)
          \/ l.cmd = "peer" /\ z.live[Slot(l)] # None
          \/ Missed(z, l) /\ e.live[Slot(l)] = z.live[Slot(l)]
      BY <1>3, <2>1 DEF Changed
    <3> QED
      BY <3>1, <3>2, <3>3, <3>4
  <2>2. ASSUME l.cmd = "route" PROVE \E i \in DOMAIN e.routes : e.routes[i] = <<l.arg, l.val>>
    <3>1. ASSUME NEW S, NEW q \in Seq(S), NEW x
          PROVE  \E i \in DOMAIN Append(q, x) : Append(q, x)[i] = x
      <4>1. Len(q) + 1 \in DOMAIN Append(q, x) /\ Append(q, x)[Len(q) + 1] = x
        OBVIOUS
      <4> QED
        BY <4>1
    <3>2. z.routes \in Seq(Nets \X Vals)
      BY DEF System
    <3>3. e.routes = Append(z.routes, <<l.arg, l.val>>)
      BY <1>3, <2>2 DEF Changed
    <3>4. \E i \in DOMAIN Append(z.routes, <<l.arg, l.val>>) :
            Append(z.routes, <<l.arg, l.val>>)[i] = <<l.arg, l.val>>
      BY <3>1, <3>2, Zenon
    <3> QED
      BY <3>3, <3>4, Zenon
  <2> QED
    BY <1>3, <2>1, <2>2 DEF Changed, InPlace
<1>11. ASSUME NEW m \in top \ (left \ {l}), NEW n \in left \ {l} PROVE Rank(m) <= Rank(n)
  BY <1>2, <1>5 DEF Progress
<1> QED
  BY <1>2, <1>7, <1>9, <1>10, <1>11 DEF Progress

\* After a boot every line is in effect, but for bridges, and there are no other peers.
LEMMA BootLines ==
  ASSUME NEW y, Blank(y), NEW top, Stored(top), Single(top), NEW z, z = BootConfig(y, top)
  PROVE  z.gone = y.gone /\ PeersIn(z, top) /\ \A l \in top : InPlace(z, l)
<1> DEFINE P == {s \in System \X SUBSET top : s[1].gone = y.gone /\ Progress(top, s[1], s[2])}
<1>1. top \subseteq Lines /\ IsFiniteSet(top) /\ y \in System
  BY CommandsAssumption DEF Stored, Blank
<1>2. ASSUME NEW w \in System, NEW left \in SUBSET top
      PROVE  <<w, left>> \in P <=> w.gone = y.gone /\ Progress(top, w, left)
  <2>1. <<w, left>> \in System \X SUBSET top /\ <<w, left>>[1] = w /\ <<w, left>>[2] = left
    OBVIOUS
  <2> QED
    BY <2>1, Zenon
<1>3. <<y, top>> \in P
  <2>1. Progress(top, y, top)
    BY VolatileSlots DEF Progress, PeersIn, Blank
  <2> HIDE DEF P
  <2> QED
    BY <1>1, <1>2, <2>1
<1>4. ASSUME NEW w \in System, NEW left \in SUBSET top, NEW l \in left, <<w, left>> \in P,
             \A m \in left : ~Before(m, l)
      PROVE  <<Effect(w, l), left \ {l}>> \in P
  <2>1. Effect(w, l) \in System /\ Effect(w, l).gone = w.gone
    <3>1. Changed(w, l, Effect(w, l))
      BY <1>1, EffectIs
    <3> QED
      BY <3>1 DEF Changed
  <2> HIDE DEF P
  <2>2. w.gone = y.gone /\ Progress(top, w, left)
    BY <1>2, <1>4
  <2>3. Progress(top, Effect(w, l), left \ {l})
    BY <1>4, <2>2, ProgressStep
  <2> QED
    BY <1>2, <2>1, <2>2, <2>3
<1> HIDE DEF P
<1>5. z \in System /\ <<z, {}>> \in P
  BY <1>1, <1>3, <1>4, BootInduct
<1>6. z.gone = y.gone /\ Progress(top, z, {})
  BY <1>2, <1>5
<1>7. top \ {} = top
  OBVIOUS
<1> QED
  BY <1>6, <1>7 DEF Progress

\* What is left of the other lines when a line is added.
LEMMA EditedIs ==
  ASSUME NEW top, Single(top), NEW y, NEW l \in Lines, NEW new, new = Edited(top, y, l)
  PROVE  /\ \A m \in new : m = l \/ m \in top
         /\ \A m \in new : Slot(m) = Slot(l) /\ l.cmd # "route" /\ ~Refused(y, l) => m = l
         /\ \A m \in top : m \in new \/ Slot(m) = Slot(l)
         /\ l.cmd # "bridge" => l \in new
<1>1. Single(new)
  BY EditsSingle
<1>2. CASE Refused(y, l)
  BY <1>2 DEF Edited, Refused
<1>3. CASE ~Refused(y, l) /\ l.cmd = "bridge" /\ Failed(y, l)
  <2>1. new = top \ ByLeft(top, l)
    BY <1>3 DEF Edited
  <2> QED
    BY <1>3, <2>1 DEF ByLeft
<1>4. CASE ~Refused(y, l) /\ ~(l.cmd = "bridge" /\ Failed(y, l))
  <2>1. new = (top \ Replaced(top, l)) \cup {l}
    BY <1>4 DEF Edited, AddLine
  <2>2. \A m \in Replaced(top, l) : Slot(m) = Slot(l)
    BY DEF Replaced, FirstOf, ByLeft
  <2>3. \A m \in new : Slot(m) = Slot(l) /\ l.cmd # "route" => m = l
    BY <1>1, <2>1 DEF Single
  <2> QED
    BY <2>1, <2>2, <2>3
<1> QED
  BY <1>2, <1>3, <1>4

\* What is left when a line is removed.
LEMMA RemovedIs ==
  ASSUME NEW top, Single(top), NEW l \in Lines, NEW new, new = RemoveLine(top, l)
  PROVE  /\ new \subseteq top
         /\ \A m \in new : Slot(m) # Slot(l) \/ l.cmd \in {"route"} \cup Inert
         /\ \A m \in top : m \in new \/ Slot(m) = Slot(l)
<1>1. CASE l.cmd \in Inert
  BY <1>1 DEF RemoveLine
<1>2. CASE l.cmd \notin Inert
  <2>1. new = top \ FirstOf(ByLeft(top, l))
    BY <1>2 DEF RemoveLine
  <2>2. ASSUME NEW m \in top, Slot(m) = Slot(l), l.cmd # "route"
        PROVE  m \in FirstOf(ByLeft(top, l))
    <3>1. m.cmd = l.cmd /\ \A n \in ByLeft(top, l) : n = m
      BY <2>2 DEF ByLeft, Single, Slot
    <3>2. m.val \in Nat /\ m \in ByLeft(top, l)
      BY <2>2, LineShape DEF ByLeft, Single
    <3> QED
      BY <3>1, <3>2 DEF FirstOf
  <2> QED
    BY <2>1, <2>2 DEF FirstOf, ByLeft
<1> QED
  BY <1>1, <1>2

\* A line about wg0 is in effect, or about a peer that wg may not take.
Held(y, l) ==
  Slot(l) \in Volatile /\ l.val # Bare =>
    y.live[Slot(l)] = l.val \/ (l.cmd = "peer" /\ l.val \in Fallible)

\* Commands leave the lines about other things in effect.
LEMMA HeldKept ==
  ASSUME NEW y \in System, NEW l \in Lines, NEW z, z = Effect(y, l)
  PROVE  /\ Held(z, l)
         /\ \A m \in Lines : Slot(m) # Slot(l) /\ Held(y, m) => Held(z, m)
         /\ \A k \in Peers : z.live[<<"peer", k>>] # None =>
              y.live[<<"peer", k>>] # None \/ Slot(l) = <<"peer", k>>
<1>1. Changed(y, l, z)
  BY EffectIs
<1>2. Slot(l) \in Volatile => l.cmd \in Setters
  BY VolatileSlots DEF Setters
<1>3. Held(z, l)
  <2>1. Missed(y, l) => l.cmd = "peer" /\ l.val \in Fallible
    BY MissedIs
  <2>2. l.cmd \in Setters => z.live[Slot(l)] = l.val \/ l.val = Bare \/ Missed(y, l)
    BY <1>1 DEF Changed
  <2> QED
    BY <1>2, <2>1, <2>2 DEF Held
<1>4. \A x \in Slots : x # Slot(l) => z.live[x] = y.live[x]
  BY <1>1 DEF Changed
<1> QED
  BY <1>3, <1>4, VolatileSlots DEF Held

LEMMA HeldUndone ==
  ASSUME NEW y \in System, NEW l \in Lines, NEW z, z = NoEffect(y, l)
  PROVE  /\ \A m \in Lines : (Slot(m) # Slot(l) \/ l.cmd # "peer") /\ Held(y, m) => Held(z, m)
         /\ \A k \in Peers : z.live[<<"peer", k>>] # None =>
              y.live[<<"peer", k>>] # None /\ Slot(l) # <<"peer", k>>
<1>1. Undone(y, l, z)
  BY NoEffectIs
<1>2. ASSUME NEW m \in Lines, Slot(m) # Slot(l) \/ l.cmd # "peer", Held(y, m)
      PROVE  Held(z, m)
  <2>1. Slot(m) \in Volatile => z.live[Slot(m)] = y.live[Slot(m)]
    BY <1>1, <1>2 DEF Undone
  <2> QED
    BY <1>2, <2>1 DEF Held
<1>3. ASSUME NEW k \in Peers, z.live[<<"peer", k>>] # None
      PROVE  y.live[<<"peer", k>>] # None /\ Slot(l) # <<"peer", k>>
  <2>1. <<"peer", k>> \in Volatile
    BY VolatileSlots
  <2>2. Slot(l) # <<"peer", k>>
    <3>1. ASSUME Slot(l) = <<"peer", k>> PROVE FALSE
      <4>1. l.cmd = "peer"
        BY <3>1 DEF Slot
      <4>2. z.live[Slot(l)] = None
        BY <1>1, <4>1 DEF Undone
      <4> QED
        BY <1>3, <3>1, <4>2
    <3> QED
      BY <3>1
  <2>3. z.live[<<"peer", k>>] = y.live[<<"peer", k>>]
    BY <1>1, <2>1, <2>2 DEF Undone
  <2> QED
    BY <1>3, <2>2, <2>3
<1> QED
  BY <1>2, <1>3

\* The lines that two configurations have in common are in effect on wg0, and no
\* peer is in neither.
Agreed(y, a, b) == (\A m \in a \cap b : Held(y, m)) /\ PeersIn(y, a \cup b)

\* A command that is run for one of the two keeps this, and so does one that is run
\* for a single configuration.
LEMMA SetAgreed ==
  ASSUME NEW y \in System, NEW l \in Lines, NEW z, z = Effect(y, l),
         NEW top, Single(top), NEW w, NEW new, new = Edited(top, w, l)
  PROVE  /\ \A b : Agreed(y, top, b) => Agreed(z, new, b)
         /\ Agreed(y, top, top) => Agreed(z, new, new)
<1>1. /\ Held(z, l)
      /\ \A m \in Lines : Slot(m) # Slot(l) /\ Held(y, m) => Held(z, m)
      /\ \A k \in Peers : z.live[<<"peer", k>>] # None =>
           y.live[<<"peer", k>>] # None \/ Slot(l) = <<"peer", k>>
  BY HeldKept
<1>2. /\ \A m \in new : m = l \/ m \in top
      /\ \A m \in new : Slot(m) = Slot(l) /\ l.cmd # "route" /\ ~Refused(w, l) => m = l
      /\ \A m \in top : m \in new \/ Slot(m) = Slot(l)
      /\ l.cmd # "bridge" => l \in new
  BY EditedIs
<1>3. ASSUME NEW m \in new, m \in top => Held(y, m) PROVE Held(z, m)
  <2>1. m \in Lines
    BY <1>2 DEF Single
  <2>2. CASE Slot(m) # Slot(l)
    BY <1>1, <1>2, <1>3, <2>1, <2>2
  <2>3. CASE Slot(m) = Slot(l) /\ l.cmd \in {"route", "bridge"}
    <3>1. m.cmd = l.cmd
      BY <2>3 DEF Slot
    <3>2. Slot(m) \notin Volatile
      BY <2>1, <2>3, <3>1, VolatileSlots
    <3> QED
      BY <3>2 DEF Held
  <2>4. CASE Slot(m) = Slot(l) /\ l.cmd \notin {"route", "bridge"}
    <3>1. ~Refused(w, l)
      BY <2>4 DEF Refused
    <3> QED
      BY <1>1, <1>2, <2>4, <3>1
  <2> QED
    BY <2>2, <2>3, <2>4
<1>4. ASSUME NEW b, PeersIn(y, top \cup b) PROVE PeersIn(z, new \cup b)
  <2> SUFFICES ASSUME NEW k \in Peers, z.live[<<"peer", k>>] # None
               PROVE  \E m \in new \cup b : Slot(m) = <<"peer", k>>
    BY DEF PeersIn
  <2>1. CASE Slot(l) = <<"peer", k>>
    <3>1. l.cmd # "bridge"
      BY <2>1 DEF Slot
    <3> QED
      BY <1>2, <2>1, <3>1
  <2>2. CASE Slot(l) # <<"peer", k>>
    <3>1. PICK m \in top \cup b : Slot(m) = <<"peer", k>>
      BY <1>1, <1>4, <2>2 DEF PeersIn
    <3> QED
      BY <1>2, <2>2, <3>1
  <2> QED
    BY <2>1, <2>2
<1>5. PeersIn(y, top) => PeersIn(z, new)
  <2>1. top \cup {} = top /\ new \cup {} = new
    OBVIOUS
  <2> QED
    BY <1>4, <2>1
<1>6. ASSUME NEW b, Agreed(y, top, b) PROVE Agreed(z, new, b)
  BY <1>3, <1>4, <1>6 DEF Agreed
<1>7. ASSUME Agreed(y, top, top) PROVE Agreed(z, new, new)
  <2>1. top \cap top = top /\ top \cup top = top /\ new \cap new = new /\ new \cup new = new
    OBVIOUS
  <2> QED
    BY <1>3, <1>5, <1>7, <2>1 DEF Agreed
<1> QED
  BY <1>6, <1>7

LEMMA NoAgreed ==
  ASSUME NEW y \in System, NEW l \in Lines, NEW z, z = NoEffect(y, l),
         NEW top, Single(top), NEW new, new = RemoveLine(top, l)
  PROVE  /\ \A b : Agreed(y, top, b) => Agreed(z, new, b)
         /\ Agreed(y, top, top) => Agreed(z, new, new)
<1>1. /\ \A m \in Lines : (Slot(m) # Slot(l) \/ l.cmd # "peer") /\ Held(y, m) => Held(z, m)
      /\ \A k \in Peers : z.live[<<"peer", k>>] # None =>
           y.live[<<"peer", k>>] # None /\ Slot(l) # <<"peer", k>>
  BY HeldUndone
<1>2. /\ new \subseteq top /\ new \subseteq Lines
      /\ \A m \in new : Slot(m) # Slot(l) \/ l.cmd \in {"route"} \cup Inert
      /\ \A m \in top : m \in new \/ Slot(m) = Slot(l)
  BY RemovedIs DEF Single
<1>3. ASSUME NEW m \in new, Held(y, m) PROVE Held(z, m)
  BY <1>1, <1>2, <1>3 DEF Inert
<1>4. ASSUME NEW b, PeersIn(y, top \cup b) PROVE PeersIn(z, new \cup b)
  BY <1>1, <1>2, <1>4 DEF PeersIn
<1>5. PeersIn(y, top) => PeersIn(z, new)
  <2>1. top \cup {} = top /\ new \cup {} = new
    OBVIOUS
  <2> QED
    BY <1>4, <2>1
<1>6. ASSUME NEW b, Agreed(y, top, b) PROVE Agreed(z, new, b)
  BY <1>2, <1>3, <1>4, <1>6 DEF Agreed
<1>7. ASSUME Agreed(y, top, top) PROVE Agreed(z, new, new)
  <2>1. top \cap top = top /\ top \cup top = top /\ new \cap new = new /\ new \cup new = new
    OBVIOUS
  <2> QED
    BY <1>2, <1>3, <1>5, <1>7, <2>1 DEF Agreed
<1> QED
  BY <1>6, <1>7

\* Only the slots matter, the order of the two does not, and no peer is lost when a
\* bridge line is.
LEMMA AgreedFacts ==
  ASSUME NEW y, NEW z, y.live = z.live, NEW a, NEW b, NEW w
  PROVE  /\ Agreed(y, a, b) <=> Agreed(z, a, b)
         /\ Agreed(y, a, b) <=> Agreed(y, b, a)
         /\ Agreed(y, a, b) => Agreed(z, Kept(w, a), b)
         /\ Agreed(y, a, a) => Agreed(z, Kept(w, a), Kept(w, a)) /\ Agreed(z, a, Kept(w, a))
<1>1. (\A m : Held(y, m) <=> Held(z, m)) /\ (\A top : PeersIn(y, top) <=> PeersIn(z, top))
  BY DEF Held, PeersIn
<1>2. a \cap b = b \cap a /\ a \cup b = b \cup a /\ a \cap a = a /\ a \cup a = a
  OBVIOUS
<1>3. Kept(w, a) \subseteq a /\ \A m \in a : m \in Kept(w, a) \/ m.cmd = "bridge"
  BY DEF Kept, Refused
<1>4. \A k, m : Slot(m) = <<"peer", k>> => m.cmd # "bridge"
  BY DEF Slot
<1>5. \A c : PeersIn(y, a \cup c) => PeersIn(y, Kept(w, a) \cup c)
  BY <1>3, <1>4 DEF PeersIn
<1>6. Agreed(y, a, b) => Agreed(z, Kept(w, a), b)
  BY <1>1, <1>3, <1>5 DEF Agreed
<1>7. ASSUME Agreed(y, a, a) PROVE Agreed(z, Kept(w, a), Kept(w, a)) /\ Agreed(z, a, Kept(w, a))
  <2>1. a \cup {} = a /\ Kept(w, a) \cup {} = Kept(w, a)
    OBVIOUS
  <2>2. PeersIn(y, a) /\ PeersIn(y, Kept(w, a))
    BY <1>2, <1>5, <1>7, <2>1 DEF Agreed
  <2>3. /\ Kept(w, a) \cap Kept(w, a) = Kept(w, a) /\ Kept(w, a) \cup Kept(w, a) = Kept(w, a)
        /\ a \cap Kept(w, a) = Kept(w, a) /\ a \cup Kept(w, a) = a
    BY <1>3
  <2> QED
    BY <1>1, <1>2, <1>3, <1>7, <2>2, <2>3 DEF Agreed
<1> QED
  BY <1>1, <1>2, <1>6, <1>7 DEF Agreed

\* The lines that file and shell have in common are in effect, and a shell that no
\* vtysh -e came between has all of its lines in effect.
WgInv ==
  ~drifted =>
    /\ shell = None => Agreed(sys, file, file)
    /\ shell # None => Agreed(sys, file, shell) /\ (~behind => Agreed(sys, shell, shell))

\* Every step keeps wg0 in line with them.
LEMMA WgStep == TypeInv /\ TypeInv' /\ SingleInv /\ SingleInv' /\ WgInv /\ [Next]_vars => WgInv'
<1> SUFFICES ASSUME TypeInv, TypeInv', SingleInv, SingleInv', WgInv, [Next]_vars PROVE WgInv'
  OBVIOUS
<1>1. Asked \subseteq Lines
  BY CommandsAssumption
<1>2. PICK y : y = Loaded(sys, file)
  OBVIOUS
<1>3. y \in System /\ sys \in System /\ y.live = sys.live
  BY <1>2, LoadedIs DEF TypeInv
<1>4. PICK top : top = Kept(sys, file)
  OBVIOUS
<1>5. Single(top) /\ Single(file) /\ (shell # None => Single(shell))
  BY <1>4, SingleSubset DEF SingleInv, Kept
<1>6. ~drifted => /\ shell = None => Agreed(y, top, top)
                  /\ shell # None => Agreed(y, top, shell)
  BY <1>3, <1>4, AgreedFacts DEF WgInv
<1>7. ASSUME NEW ok, NEW new, NEW z, Eval(ok, new, z),
             \A b : Agreed(y, top, b) => Agreed(z, new, b),
             Agreed(y, top, top) => Agreed(z, new, new)
      PROVE  WgInv'
  <2>1. /\ file' = new /\ sys' = z /\ shell' = shell /\ drifted' = drifted
        /\ shell # None => behind'
    BY <1>7 DEF Eval
  <2>2. ASSUME ~drifted
        PROVE  /\ shell = None => Agreed(z, new, new)
               /\ shell # None => Agreed(z, new, shell)
    BY <1>6, <1>7, <2>2
  <2> QED
    BY <2>1, <2>2 DEF WgInv
<1>8. ASSUME NEW l \in Asked, EvalSet(l)
      PROVE  WgInv'
  <2>1. PICK new, z : new = Edited(top, sys, l) /\ z = Effect(y, l)
    OBVIOUS
  <2>2. Eval(TRUE, new, z)
    BY <1>2, <1>4, <1>8, <2>1 DEF EvalSet
  <2>3. (\A b : Agreed(y, top, b) => Agreed(z, new, b)) /\ (Agreed(y, top, top) => Agreed(z, new, new))
    BY <1>1, <1>3, <1>5, <2>1, SetAgreed
  <2> QED
    BY <1>7, <2>2, <2>3
<1>9. ASSUME NEW l \in Asked, EvalNo(l)
      PROVE  WgInv'
  <2>1. PICK new, z : new = RemoveLine(top, l) /\ z = NoEffect(y, l)
    OBVIOUS
  <2>2. Eval(HasNo(l), new, z)
    BY <1>2, <1>4, <1>9, <2>1 DEF EvalNo
  <2>3. (\A b : Agreed(y, top, b) => Agreed(z, new, b)) /\ (Agreed(y, top, top) => Agreed(z, new, new))
    BY <1>1, <1>3, <1>5, <2>1, NoAgreed
  <2> QED
    BY <1>7, <2>2, <2>3
<1>10. CASE EvalRekey \/ EvalClearkey
  <2>1. PICK z : Eval(TRUE, top, z) /\ z \in {WgRekey(y), WgClearkey(y)}
    BY <1>2, <1>4, <1>10 DEF EvalRekey, EvalClearkey
  <2>2. z.live = y.live
    BY <1>3, <2>1, KeysAre
  <2>3. (\A b : Agreed(y, top, b) => Agreed(z, top, b)) /\ (Agreed(y, top, top) => Agreed(z, top, top))
    BY <2>2, AgreedFacts
  <2> QED
    BY <1>7, <2>1, <2>3
<1>11. ASSUME shell # None, NEW new, NEW z,
              UNCHANGED <<file, behind, drifted>>, shell' = new, sys' = z,
              \A b : Agreed(sys, shell, b) => Agreed(z, new, b),
              Agreed(sys, shell, shell) => Agreed(z, new, new),
              \E l \in Asked : new = Edited(shell, sys, l) \/ new = RemoveLine(shell, l)
       PROVE  WgInv'
  <2>1. ASSUME ~drifted
        PROVE  Agreed(z, file, new) /\ (~behind => Agreed(z, new, new))
    <3>1. Agreed(sys, shell, file) /\ (~behind => Agreed(sys, shell, shell))
      BY <1>11, <2>1, AgreedFacts DEF WgInv
    <3>2. Agreed(z, new, file)
      BY <1>11, <3>1
    <3> QED
      BY <1>11, <3>1, <3>2, AgreedFacts
  <2>2. new # None
    <3>1. Stored(new)
      BY <1>11, EditsStored DEF TypeInv
    <3> QED
      BY <3>1, CommandsAssumption DEF Stored
  <2> QED
    BY <1>11, <2>1, <2>2 DEF WgInv
<1>12. ASSUME NEW l \in Asked, ShellSet(l)
       PROVE  WgInv'
  <2>1. PICK new, z : new = Edited(shell, sys, l) /\ z = Effect(sys, l)
    OBVIOUS
  <2>2. shell # None /\ UNCHANGED <<file, behind, drifted>> /\ shell' = new /\ sys' = z
    BY <1>12, <2>1 DEF ShellSet
  <2>3. /\ \A b : Agreed(sys, shell, b) => Agreed(z, new, b)
        /\ Agreed(sys, shell, shell) => Agreed(z, new, new)
    BY <1>1, <1>3, <1>5, <2>1, <2>2, SetAgreed
  <2> QED
    BY <1>11, <2>1, <2>2, <2>3
<1>13. ASSUME NEW l \in Asked, ShellNo(l)
       PROVE  WgInv'
  <2>1. PICK new, z : new = RemoveLine(shell, l) /\ z = NoEffect(sys, l)
    OBVIOUS
  <2>2. shell # None /\ UNCHANGED <<file, behind, drifted>> /\ shell' = new /\ sys' = z
    BY <1>13, <2>1 DEF ShellNo
  <2>3. /\ \A b : Agreed(sys, shell, b) => Agreed(z, new, b)
        /\ Agreed(sys, shell, shell) => Agreed(z, new, new)
    BY <1>1, <1>3, <1>5, <2>1, <2>2, NoAgreed
  <2> QED
    BY <1>11, <2>1, <2>2, <2>3
<1>14. CASE Open
  <2>1. shell = None /\ shell' = top /\ sys' = y /\ file' = file /\ drifted' = drifted
    BY <1>2, <1>4, <1>14 DEF Open
  <2>2. ~drifted => Agreed(y, file, top) /\ Agreed(y, top, top)
    BY <1>3, <1>4, <2>1, AgreedFacts DEF WgInv
  <2>3. top # None
    <3>1. top \subseteq Asked
      BY <1>4 DEF TypeInv, Stored, Kept
    <3> QED
      BY <3>1, CommandsAssumption
  <2> QED
    BY <2>1, <2>2, <2>3 DEF WgInv
<1>15. CASE ShellWrite
  <2>1. /\ shell # None /\ file' = shell /\ shell' = shell /\ sys' = sys /\ ~behind'
        /\ drifted' = (drifted \/ (behind /\ shell # file))
    BY <1>15 DEF ShellWrite
  <2>2. ASSUME ~drifted' PROVE Agreed(sys, shell, shell)
    BY <2>1, <2>2 DEF WgInv
  <2> QED
    BY <2>1, <2>2 DEF WgInv
<1>16. CASE ShellExit
  <2>1. /\ shell # None /\ file' = file /\ shell' = None /\ sys' = sys
        /\ drifted' = (drifted \/ shell # file)
    BY <1>16 DEF ShellExit
  <2>2. ASSUME ~drifted' PROVE Agreed(sys, file, file)
    BY <2>1, <2>2 DEF WgInv
  <2> QED
    BY <2>1, <2>2 DEF WgInv
<1>17. ASSUME NEW i \in Removable, Unplug(i)
       PROVE  WgInv'
  <2>1. sys'.live = sys.live /\ UNCHANGED <<file, shell, behind, drifted>>
    BY <1>3, <1>17 DEF Unplug, System
  <2>2. \A a, b : Agreed(sys, a, b) => Agreed(sys', a, b)
    BY <2>1, AgreedFacts
  <2> QED
    BY <2>1, <2>2 DEF WgInv
<1>18. ASSUME NEW l \in Asked, EvalNoBeginning(l) \/ ShellNoBeginning(l)
       PROVE  WgInv'
  <2>1. drifted' = TRUE
    BY <1>18 DEF EvalNoBeginning, ShellNoBeginning
  <2> QED
    BY <2>1 DEF WgInv
<1>19. ASSUME NEW bad \in SUBSET Fallible, Resolve(bad)
       PROVE  WgInv'
  <2>1. sys'.live = sys.live /\ UNCHANGED <<file, shell, behind, drifted>>
    BY <1>3, <1>19 DEF Resolve, System
  <2>2. \A a, b : Agreed(sys, a, b) => Agreed(sys', a, b)
    BY <2>1, AgreedFacts
  <2> QED
    BY <2>1, <2>2 DEF WgInv
<1>20. ASSUME NEW plugged \in SUBSET sys.gone, Reboot(plugged)
       PROVE  WgInv'
  <2>1. PICK on : on = Boot(sys, plugged)
    OBVIOUS
  <2>2. sys' = BootConfig(on, file') /\ shell' = None /\ Blank(on) /\ Stored(file') /\ Single(file')
    BY <1>3, <1>20, <2>1, BootIs DEF Reboot, TypeInv, SingleInv, Stored, Single
  <2>3. PeersIn(sys', file') /\ \A l \in file' : InPlace(sys', l)
    BY <2>2, BootLines
  <2>4. ASSUME NEW l \in file' PROVE Held(sys', l)
    <3>1. Slot(l) \in Volatile => l.cmd \in Setters
      BY <2>2, VolatileSlots DEF Setters, Single
    <3>2. Missed(sys', l) => l.cmd = "peer" /\ l.val \in Fallible
      BY MissedIs DEF TypeInv
    <3> QED
      BY <2>3, <3>1, <3>2 DEF InPlace, Held
  <2>5. file' \cap file' = file' /\ file' \cup file' = file'
    OBVIOUS
  <2>6. Agreed(sys', file', file')
    BY <2>3, <2>4, <2>5 DEF Agreed
  <2> QED
    BY <2>2, <2>6 DEF WgInv
<1>21. CASE UNCHANGED vars
  BY <1>21 DEF vars, WgInv, Agreed, Held, PeersIn
<1> QED
  BY <1>8, <1>9, <1>10, <1>12, <1>13, <1>14, <1>15, <1>16, <1>17, <1>18, <1>19, <1>20, <1>21, Steps

\* Unless a shell wrote over newer lines or left without writing, or a line was
\* deleted by the beginning of its key, wg0 is what the file describes whenever the
\* shell has nothing to write, but for peers that wg may not take: for any lines and
\* any order of commands, shells, boots and failures of "wg set" (cmd_vpn.c,
\* cmd_ip.c, vtysh_config.c).
THEOREM FileDescribesWg == Spec => []WgMatchesFile
<1>1. Init => SingleInv /\ WgInv
  BY DEF Init, SingleInv, Single, WgInv, Agreed, PeersIn, Held, Slots
<1>2. WgInv => WgMatchesFile
  <2> SUFFICES ASSUME WgInv, ~drifted, shell \in {None, file}
               PROVE  (\A l \in file : Held(sys, l)) /\ PeersIn(sys, file)
    BY DEF WgMatchesFile, Held, PeersIn
  <2>1. file \cap file = file /\ file \cup file = file
    OBVIOUS
  <2>2. Agreed(sys, file, file)
    BY DEF WgInv
  <2> QED
    BY <2>1, <2>2 DEF Agreed
<1> QED
  BY <1>1, <1>2, InitType, TypeStep, SingleStep, WgStep, PTL DEF Spec

----------------------------------------------------------------------------
(* Bridges.                                                                *)

\* The interfaces of a bridge line that are plugged in are in its bridge.
Joined(y, l) == l.cmd = "bridge" => Ports(l.val) \ y.gone \subseteq y.ports[l.arg]

\* The bridge lines that two configurations have in common are true and share
\* no interface.
Bound(y, a, b) == (\A m \in a \cap b : Joined(y, m)) /\ ~Disputed(a \cap b)

\* brctl succeeds with interfaces that are plugged in and in no bridge: the line is
\* true, and the ones in place have other interfaces.
LEMMA JoinedNew ==
  ASSUME NEW y \in System, NEW l \in Lines, l.cmd = "bridge", NEW z, z = Effect(y, l),
         ~Refused(y, l), ~Failed(y, l)
  PROVE  /\ Joined(z, l)
         /\ \A m \in Lines : m.cmd = "bridge" /\ Joined(y, m) => Ports(l.val) \cap Ports(m.val) = {}
<1>1. l.arg \in Bridges
  BY LineKinds
<1>2. AddIf(y, l) = Ports(l.val) /\ Ports(l.val) \cap Bridged(y) = {}
  BY DEF Failed, AddIf, Ports
<1>3. Ports(l.val) \subseteq z.ports[l.arg]
  BY <1>1, <1>2, BridgeIs
<1>4. ASSUME NEW m \in Lines, m.cmd = "bridge", Joined(y, m)
      PROVE  Ports(l.val) \cap Ports(m.val) = {}
  <2>1. Ports(m.val) \ y.gone \subseteq y.ports[m.arg] /\ m.arg \in Bridges
    BY <1>4, LineKinds DEF Joined
  <2>2. Ports(m.val) \ y.gone \subseteq Bridged(y)
    BY <2>1 DEF Bridged
  <2>3. Ports(l.val) \cap y.gone = {}
    BY DEF Refused
  <2> QED
    BY <1>2, <2>2, <2>3
<1> QED
  BY <1>3, <1>4 DEF Joined

\* No command but the "no" one takes an interface out of a bridge.
LEMMA PortsGrow ==
  ASSUME NEW y \in System, NEW l \in Lines, NEW z, z = Effect(y, l)
  PROVE  /\ z.gone = y.gone /\ z.bad = y.bad
         /\ \A n \in Bridges : y.ports[n] \subseteq z.ports[n]
         /\ \A m \in Lines : Joined(y, m) => Joined(z, m)
<1>1. Changed(y, l, z)
  BY EffectIs
<1>2. z.gone = y.gone /\ z.bad = y.bad /\ \A n \in Bridges : y.ports[n] \subseteq z.ports[n]
  <2>1. CASE l.cmd = "bridge"
    <3>1. /\ Refused(y, l) => z = y
          /\ ~Refused(y, l) => z.ports[l.arg] = y.ports[l.arg] \cup AddIf(y, l)
          /\ \A n \in Bridges : n # l.arg => z.ports[n] = y.ports[n]
      BY <2>1, BridgeIs
    <3> QED
      BY <1>1, <3>1 DEF Changed
  <2>2. CASE l.cmd # "bridge"
    BY <1>1, <2>2 DEF Changed
  <2> QED
    BY <2>1, <2>2
<1> QED
  BY <1>2, LineKinds DEF Joined

\* A command that is run for one of two configurations, or for a single one, keeps
\* the bridges; w has the interfaces of y, before the key file was made.
LEMMA SetBound ==
  ASSUME NEW y \in System, NEW l \in Lines, NEW z, z = Effect(y, l),
         NEW top, Single(top), NEW w, w.ports = y.ports, w.gone = y.gone,
         NEW new, new = Edited(top, w, l)
  PROVE  /\ \A b : Bound(y, top, b) => Bound(z, new, b)
         /\ Bound(y, top, top) => Bound(z, new, new)
<1>1. Refused(w, l) = Refused(y, l) /\ Failed(w, l) = Failed(y, l)
  BY DEF Refused, Failed, Bridged
<1>2. top \subseteq Lines /\ \A m \in new : m = l \/ m \in top
  BY EditedIs DEF Single
<1>3. ASSUME NEW c, c \subseteq new, \A m \in top \cap c : Joined(y, m), ~Disputed(top \cap c)
      PROVE  (\A m \in c : Joined(z, m)) /\ ~Disputed(c)
  <2>1. CASE l.cmd # "bridge"
    <3>1. \A m \in c : m.cmd = "bridge" => m \in top
      BY <1>2, <1>3, <2>1
    <3>2. \A m \in c : Joined(z, m)
      BY <1>2, <1>3, <3>1, PortsGrow DEF Joined
    <3> QED
      BY <1>3, <3>1, <3>2 DEF Disputed
  <2>2. CASE l.cmd = "bridge" /\ (Refused(y, l) \/ Failed(y, l))
    <3>1. c \subseteq top
      BY <1>1, <1>3, <2>2 DEF Edited
    <3>2. top \cap c = c
      BY <3>1
    <3> QED
      BY <1>2, <1>3, <3>1, <3>2, PortsGrow
  <2>3. CASE l.cmd = "bridge" /\ ~Refused(y, l) /\ ~Failed(y, l)
    <3>1. /\ Joined(z, l)
          /\ \A m \in Lines : m.cmd = "bridge" /\ Joined(y, m) => Ports(l.val) \cap Ports(m.val) = {}
      BY <2>3, JoinedNew
    <3>2. \A m \in c : m = l \/ (m \in top \cap c /\ m \in Lines /\ Joined(y, m))
      BY <1>2, <1>3
    <3>3. \A m \in c : Joined(z, m)
      BY <3>1, <3>2, PortsGrow
    <3>4. \A v, u : Ports(v) \cap Ports(u) = Ports(u) \cap Ports(v)
      OBVIOUS
    <3>5. ASSUME NEW m \in c, NEW n \in c, m.cmd = "bridge", n.cmd = "bridge", m # n
          PROVE  Ports(m.val) \cap Ports(n.val) = {}
      <4>1. CASE m = l
        BY <3>1, <3>2, <3>5, <4>1
      <4>2. CASE n = l
        BY <3>1, <3>2, <3>4, <3>5, <4>2
      <4>3. CASE m # l /\ n # l
        <5>1. m \in top \cap c /\ n \in top \cap c
          BY <3>2, <4>3
        <5> QED
          BY <1>3, <3>5, <5>1 DEF Disputed
      <4> QED
        BY <4>1, <4>2, <4>3
    <3> QED
      BY <3>3, <3>5 DEF Disputed
  <2> QED
    BY <2>1, <2>2, <2>3
<1>4. ASSUME NEW b, Bound(y, top, b) PROVE Bound(z, new, b)
  <2>1. new \cap b \subseteq new /\ top \cap (new \cap b) \subseteq top \cap b
    OBVIOUS
  <2>2. ~Disputed(top \cap (new \cap b)) /\ \A m \in top \cap (new \cap b) : Joined(y, m)
    BY <1>4, <2>1 DEF Bound, Disputed
  <2> QED
    BY <1>3, <2>1, <2>2 DEF Bound
<1>5. ASSUME Bound(y, top, top) PROVE Bound(z, new, new)
  <2>1. top \cap top = top /\ new \cap new = new /\ top \cap new \subseteq top
    OBVIOUS
  <2>2. ~Disputed(top \cap new) /\ \A m \in top \cap new : Joined(y, m)
    BY <1>5, <2>1 DEF Bound, Disputed
  <2> QED
    BY <1>3, <2>1, <2>2 DEF Bound
<1> QED
  BY <1>4, <1>5

\* So do the "no" commands: the line of a bridge goes with the bridge.
LEMMA NoBound ==
  ASSUME NEW y \in System, NEW l \in Lines, NEW z, z = NoEffect(y, l),
         NEW top, Single(top), NEW new, new = RemoveLine(top, l)
  PROVE  /\ \A b : Bound(y, top, b) => Bound(z, new, b)
         /\ Bound(y, top, top) => Bound(z, new, new)
<1>1. Undone(y, l, z)
  BY NoEffectIs
<1>2. /\ new \subseteq top /\ new \subseteq Lines
      /\ \A m \in new : Slot(m) # Slot(l) \/ l.cmd \in {"route"} \cup Inert
  BY RemovedIs DEF Single
<1>3. ASSUME NEW m \in new, Joined(y, m) PROVE Joined(z, m)
  <2> SUFFICES ASSUME m.cmd = "bridge" PROVE Joined(z, m)
    BY DEF Joined
  <2>1. m.arg \in Bridges
    BY <1>2, LineKinds
  <2>2. m.arg # l.arg \/ l.cmd # "bridge"
    BY <1>2 DEF Slot, Inert
  <2>3. z.ports[m.arg] = y.ports[m.arg] /\ z.gone = y.gone /\ z.bad = y.bad
    BY <1>1, <2>1, <2>2 DEF Undone
  <2> QED
    BY <1>3, <2>3 DEF Joined
<1>4. ASSUME NEW b, Bound(y, top, b) PROVE Bound(z, new, b)
  BY <1>2, <1>3, <1>4 DEF Bound, Disputed
<1>5. ASSUME Bound(y, top, top) PROVE Bound(z, new, new)
  BY <1>2, <1>3, <1>5 DEF Bound, Disputed
<1> QED
  BY <1>4, <1>5

\* Half-way through a boot: the bridges of the lines that were run are in place, unless
\* an interface is missing, and no interface is in a bridge without a line.
Spanned(top, z, left) ==
  /\ \A m \in top \ left : m.cmd = "bridge" => Refused(z, m) \/ Ports(m.val) \subseteq z.ports[m.arg]
  /\ \A n \in Bridges : \A p \in z.ports[n] :
       \E m \in top \ left : m.cmd = "bridge" /\ p \in Ports(m.val)

\* The next line is run.
LEMMA SpannedStep ==
  ASSUME NEW top, top \subseteq Lines, ~Disputed(top), NEW z \in System, NEW left \in SUBSET top,
         NEW l \in left, Spanned(top, z, left), NEW e, e = Effect(z, l)
  PROVE  Spanned(top, e, left \ {l})
<1>1. l \in Lines /\ l \in top /\ top \ (left \ {l}) = (top \ left) \cup {l}
  OBVIOUS
<1>2. Changed(z, l, e)
  BY <1>1, EffectIs
<1>3. e.gone = z.gone /\ \A n \in Bridges : z.ports[n] \subseteq e.ports[n]
  BY <1>1, PortsGrow
<1>4. \A m \in Lines : Refused(e, m) = Refused(z, m)
  BY <1>3 DEF Refused
<1>5. ASSUME NEW m \in top \ left, m.cmd = "bridge"
      PROVE  Refused(e, m) \/ Ports(m.val) \subseteq e.ports[m.arg]
  <2>1. m \in Lines /\ m.arg \in Bridges
    BY <1>5, LineKinds
  <2>2. Refused(z, m) \/ Ports(m.val) \subseteq z.ports[m.arg]
    BY <1>5 DEF Spanned
  <2> QED
    BY <1>3, <1>4, <2>1, <2>2
<1>6. CASE l.cmd # "bridge"
  <2>1. e.ports = z.ports
    BY <1>2, <1>6 DEF Changed
  <2> QED
    BY <1>1, <1>5, <1>6, <2>1 DEF Spanned
<1>7. CASE l.cmd = "bridge" /\ Refused(z, l)
  <2>1. e = z
    BY <1>1, <1>7, BridgeIs
  <2> QED
    BY <1>1, <1>5, <1>7, <2>1 DEF Spanned
<1>8. CASE l.cmd = "bridge" /\ ~Refused(z, l)
  <2>1. ASSUME NEW p \in Ports(l.val), p \in Bridged(z) PROVE FALSE
    <3>1. PICK n \in Bridges : p \in z.ports[n]
      BY <2>1 DEF Bridged
    <3>2. PICK m \in top \ left : m.cmd = "bridge" /\ p \in Ports(m.val)
      BY <3>1 DEF Spanned
    <3>3. m # l /\ m \in top /\ Ports(l.val) \cap Ports(m.val) # {}
      BY <2>1, <3>2
    <3> QED
      BY <1>1, <1>8, <3>2, <3>3 DEF Disputed
  <2>2. AddIf(z, l) = Ports(l.val)
    BY <2>1 DEF AddIf, Ports
  <2>3. l.arg \in Bridges
    BY <1>1, <1>8, LineKinds
  <2>4. /\ e.ports[l.arg] = z.ports[l.arg] \cup Ports(l.val)
        /\ \A n \in Bridges : n # l.arg => e.ports[n] = z.ports[n]
    BY <1>1, <1>8, <2>2, BridgeIs
  <2>5. ASSUME NEW n \in Bridges, NEW p \in e.ports[n]
        PROVE  \E m \in (top \ left) \cup {l} : m.cmd = "bridge" /\ p \in Ports(m.val)
    <3>1. p \in z.ports[n] \/ p \in Ports(l.val)
      BY <2>4
    <3> QED
      BY <1>8, <3>1 DEF Spanned
  <2>6. Ports(l.val) \subseteq e.ports[l.arg]
    BY <2>4
  <2> QED
    BY <1>1, <1>5, <2>5, <2>6 DEF Spanned
<1> QED
  BY <1>6, <1>7, <1>8

\* After a boot the bridges whose lines share no interface are in place.
LEMMA BootBridges ==
  ASSUME NEW y, Blank(y), NEW top, Stored(top), ~Disputed(top), NEW z, z = BootConfig(y, top)
  PROVE  \A l \in top : l.cmd = "bridge" => Refused(z, l) \/ Ports(l.val) \subseteq z.ports[l.arg]
<1> DEFINE P == {s \in System \X SUBSET top : Spanned(top, s[1], s[2])}
<1>1. top \subseteq Lines /\ IsFiniteSet(top) /\ y \in System
  BY CommandsAssumption DEF Stored, Blank
<1>2. ASSUME NEW w \in System, NEW left \in SUBSET top
      PROVE  <<w, left>> \in P <=> Spanned(top, w, left)
  <2>1. <<w, left>> \in System \X SUBSET top /\ <<w, left>>[1] = w /\ <<w, left>>[2] = left
    OBVIOUS
  <2> QED
    BY <2>1, Zenon
<1>3. <<y, top>> \in P
  <2>1. Spanned(top, y, top)
    BY DEF Spanned, Blank
  <2> HIDE DEF P
  <2> QED
    BY <1>1, <1>2, <2>1
<1>4. ASSUME NEW w \in System, NEW left \in SUBSET top, NEW l \in left, <<w, left>> \in P
      PROVE  <<Effect(w, l), left \ {l}>> \in P
  <2>1. Effect(w, l) \in System
    BY <1>1, EffectIs DEF Changed
  <2> HIDE DEF P
  <2>2. Spanned(top, w, left)
    BY <1>2, <1>4
  <2>3. Spanned(top, Effect(w, l), left \ {l})
    BY <1>1, <2>2, SpannedStep
  <2> QED
    BY <1>2, <2>1, <2>3
<1> HIDE DEF P
<1>5. z \in System /\ <<z, {}>> \in P
  BY <1>1, <1>3, <1>4, BootInduct
<1>6. Spanned(top, z, {})
  BY <1>2, <1>5
<1>7. top \ {} = top
  OBVIOUS
<1> QED
  BY <1>6, <1>7 DEF Spanned

\* The bridge lines that file and shell have in common are true.  While no shell runs
\* a line of the file may be about an interface that is not there: the next load
\* drops it.
BridgeInv ==
  ~drifted =>
    /\ shell = None => ~Disputed(file) /\ \A l \in file : Joined(sys, l) \/ Refused(sys, l)
    /\ shell # None => Bound(sys, file, shell) /\ (~behind => Bound(sys, shell, shell))

\* Only bridges and interfaces matter, and the order of the two does not.
LEMMA BoundFacts ==
  ASSUME NEW y, NEW z, y.ports = z.ports, y.gone = z.gone, NEW a, NEW b
  PROVE  /\ Bound(y, a, b) <=> Bound(z, a, b)
         /\ Bound(y, a, b) <=> Bound(y, b, a)
<1>1. a \cap b = b \cap a
  OBVIOUS
<1> QED
  BY <1>1 DEF Bound, Joined

\* Every step keeps the bridges.
LEMMA BridgeStep == TypeInv /\ TypeInv' /\ SingleInv /\ SingleInv' /\ BridgeInv /\ [Next]_vars => BridgeInv'
<1> SUFFICES ASSUME TypeInv, TypeInv', SingleInv, SingleInv', BridgeInv, [Next]_vars PROVE BridgeInv'
  OBVIOUS
<1>1. Asked \subseteq Lines
  BY CommandsAssumption
<1>2. PICK y : y = Loaded(sys, file)
  OBVIOUS
<1>3. y \in System /\ sys \in System /\ y.ports = sys.ports /\ y.gone = sys.gone
  BY <1>2, LoadedIs DEF TypeInv
<1>4. PICK top : top = Kept(sys, file)
  OBVIOUS
<1>5. Single(top) /\ Single(file) /\ (shell # None => Single(shell)) /\ top \subseteq file
  BY <1>4, SingleSubset DEF SingleInv, Kept
<1>6. ASSUME ~drifted
      PROVE  /\ shell = None => Bound(y, top, top)
             /\ shell # None => Bound(y, top, shell)
  <2>1. ASSUME shell = None PROVE Bound(sys, top, top)
    <3>1. \A l \in top : Joined(sys, l)
      BY <1>4, <1>6, <2>1 DEF BridgeInv, Kept
    <3>2. ~Disputed(top)
      BY <1>5, <1>6, <2>1 DEF BridgeInv, Disputed
    <3>3. top \cap top = top
      OBVIOUS
    <3> QED
      BY <3>1, <3>2, <3>3 DEF Bound
  <2>2. ASSUME shell # None PROVE Bound(sys, top, shell)
    BY <1>5, <1>6, <2>2 DEF BridgeInv, Bound, Disputed
  <2> QED
    BY <1>3, <2>1, <2>2, BoundFacts
<1>7. ASSUME NEW ok, NEW new, NEW z, Eval(ok, new, z),
             \A b : Bound(y, top, b) => Bound(z, new, b),
             Bound(y, top, top) => Bound(z, new, new)
      PROVE  BridgeInv'
  <2>1. /\ file' = new /\ sys' = z /\ shell' = shell /\ drifted' = drifted
        /\ shell # None => behind'
    BY <1>7 DEF Eval
  <2>2. ASSUME ~drifted
        PROVE  /\ shell = None => Bound(z, new, new)
               /\ shell # None => Bound(z, new, shell)
    BY <1>6, <1>7, <2>2
  <2>3. Bound(z, new, new) => ~Disputed(new) /\ \A l \in new : Joined(z, l)
    <3>1. new \cap new = new
      OBVIOUS
    <3> QED
      BY <3>1 DEF Bound
  <2> QED
    BY <2>1, <2>2, <2>3 DEF BridgeInv
<1>8. ASSUME NEW l \in Asked, EvalSet(l)
      PROVE  BridgeInv'
  <2>1. PICK new, z : new = Edited(top, sys, l) /\ z = Effect(y, l)
    OBVIOUS
  <2>2. Eval(TRUE, new, z)
    BY <1>2, <1>4, <1>8, <2>1 DEF EvalSet
  <2>3. (\A b : Bound(y, top, b) => Bound(z, new, b)) /\ (Bound(y, top, top) => Bound(z, new, new))
    BY <1>1, <1>3, <1>5, <2>1, SetBound
  <2> QED
    BY <1>7, <2>2, <2>3
<1>9. ASSUME NEW l \in Asked, EvalNo(l)
      PROVE  BridgeInv'
  <2>1. PICK new, z : new = RemoveLine(top, l) /\ z = NoEffect(y, l)
    OBVIOUS
  <2>2. Eval(HasNo(l), new, z)
    BY <1>2, <1>4, <1>9, <2>1 DEF EvalNo
  <2>3. (\A b : Bound(y, top, b) => Bound(z, new, b)) /\ (Bound(y, top, top) => Bound(z, new, new))
    BY <1>1, <1>3, <1>5, <2>1, NoBound
  <2> QED
    BY <1>7, <2>2, <2>3
<1>10. CASE EvalRekey \/ EvalClearkey
  <2>1. PICK z : Eval(TRUE, top, z) /\ z \in {WgRekey(y), WgClearkey(y)}
    BY <1>2, <1>4, <1>10 DEF EvalRekey, EvalClearkey
  <2>2. z.ports = y.ports /\ z.gone = y.gone /\ z.bad = y.bad
    BY <1>3, <2>1, KeysAre
  <2>3. (\A b : Bound(y, top, b) => Bound(z, top, b)) /\ (Bound(y, top, top) => Bound(z, top, top))
    BY <2>2, BoundFacts
  <2> QED
    BY <1>7, <2>1, <2>3
<1>11. ASSUME shell # None, NEW new, NEW z,
              UNCHANGED <<file, behind, drifted>>, shell' = new, sys' = z,
              \A b : Bound(sys, shell, b) => Bound(z, new, b),
              Bound(sys, shell, shell) => Bound(z, new, new),
              \E l \in Asked : new = Edited(shell, sys, l) \/ new = RemoveLine(shell, l)
       PROVE  BridgeInv'
  <2>1. ASSUME ~drifted
        PROVE  Bound(z, file, new) /\ (~behind => Bound(z, new, new))
    <3>1. Bound(sys, shell, file) /\ (~behind => Bound(sys, shell, shell))
      BY <1>11, <2>1, BoundFacts DEF BridgeInv
    <3>2. Bound(z, new, file)
      BY <1>11, <3>1
    <3> QED
      BY <1>11, <3>1, <3>2, BoundFacts
  <2>2. new # None
    <3>1. Stored(new)
      BY <1>11, EditsStored DEF TypeInv
    <3> QED
      BY <3>1, CommandsAssumption DEF Stored
  <2> QED
    BY <1>11, <2>1, <2>2 DEF BridgeInv
<1>12. ASSUME NEW l \in Asked, ShellSet(l)
       PROVE  BridgeInv'
  <2>1. PICK new, z : new = Edited(shell, sys, l) /\ z = Effect(sys, l)
    OBVIOUS
  <2>2. shell # None /\ UNCHANGED <<file, behind, drifted>> /\ shell' = new /\ sys' = z
    BY <1>12, <2>1 DEF ShellSet
  <2>3. /\ \A b : Bound(sys, shell, b) => Bound(z, new, b)
        /\ Bound(sys, shell, shell) => Bound(z, new, new)
    BY <1>1, <1>3, <1>5, <2>1, <2>2, SetBound
  <2> QED
    BY <1>11, <2>1, <2>2, <2>3
<1>13. ASSUME NEW l \in Asked, ShellNo(l)
       PROVE  BridgeInv'
  <2>1. PICK new, z : new = RemoveLine(shell, l) /\ z = NoEffect(sys, l)
    OBVIOUS
  <2>2. shell # None /\ UNCHANGED <<file, behind, drifted>> /\ shell' = new /\ sys' = z
    BY <1>13, <2>1 DEF ShellNo
  <2>3. /\ \A b : Bound(sys, shell, b) => Bound(z, new, b)
        /\ Bound(sys, shell, shell) => Bound(z, new, new)
    BY <1>1, <1>3, <1>5, <2>1, <2>2, NoBound
  <2> QED
    BY <1>11, <2>1, <2>2, <2>3
<1>14. CASE Open
  <2>1. shell = None /\ shell' = top /\ sys' = y /\ file' = file /\ drifted' = drifted
    BY <1>2, <1>4, <1>14 DEF Open
  <2>2. top \cap top = top /\ file \cap top = top
    BY <1>5
  <2>3. ~drifted => Bound(y, file, top) /\ Bound(y, top, top)
    BY <1>6, <2>1, <2>2 DEF Bound
  <2>4. top # None
    <3>1. top \subseteq Asked
      BY <1>4 DEF TypeInv, Stored, Kept
    <3> QED
      BY <3>1, CommandsAssumption
  <2> QED
    BY <2>1, <2>3, <2>4 DEF BridgeInv
<1>15. CASE ShellWrite
  <2>1. /\ shell # None /\ file' = shell /\ shell' = shell /\ sys' = sys /\ ~behind'
        /\ drifted' = (drifted \/ (behind /\ shell # file))
    BY <1>15 DEF ShellWrite
  <2>2. ASSUME ~drifted' PROVE Bound(sys, shell, shell)
    BY <2>1, <2>2 DEF BridgeInv
  <2> QED
    BY <2>1, <2>2 DEF BridgeInv
<1>16. CASE ShellExit
  <2>1. /\ shell # None /\ file' = file /\ shell' = None /\ sys' = sys
        /\ drifted' = (drifted \/ shell # file)
    BY <1>16 DEF ShellExit
  <2>2. ASSUME ~drifted' PROVE Bound(sys, file, file)
    BY <2>1, <2>2 DEF BridgeInv
  <2>3. file \cap file = file
    OBVIOUS
  <2> QED
    BY <2>1, <2>2, <2>3 DEF BridgeInv, Bound
<1>17. ASSUME NEW i \in Removable, Unplug(i)
       PROVE  BridgeInv'
  <2>1. sys'.gone = sys.gone \cup {i} /\ UNCHANGED <<file, shell, behind, drifted>>
    BY <1>3, <1>17 DEF Unplug, System
  <2>2. \A n \in Bridges : sys'.ports[n] = sys.ports[n] \ {i}
    BY <1>3, <1>17 DEF Unplug, System
  <2>3. \A l \in Lines : (Joined(sys, l) => Joined(sys', l)) /\ (Refused(sys, l) => Refused(sys', l))
    BY <2>1, <2>2, LineKinds DEF Joined, Refused
  <2>4. \A a, b : a \subseteq Lines /\ Bound(sys, a, b) => Bound(sys', a, b)
    BY <2>3 DEF Bound
  <2>5. file \subseteq Lines /\ (shell # None => shell \subseteq Lines)
    BY <1>5 DEF Single
  <2> QED
    BY <2>1, <2>3, <2>4, <2>5 DEF BridgeInv
<1>18. ASSUME NEW l \in Asked, EvalNoBeginning(l) \/ ShellNoBeginning(l)
       PROVE  BridgeInv'
  <2>1. drifted' = TRUE
    BY <1>18 DEF EvalNoBeginning, ShellNoBeginning
  <2> QED
    BY <2>1 DEF BridgeInv
<1>19. ASSUME NEW bad \in SUBSET Fallible, Resolve(bad)
       PROVE  BridgeInv'
  <2>1. sys'.ports = sys.ports /\ sys'.gone = sys.gone /\ UNCHANGED <<file, shell, behind, drifted>>
    BY <1>3, <1>19 DEF Resolve, System
  <2>2. \A l : (Joined(sys, l) => Joined(sys', l)) /\ (Refused(sys, l) => Refused(sys', l))
    BY <2>1 DEF Joined, Refused
  <2>3. \A a, b : Bound(sys, a, b) => Bound(sys', a, b)
    BY <2>1, BoundFacts
  <2> QED
    BY <2>1, <2>2, <2>3 DEF BridgeInv
<1>20. ASSUME NEW plugged \in SUBSET sys.gone, Reboot(plugged)
       PROVE  BridgeInv'
  <2>1. PICK on : on = Boot(sys, plugged)
    OBVIOUS
  <2>2. /\ sys' = BootConfig(on, file') /\ shell' = None /\ Blank(on) /\ Stored(file')
        /\ drifted' = ((drifted \/ shell \notin {None, file}) /\ Disputed(file'))
    BY <1>3, <1>20, <2>1, BootIs DEF Reboot, TypeInv, Stored
  <2>3. file' \subseteq file
    BY <1>20 DEF Reboot, Kept
  <2>4. ASSUME ~drifted' PROVE ~Disputed(file')
    <3>1. CASE ~drifted /\ shell \in {None, file}
      <4>1. ~Disputed(file)
        <5>1. file \cap file = file
          OBVIOUS
        <5> QED
          BY <3>1, <5>1 DEF BridgeInv, Bound
      <4> QED
        BY <2>3, <4>1 DEF Disputed
    <3>2. CASE drifted \/ shell \notin {None, file}
      BY <2>2, <2>4, <3>2
    <3> QED
      BY <3>1, <3>2
  <2>5. ASSUME ~drifted', NEW l \in file' PROVE Joined(sys', l) \/ Refused(sys', l)
    <3>1. l.cmd = "bridge" => Refused(sys', l) \/ Ports(l.val) \subseteq sys'.ports[l.arg]
      BY <2>2, <2>4, <2>5, BootBridges
    <3> QED
      BY <3>1 DEF Joined
  <2> QED
    BY <2>2, <2>4, <2>5 DEF BridgeInv, Disputed
<1>21. CASE UNCHANGED vars
  BY <1>21 DEF vars, BridgeInv, Bound, Joined, Disputed, Refused
<1> QED
  BY <1>8, <1>9, <1>10, <1>12, <1>13, <1>14, <1>15, <1>16, <1>17, <1>18, <1>19, <1>20, <1>21, Steps

\* A bridge line of the file is true as long as its interfaces stay plugged in, under
\* the same condition as above and for any bridges, in whatever order they are
\* entered, changed, removed and booted (cmd_bridge.c bridge_add, no_bridge_add).
THEOREM FileDescribesBridges == Spec => []BridgeInPlace
<1>1. Init => SingleInv /\ BridgeInv
  BY DEF Init, SingleInv, Single, BridgeInv, Disputed
<1>2. BridgeInv => BridgeInPlace
  <2> SUFFICES ASSUME BridgeInv, ~drifted, shell \in {None, file}, NEW l \in file,
                      l.cmd = "bridge", ~Refused(sys, l)
               PROVE  Ports(l.val) \subseteq sys.ports[l.arg]
    BY DEF BridgeInPlace
  <2>1. file \cap file = file
    OBVIOUS
  <2>2. Joined(sys, l)
    BY <2>1 DEF BridgeInv, Bound
  <2> QED
    BY <2>2 DEF Joined, Refused
<1> QED
  BY <1>1, <1>2, InitType, TypeStep, SingleStep, BridgeStep, PTL DEF Spec

----------------------------------------------------------------------------
(* A boot as a whole.                                                      *)

\* After a boot every line of the file is in effect, for any file that commands can
\* have left: none undoes another one, in the order in which they are in the file.
\* A peer that wg does not take at the boot is not there, whatever it was before
\* (vtysh.c vtysh_boot_config, vtysh_config.c config_dump, cmd_vpn.c wg_peer_*).
THEOREM BootsApplyFile == Spec => BootApplies
<1> DEFINE Applied == Reboot(sys.gone \ sys'.gone) => \A l \in file : InEffect(sys', l)
<1>1. ASSUME TypeInv, TypeInv', SingleInv, SingleInv', [Next]_vars
      PROVE  Applied
  <2> SUFFICES ASSUME Reboot(sys.gone \ sys'.gone), NEW l \in file
               PROVE  InEffect(sys', l)
    OBVIOUS
  <2>1. PICK plugged : plugged = sys.gone \ sys'.gone
    OBVIOUS
  <2>2. PICK on : on = Boot(sys, plugged)
    OBVIOUS
  <2>3. /\ sys' = BootConfig(on, file')
        /\ file' = IF sys.key = None THEN Kept(on, file) ELSE file
    BY <2>1, <2>2 DEF Reboot
  <2>4. Blank(on) /\ Stored(file') /\ Single(file') /\ l \in Lines
    BY <1>1, <2>2, BootIs, CommandsAssumption DEF TypeInv, SingleInv, Stored, Single
  <2>5. sys'.gone = on.gone /\ \A m \in file' : InPlace(sys', m)
    BY <2>3, <2>4, BootLines
  <2>6. CASE l \notin file'
    <3>1. Refused(on, l)
      BY <2>3, <2>6 DEF Kept
    <3>2. l.cmd = "bridge" /\ Refused(sys', l)
      BY <2>5, <3>1 DEF Refused
    <3> QED
      BY <3>2 DEF InEffect
  <2>7. CASE l \in file' /\ l.cmd = "bridge"
    <3>1. file' \subseteq file
      BY <2>3 DEF Kept
    <3>2. ~Disputed(file) => ~Disputed(file')
      BY <3>1 DEF Disputed
    <3>3. ~Disputed(file) => Refused(sys', l) \/ Ports(l.val) \subseteq sys'.ports[l.arg]
      BY <2>3, <2>4, <2>7, <3>2, BootBridges
    <3> QED
      BY <2>7, <3>3 DEF InEffect
  <2>8. CASE l \in file' /\ l.cmd # "bridge"
    <3>1. InPlace(sys', l)
      BY <2>5, <2>8
    <3>2. l.cmd \in Setters \/ l.cmd \in {"link", "route"} \cup Inert
      BY <2>4, <2>8, LineKinds DEF Setters
    <3> QED
      BY <2>8, <3>1, <3>2 DEF InEffect, InPlace, Setters, Inert
  <2> QED
    BY <2>6, <2>7, <2>8
<1>2. Init => SingleInv
  BY DEF Init, SingleInv, Single
<1>3. TypeInv /\ TypeInv' /\ SingleInv /\ SingleInv' /\ [Next]_vars => [Applied]_vars
  BY <1>1
<1> QED
  BY <1>2, <1>3, InitType, TypeStep, SingleStep, PTL DEF Spec, BootApplies
=============================================================================
