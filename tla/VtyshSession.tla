---------------------------- MODULE VtyshSession ----------------------------
(***************************************************************************)
(* An interactive vtysh from its start to its end (wgshell/vtysh:          *)
(* vtysh_main.c, vtysh.c, command.c, cmd/cmd_common.c, cmd/cmd_tool.c and  *)
(* others).  The user moves between the nodes, runs tools, changes and     *)
(* writes the configuration and applies firewall rules.  All commands run  *)
(* in this one process, which has a bounded table of file descriptors.     *)
(* Some give back what they opened, some do not: this module keeps count.  *)
(*                                                                         *)
(* A command that only prints, or only calls system(), leaves no trace     *)
(* here and is left out.  No command that sets a password is compiled in,  *)
(* so that "enable" never asks for one.                                    *)
(***************************************************************************)
EXTENDS Firewall, Integers, FiniteSets, FiniteSetsExt

CONSTANTS
  MaxFds,       \* size of the descriptor table
  MaxChanges,   \* bound: changes of the configuration
  Texts         \* contents of filter.txt and portmap.txt

VARIABLES
  proc,       \* "running", "spinning" after the end of input, "exited"
  node,       \* vty->node
  fds,        \* the descriptor table
  top,        \* config_top: the number of changes made to it
  file,       \* the change that the configuration file is of
  fw,         \* the firewall, see Firewall
  port,       \* the listen port last set, Missing if uci could not be run
  leaky,      \* history: descriptors opened and not closed
  forkFailed, \* history: a fork has failed
  late,       \* history: the port is newer than firewall.ORG
  last        \* history: for each kind, the rules last applied, Missing after an apply that failed

vars == <<proc, node, fds, top, file, fw, port, leaky, forkFailed, late, last>>

Fds    == 0 .. MaxFds - 1
Stderr == 2
Closed == "closed"
None   == -1

ASSUME SessionAssumption ==
  MaxFds \in Nat /\ MaxFds > Stderr /\ MaxChanges \in Nat
    /\ Texts \subseteq Seq(Rules \cup {Junk}) /\ Missing \notin Ports

Init ==
  /\ proc = "running"
  /\ node = "VIEW_NODE"
  /\ fds = [i \in Fds |-> IF i <= Stderr THEN "tty" ELSE Closed]
  /\ top = 0 /\ file = 0
  /\ fw = NoFirewall
  /\ port = Missing
  /\ leaky = 0 /\ forkFailed = FALSE /\ late = FALSE
  /\ last = [k \in Kinds |-> Missing]

----------------------------------------------------------------------------
(* The operating system: descriptors are given out lowest first.           *)
OpenFds(t) == {i \in Fds : t[i] # Closed}
Full(t)    == OpenFds(t) = Fds
Fd(t)      == IF Full(t) THEN None ELSE Min(Fds \ OpenFds(t))
OpenAt(t, i, what) == IF i = None THEN t ELSE [t EXCEPT ![i] = what]
Dup2(t, i, j)      == IF i = None THEN t ELSE [t EXCEPT ![j] = t[i]]
Close(t, i)        == OpenAt(t, i, Closed)

\* Mutant: stderr is restored only if /dev/null could be opened and before the
\* child is waited for, from the wrong descriptor.
SystemCommandWrongFd(t, forks) ==
  LET save_out == Fd(t)
      t1       == OpenAt(t, save_out, t[Stderr])
      dnull    == Fd(t1)
      t2       == Dup2(OpenAt(t1, dnull, "null"), dnull, Stderr)
  IN  Close(IF forks THEN Dup2(t2, dnull, Stderr) ELSE t2, dnull)

\* cmd_execute_system_command: stderr is saved, sent to /dev/null for the child
\* and restored.  save_out is never closed; without a child stderr stays where
\* it is.
SystemCommand(t, forks) ==
  LET save_out == Fd(t)
      t1       == OpenAt(t, save_out, t[Stderr])
      dnull    == Fd(t1)
      t2       == Dup2(OpenAt(t1, dnull, "null"), dnull, Stderr)
  IN  Close(IF forks THEN Dup2(t2, save_out, Stderr) ELSE t2, dnull)

----------------------------------------------------------------------------
(* The commands.                                                           *)
At(nodes) == proc = "running" /\ node \in nodes

Everywhere == {"VIEW_NODE", "ENABLE_NODE", "CONFIG_NODE"}
Privileged == {"ENABLE_NODE", "CONFIG_NODE"}

Move(from, to) ==
  /\ At({from})
  /\ node' = to
  /\ UNCHANGED <<proc, fds, top, file, fw, port, leaky, forkFailed, late, last>>

\* enable, disable and configure terminal.
Enable         == Move("VIEW_NODE", "ENABLE_NODE")
Disable        == Move("ENABLE_NODE", "VIEW_NODE")
ConfigTerminal == Move("ENABLE_NODE", "CONFIG_NODE")

\* exit: one node up, and out of the view node.
Exit ==
  \/ Move("CONFIG_NODE", "ENABLE_NODE")
  \/ Move("ENABLE_NODE", "VIEW_NODE")
  \/ /\ At({"VIEW_NODE"})
     /\ proc' = "exited"
     /\ UNCHANGED <<node, fds, top, file, fw, port, leaky, forkFailed, late, last>>

\* reboot, answered with y; poweroff is the same a little later.
Reboot ==
  /\ At({"CONFIG_NODE"})
  /\ proc' = "exited"
  /\ UNCHANGED <<node, fds, top, file, fw, port, leaky, forkFailed, late, last>>

\* The end of input: vtysh_readline returns NULL, vtysh_execute has no line, and
\* the main loop goes on.
EndOfInput ==
  /\ proc = "running"
  /\ proc' = "spinning"
  /\ UNCHANGED <<node, fds, top, file, fw, port, leaky, forkFailed, late, last>>

\* A tool is run as a child process.
External(nodes, forks) ==
  /\ At(nodes)
  /\ fds' = SystemCommand(fds, forks)
  /\ leaky' = leaky + (IF Full(fds) THEN 0 ELSE 1)
  /\ forkFailed' = (forkFailed \/ ~forks)
  /\ UNCHANGED <<proc, node, fw, file, port, late, last>>

\* ping and ssh, with or without their second argument.
Ping(forks) == External(Everywhere, forks) /\ UNCHANGED top

\* tcpdump, netstat; show bridge NAME.
Tcpdump(forks) == External({"ENABLE_NODE"}, forks) /\ UNCHANGED top

\* show date; show ip address, config and route.
ShowIp(forks) == External(Privileged, forks) /\ UNCHANGED top

\* ip address and no ip address: a change that ends with ifconfig.
IpAddress(forks) ==
  /\ top < MaxChanges /\ top' = top + 1
  /\ External({"CONFIG_NODE"}, forks)

\* hostname, nameserver, ip route, wg peer and the other commands that change
\* the configuration: what they open they close.
Change ==
  /\ At({"CONFIG_NODE"})
  /\ top < MaxChanges /\ top' = top + 1
  /\ UNCHANGED <<proc, node, fds, file, fw, port, leaky, forkFailed, late, last>>

\* Mutant: what was shown stays open.
ShowFileLeaks ==
  /\ At(Everywhere)
  /\ fds' = OpenAt(fds, Fd(fds), "file")
  /\ UNCHANGED <<proc, node, top, file, fw, port, leaky, forkFailed, late, last>>

\* show cpuinfo, meminfo and interruptsinfo; show startup-config: opened, read
\* and closed.
ShowFile ==
  /\ At(Everywhere)
  /\ fds' = LET i == Fd(fds) IN Close(OpenAt(fds, i, "file"), i)
  /\ UNCHANGED <<proc, node, top, file, fw, port, leaky, forkFailed, late, last>>

\* write, write file and write memory: the file is not closed.  If it cannot be
\* opened, nothing is written.
WriteFile ==
  /\ At(Privileged)
  /\ fds' = OpenAt(fds, Fd(fds), "file")
  /\ leaky' = leaky + (IF Full(fds) THEN 0 ELSE 1)
  /\ file' = IF Full(fds) THEN file ELSE top
  /\ UNCHANGED <<proc, node, top, fw, port, forkFailed, late, last>>

----------------------------------------------------------------------------
(* The firewall.                                                           *)

\* sfirewall filter apply and sfirewall nat portmap apply.  Two descriptors are
\* needed; if only the rule file can be opened, it is empty and stays open.
Apply(k) ==
  LET readable == fw.txt[k] # Missing /\ Cardinality(OpenFds(fds)) + 2 <= MaxFds
  IN  /\ At({"CONFIG_NODE"})
      /\ fw' = IF Full(fds) THEN fw ELSE Applied(fw, k, readable)
      /\ fds' = IF readable THEN fds ELSE OpenAt(fds, Fd(fds), "file")
      /\ leaky' = leaky + (IF readable \/ Full(fds) THEN 0 ELSE 1)
      /\ last' = [last EXCEPT ![k] = IF readable THEN Translate(k, fw.txt[k])
                                     ELSE IF Full(fds) THEN @ ELSE Missing]
      /\ UNCHANGED <<proc, node, top, file, port, forkFailed, late>>

\* wg listenport: uci is run by a shell, which inherits the table and cannot open
\* anything if it is full.
WgListenport(p) ==
  /\ At({"CONFIG_NODE"})
  /\ top < MaxChanges /\ top' = top + 1
  /\ fw' = IF Full(fds) THEN fw ELSE AllowPort(fw, p)
  /\ port' = IF Full(fds) THEN Missing ELSE p
  /\ late' = (fw.org # Missing)
  /\ UNCHANGED <<proc, node, fds, file, leaky, forkFailed, last>>

\* The administrator puts a text file there.
Provide(k, lines) ==
  /\ fw.txt[k] = Missing
  /\ fw' = PutText(fw, k, lines)
  /\ UNCHANGED <<proc, node, fds, top, file, port, leaky, forkFailed, late, last>>

Next ==
  \/ Enable \/ Disable \/ ConfigTerminal \/ Exit \/ Reboot \/ EndOfInput
  \/ \E forks \in BOOLEAN : Ping(forks) \/ Tcpdump(forks) \/ ShowIp(forks) \/ IpAddress(forks)
  \/ Change \/ ShowFile \/ WriteFile
  \/ \E k \in Kinds : Apply(k) \/ \E lines \in Texts : Provide(k, lines)
  \/ \E p \in Ports : WgListenport(p)

Spec == Init /\ [][Next]_vars

----------------------------------------------------------------------------
\* The shape of the state.
TypeOK ==
  /\ proc \in {"running", "spinning", "exited"}
  /\ node \in Everywhere
  /\ fds \in [Fds -> {Closed, "tty", "null", "file"}]
  /\ top \in 0 .. MaxChanges /\ file \in 0 .. top
  /\ fw \in FirewallState
  /\ port \in Ports \cup {Missing}
  /\ leaky \in Nat /\ forkFailed \in BOOLEAN /\ late \in BOOLEAN
  /\ last \in [Kinds -> Seq(Entries) \cup {Missing}]

\* Whatever was run, with descriptors left or none, messages go to the terminal
\* again, "show running-config" included, which prints to stderr (command.c
\* cmd_execute_system_command "restore"); only a fork that failed leaves them in
\* /dev/null for good.
StderrRestored == fds[Stderr] = "tty" \/ forkFailed

\* The descriptors in use are the three it started with and one for every tool,
\* every write and every apply without its text file: nothing else eats up the
\* table, and nothing is closed that somebody still uses (cmd_common.c
\* config_write_file, command.c cmd_execute_system_command, cmd_fw.c).
DescriptorsAccounted == Cardinality(OpenFds(fds)) = 3 + leaky

Occurs(part, all) == \E i \in 0 .. Len(all) - Len(part) : \A j \in 1 .. Len(part) : all[i + j] = part[j]

\* The port WireGuard listens on stays allowed by the firewall through every
\* apply, if it was set before the first one (cmd_fw.c apply_firewall_rules and
\* cmd_vpn.c wg_listenport; a later port is lost at the next apply).
PortStaysOpen ==
  port # Missing /\ ~late => Occurs(<<[kind |-> "port", of |-> port]>>, fw.uci)

\* Rules that were applied stay in force through ports that are set and applies
\* of the other kind, until their own kind is applied again (cmd_fw.c
\* sfirewall_filter_rules_apply, sfirewall_nat_portmap_apply).
AppliedStays == \A k \in Kinds : last[k] # Missing => Occurs(last[k], fw.uci)
=============================================================================
