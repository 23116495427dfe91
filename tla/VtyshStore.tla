----------------------------- MODULE VtyshStore -----------------------------
(***************************************************************************)
(* vtysh processes that share one configuration file (wgshell/vtysh:       *)
(* vtysh_main.c, vtysh.c, vtysh_config.c, cmd_vpn.c).  "vtysh -e <line>"   *)
(* loads the whole file into its config_top, executes the line, truncates  *)
(* the file and dumps config_top into it line by line; the line "write"    *)
(* does the same once more before.  No lock protects the file.  The lines  *)
(* are those of WireGuard peers: config_top is sorted and holds at most    *)
(* one line per public key, so it is a function from keys to values.  The  *)
(* keys are those the web UI sends: it checks their length, so that none   *)
(* is the beginning of another.                                            *)
(***************************************************************************)
EXTENDS Naturals, Sequences

CONSTANTS
  Keys,      \* public keys, numbered in the order strcmp gives their lines
  Vals,      \* allowed-ips, endpoint and keepalive of a peer
  None,      \* no peer
  Refused,   \* lines that vtysh refuses; see PeerOps
  Fallible,  \* values with an endpoint that wg may not take: "none", a name without an address
  Procs      \* vtysh processes

VARIABLES
  file,  \* the lines of the configuration file
  kern,  \* the peers of wg0
  pc,    \* control point of each process
  op,    \* the line it was given
  mem,   \* its config_top
  todo,  \* the keys config_dump has yet to write
  wpos,  \* the lines it has written
  saved  \* history: the config_top last opened for dumping

storeVars == <<file, kern, pc, op, mem, todo, wpos, saved>>

Config == [Keys -> Vals \cup {None}]
Empty  == [k \in Keys |-> None]
Hole   == [key |-> None, val |-> None]
Line   == [key : Keys, val : Vals] \cup {Hole}

\* "wg peer K ..." and "no wg peer K", and "write", which changes nothing.
PeerOps == [key : Keys, val : Vals \cup {None}]
WriteOp == [key |-> None, val |-> None]
Ops     == PeerOps \cup {WriteOp}

\* vtysh refuses a line that is no command, such as one with an empty key or an
\* empty endpoint, and one whose handler finds fault with an argument.
ASSUME StoreAssumption == /\ Keys \subseteq Nat /\ None \notin Vals /\ None \notin Keys
                          /\ Refused \subseteq PeerOps /\ Fallible \subseteq Vals

\* Mutant: "no wg peer" is installed with the handler of "wg peer".
ApplyOpAdds(o, cfg) ==
  IF o \in Refused \cup {WriteOp} THEN cfg
  ELSE [cfg EXCEPT ![o.key] = IF o.val = None THEN CHOOSE v \in Vals : TRUE ELSE o.val]

\* config_del_line_byleft, then config_add_line: one line per key.  A line that
\* is refused changes nothing.
ApplyOp(o, cfg) == IF o \in Refused \cup {WriteOp} THEN cfg ELSE [cfg EXCEPT ![o.key] = o.val]

\* "wg set", whose result nobody looks at: it sets all of the peer or nothing.
WgSet(o, wg) == {ApplyOp(o, wg)} \cup IF o.val \in Fallible THEN {wg} ELSE {}

Present(cfg) == {k \in Keys : cfg[k] # None}

\* vtysh_config_from_file: a line replaces an earlier one of its key; what a
\* hole of NUL bytes precedes is not read.
Load(f) ==
  [k \in Keys |->
     LET at == {i \in 1 .. Len(f) : f[i].key = k}
     IN  IF at = {} THEN None ELSE f[CHOOSE i \in at : \A j \in at : j <= i].val]

\* A write of line l at the writer's own offset n, in lines: over another
\* writer's line, at the end, or behind a hole if the file was truncated since.
WriteAt(f, n, l) ==
  IF n < Len(f) THEN [f EXCEPT ![n + 1] = l]
  ELSE [i \in 1 .. n + 1 |-> CASE i <= Len(f) -> f[i]
                               [] i = n + 1 /\ n = Len(f) -> l
                               [] OTHER -> Hole]

----------------------------------------------------------------------------
StoreInit ==
  /\ file = <<>>
  /\ kern = Empty
  /\ pc   = [p \in Procs |-> "off"]
  /\ op   = [p \in Procs |-> WriteOp]
  /\ mem  = [p \in Procs |-> Empty]
  /\ todo = [p \in Procs |-> {}]
  /\ wpos = [p \in Procs |-> 0]
  /\ saved = Empty

\* The process starts with line o: vtysh_load_config.
Start(p, o) ==
  /\ pc[p] = "off"
  /\ pc' = [pc EXCEPT ![p] = "loaded"]
  /\ op' = [op EXCEPT ![p] = o]
  /\ mem' = [mem EXCEPT ![p] = Load(file)]
  /\ UNCHANGED <<file, kern, todo, wpos, saved>>

\* Mutant: the handler configures wg0 only.
ExecuteKernelOnly(p) ==
  /\ pc[p] = "loaded"
  /\ pc' = [pc EXCEPT ![p] = IF op[p] = WriteOp THEN "write" ELSE "done"]
  /\ kern' \in WgSet(op[p], kern)
  /\ UNCHANGED <<file, op, mem, todo, wpos, saved>>

\* Mutant: without "config terminal" the line is no command.
ExecuteInViewNode(p) ==
  /\ pc[p] = "loaded"
  /\ pc' = [pc EXCEPT ![p] = IF op[p] = WriteOp THEN "write" ELSE "done"]
  /\ UNCHANGED <<file, kern, op, mem, todo, wpos, saved>>

\* vtysh_execute(eval_line): the handler changes config_top, then runs wg; the
\* handler of "write" dumps config_top.
Execute(p) ==
  /\ pc[p] = "loaded"
  /\ pc' = [pc EXCEPT ![p] = IF op[p] = WriteOp THEN "write" ELSE "done"]
  /\ mem' = [mem EXCEPT ![p] = ApplyOp(op[p], @)]
  /\ kern' \in WgSet(op[p], kern)
  /\ UNCHANGED <<file, op, todo, wpos, saved>>

\* Mutant: lines that were deleted are dumped too.
TruncateKeepsDeleted(p) ==
  /\ pc[p] \in {"write", "done"}
  /\ pc' = [pc EXCEPT ![p] = IF @ = "write" THEN "writing" ELSE "dump"]
  /\ file' = <<>>
  /\ todo' = [todo EXCEPT ![p] = Keys]
  /\ wpos' = [wpos EXCEPT ![p] = 0]
  /\ saved' = mem[p]
  /\ UNCHANGED <<kern, op, mem>>

\* Mutant: the file is opened for update, not truncated.
TruncateNothing(p) ==
  /\ pc[p] \in {"write", "done"}
  /\ pc' = [pc EXCEPT ![p] = IF @ = "write" THEN "writing" ELSE "dump"]
  /\ todo' = [todo EXCEPT ![p] = Present(mem[p])]
  /\ wpos' = [wpos EXCEPT ![p] = 0]
  /\ saved' = mem[p]
  /\ UNCHANGED <<file, kern, op, mem>>

\* fopen(host.config, "w"), in "write" and then in main, whatever the command
\* returned.
Truncate(p) ==
  /\ pc[p] \in {"write", "done"}
  /\ pc' = [pc EXCEPT ![p] = IF @ = "write" THEN "writing" ELSE "dump"]
  /\ file' = <<>>
  /\ todo' = [todo EXCEPT ![p] = Present(mem[p])]
  /\ wpos' = [wpos EXCEPT ![p] = 0]
  /\ saved' = mem[p]
  /\ UNCHANGED <<kern, op, mem>>

\* One fprintf and fflush of config_dump: the next line in sorted order.
DumpLine(p) ==
  /\ pc[p] \in {"writing", "dump"}
  /\ \E k \in todo[p] :
       /\ \A j \in todo[p] : k <= j
       /\ file' = WriteAt(file, wpos[p], [key |-> k, val |-> mem[p][k]])
       /\ todo' = [todo EXCEPT ![p] = @ \ {k}]
  /\ wpos' = [wpos EXCEPT ![p] = @ + 1]
  /\ UNCHANGED <<kern, pc, op, mem, saved>>

\* The handler of "write" has dumped everything and returns.
EndWrite(p) ==
  /\ pc[p] = "writing"
  /\ todo[p] = {}
  /\ pc' = [pc EXCEPT ![p] = "done"]
  /\ UNCHANGED <<file, kern, op, mem, todo, wpos, saved>>

\* exit(0).
Exit(p) ==
  /\ pc[p] = "dump"
  /\ todo[p] = {}
  /\ pc' = [pc EXCEPT ![p] = "off"]
  /\ UNCHANGED <<file, kern, op, mem, todo, wpos, saved>>

Step(p) == Execute(p) \/ Truncate(p) \/ DumpLine(p) \/ EndWrite(p) \/ Exit(p)

\* Power is lost at any point and the device starts again: the processes and
\* wg0 are gone, and vtysh -b (vtysh_boot_config) executes every line of the file;
\* "wg set" may fail here too.
Reboot ==
  /\ pc' = [p \in Procs |-> "off"]
  /\ todo' = [p \in Procs |-> {}]
  /\ \E failed \in SUBSET {k \in Keys : Load(file)[k] \in Fallible} :
       kern' = [k \in Keys |-> IF k \in failed THEN None ELSE Load(file)[k]]
  /\ UNCHANGED <<file, op, mem, wpos, saved>>

----------------------------------------------------------------------------
\* The configuration the store stands for: what the process that is dumping
\* holds, otherwise what the file says.
Current ==
  IF \E p \in Procs : pc[p] \in {"writing", "dump"}
    THEN mem[CHOOSE p \in Procs : pc[p] \in {"writing", "dump"}]
    ELSE Load(file)

StoreTypeOK ==
  /\ file \in Seq(Line)
  /\ kern \in Config
  /\ pc \in [Procs -> {"off", "loaded", "write", "writing", "done", "dump"}]
  /\ op \in [Procs -> Ops]
  /\ mem \in [Procs -> Config]
  /\ todo \in [Procs -> SUBSET Keys]
  /\ wpos \in [Procs -> Nat]
  /\ saved \in Config

\* wg0 does what the lines say, as far as wg takes them.
Follows(wg, cfg) == \A k \in Keys : wg[k] = cfg[k] \/ cfg[k] \in Fallible

Idle == \A p \in Procs : pc[p] = "off"
=============================================================================
