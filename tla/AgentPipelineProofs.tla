------------------------ MODULE AgentPipelineProofs ------------------------
(***************************************************************************)
(* Proofs about AgentPipeline for any number of requests, keys and values. *)
(* For both agents: the state keeps its type, and the file never holds a   *)
(* peer that nobody asked for.  For the C++ agent, whose mutex makes the   *)
(* runs of vtysh serial: file and kernel agree, a save cut short leaves a  *)
(* prefix, an answered request is in the file, and the whole implements    *)
(* ConfigService.                                                          *)
(***************************************************************************)
EXTENDS AgentPipeline, NatBounds

----------------------------------------------------------------------------
(* What Load reads.                                                        *)

\* Load finds the last line of a key, or none.
LEMMA LoadFinds ==
  ASSUME NEW f \in Seq(Line), NEW k \in Keys
  PROVE  \/ Load(f)[k] = None /\ \A i \in 1 .. Len(f) : f[i].key # k
         \/ \E i \in 1 .. Len(f) : f[i].key = k /\ Load(f)[k] = f[i].val
<1> DEFINE at == {i \in 1 .. Len(f) : f[i].key = k}
           last == CHOOSE i \in at : \A j \in at : j <= i
<1>1. Load(f)[k] = IF at = {} THEN None ELSE f[last].val
  BY Zenon DEF Load
<1>2. CASE at = {}
  BY <1>1, <1>2
<1>3. CASE at # {}
  <2>1. Len(f) \in Nat /\ at \subseteq Nat /\ \A x \in at : x <= Len(f)
    OBVIOUS
  <2> HIDE DEF at
  <2>2. \E i \in at : \A j \in at : j <= i
    BY <1>3, <2>1, NatGreatest
  <2>3. last \in at
    BY <2>2
  <2> QED
    BY <1>1, <1>3, <2>3 DEF at
<1> QED
  BY <1>2, <1>3

\* What is loaded is a configuration.
LEMMA LoadType ==
  ASSUME NEW f \in Seq(Line)
  PROVE  Load(f) \in Config
<1>1. ASSUME NEW k \in Keys PROVE Load(f)[k] \in Vals \cup {None}
  <2>1. ASSUME NEW i \in 1 .. Len(f) PROVE f[i] \in Line
    OBVIOUS
  <2>2. ASSUME NEW l \in Line PROVE l.val \in Vals \cup {None}
    BY DEF Line, Hole
  <2> QED
    BY <2>1, <2>2, LoadFinds
<1> DEFINE at(k) == {i \in 1 .. Len(f) : f[i].key = k}
           val(k) == IF at(k) = {} THEN None ELSE f[CHOOSE i \in at(k) : \A j \in at(k) : j <= i].val
<1>2. Load(f) = [k \in Keys |-> val(k)]
  BY Zenon DEF Load
<1> HIDE DEF val
<1> QED
  BY <1>1, <1>2 DEF Config

\* A file that one process has written: lines in order, without holes.
Entry == [key : Keys, val : Vals]
InOrder(f) ==
  /\ f \in Seq(Entry)
  /\ \A i, j \in 1 .. Len(f) : i < j => f[i].key < f[j].key

\* In such a file each line counts, and nothing else does.
LEMMA LoadInOrder ==
  ASSUME NEW f, InOrder(f)
  PROVE  /\ f \in Seq(Line)
         /\ \A i \in 1 .. Len(f) : f[i].key \in Keys /\ Load(f)[f[i].key] = f[i].val
         /\ \A k \in Keys : Load(f)[k] # None => \E i \in 1 .. Len(f) : f[i].key = k
<1>1. f \in Seq(Line) /\ f \in Seq(Entry)
  <2>1. f \in Seq(Entry) /\ Entry \subseteq Line
    BY DEF InOrder, Entry, Line
  <2>2. Len(f) \in Nat /\ f \in [1 .. Len(f) -> Line]
    BY <2>1
  <2> QED
    BY <2>1, <2>2
<1>2. ASSUME NEW i \in 1 .. Len(f)
      PROVE  f[i].key \in Keys /\ f[i].key \in Nat /\ Load(f)[f[i].key] = f[i].val
  <2>1. f[i] \in Entry
    BY <1>1
  <2>2. f[i].key \in Keys /\ f[i].key \in Nat
    BY <2>1, StoreAssumption DEF Entry
  <2>3. PICK j \in 1 .. Len(f) : f[j].key = f[i].key /\ Load(f)[f[i].key] = f[j].val
    BY <1>1, <2>2, LoadFinds
  <2>4. i = j
    <3>1. i < j => f[i].key < f[j].key
      BY DEF InOrder
    <3>2. j < i => f[j].key < f[i].key
      BY DEF InOrder
    <3> QED
      BY <2>2, <2>3, <3>1, <3>2
  <2> QED
    BY <2>2, <2>3, <2>4
<1> QED
  BY <1>1, <1>2, LoadFinds

----------------------------------------------------------------------------
(* Types, for both agents.                                                 *)

\* Lines are left to dump only while dumping, and they are lines.
TodoOK == \A p \in Procs : /\ todo[p] # {} => pc[p] \in {"writing", "dump"}
                           /\ todo[p] \subseteq Present(mem[p])

\* vtysh runs while the handler waits for it, with the line it was given, and on
\* if the handler was lost with its agent.
RunsFor ==
  \A r \in Requests : /\ rpc[r] \in {"running", "writing"} => pc[r] # "off"
                      /\ pc[r] # "off" => rpc[r] \in {"running", "writing", "lost"}
                      /\ pc[r] \in {"write", "writing"} => op[r] = WriteOp

TypeInv == TypeOK /\ TodoOK /\ RunsFor

\* A write at any offset leaves lines and holes.
LEMMA WriteAtType ==
  ASSUME NEW f \in Seq(Line), NEW n \in Nat, NEW l \in Line
  PROVE  WriteAt(f, n, l) \in Seq(Line)
<1>1. Hole \in Line /\ Len(f) \in Nat
  BY DEF Line
<1>2. CASE n < Len(f)
  <2>1. WriteAt(f, n, l) = [f EXCEPT ![n + 1] = l]
    BY <1>2 DEF WriteAt
  <2> QED
    BY <1>2, <2>1
<1>3. CASE ~(n < Len(f))
  <2> DEFINE g == [i \in 1 .. n + 1 |-> CASE i <= Len(f) -> f[i]
                                          [] i = n + 1 /\ n = Len(f) -> l
                                          [] OTHER -> Hole]
  <2>1. WriteAt(f, n, l) = g
    BY <1>3 DEF WriteAt
  <2>2. \A i \in 1 .. n + 1 : g[i] \in Line
    BY <1>1, <1>3
  <2>3. g \in [1 .. n + 1 -> Line] /\ n + 1 \in Nat
    BY <2>2
  <2> HIDE DEF g
  <2> QED
    BY <2>1, <2>3
<1> QED
  BY <1>2, <1>3

\* The initial state has its shape.
LEMMA InitType == Init => TypeInv
<1> SUFFICES ASSUME Init PROVE TypeInv
  OBVIOUS
<1> USE PipelineAssumption, StoreAssumption
<1>1. StoreTypeOK
  <2>1. <<>> \in Seq(Line) /\ Empty \in Config
    BY DEF Empty, Config
  <2> QED
    BY <2>1 DEF Init, StoreInit, StoreTypeOK, Ops
<1>2. TypeOK
  BY <1>1 DEF Init, TypeOK, Requests
<1>3. TodoOK /\ RunsFor
  BY DEF Init, StoreInit, TodoOK, RunsFor, Requests
<1> QED
  BY <1>2, <1>3 DEF TypeInv

\* The agent's steps that start a process.
LEMMA StartType ==
  ASSUME TypeInv, NEW r \in Requests, NEW o \in Ops, Start(r, o),
         NEW to \in {"running", "writing"}, rpc' = [rpc EXCEPT ![r] = to],
         rpc[r] # "lost", UNCHANGED <<rop, lock, script, agentUp>>
  PROVE  TypeInv'
<1> USE DEF Requests
<1>1. Load(file) \in Config
  BY LoadType DEF TypeInv, TypeOK, StoreTypeOK
<1>2. TypeOK'
  BY <1>1 DEF TypeInv, TypeOK, StoreTypeOK, Start
<1>3. todo[r] = {}
  BY DEF TypeInv, TodoOK, Start
<1>4. TodoOK'
  BY <1>3 DEF TypeInv, TypeOK, StoreTypeOK, TodoOK, Start, Present
<1>5. RunsFor'
  BY DEF TypeInv, TypeOK, StoreTypeOK, RunsFor, Start
<1> QED
  BY <1>2, <1>4, <1>5 DEF TypeInv

\* The steps of a vtysh process.
LEMMA VtyshType ==
  ASSUME TypeInv, NEW r \in Requests, VtyshStep(r)
  PROVE  TypeInv'
<1> USE StoreAssumption DEF Requests
<1>1. TypeOK /\ StoreTypeOK /\ TodoOK /\ RunsFor
  BY DEF TypeInv, TypeOK
<1>2. /\ pc[r] # "off" /\ rpc[r] \in {"running", "writing", "lost"}
      /\ UNCHANGED <<rop, lock, script, agentUp>>
  BY <1>1 DEF RunsFor, VtyshStep, Step, Execute, Truncate, DumpLine, EndWrite, Exit
<1>3. CASE Execute(r)
  <2>1. pc' # pc /\ rpc' = rpc /\ todo[r] = {}
    BY <1>1, <1>3 DEF VtyshStep, Execute, StoreTypeOK, TodoOK
  <2>2. ASSUME NEW c \in Config PROVE ApplyOp(op[r], c) \in Config
    BY <1>1 DEF ApplyOp, StoreTypeOK, Ops, PeerOps, Config
  <2>3. TypeOK'
    <3>1. kern' \in Config
      BY <1>1, <1>3, <2>2 DEF Execute, WgSet, StoreTypeOK
    <3> QED
      BY <1>1, <1>2, <1>3, <2>1, <2>2, <3>1 DEF Execute, TypeOK, StoreTypeOK
  <2>4. TodoOK'
    BY <1>1, <1>3, <2>1 DEF Execute, StoreTypeOK, TodoOK, Present
  <2>5. RunsFor'
    BY <1>1, <1>2, <1>3, <2>1 DEF Execute, StoreTypeOK, RunsFor
  <2> QED
    BY <2>3, <2>4, <2>5 DEF TypeInv
<1>4. CASE Truncate(r)
  <2>1. rpc' = rpc /\ Present(mem[r]) \subseteq Keys
    BY <1>1, <1>4 DEF VtyshStep, Truncate, StoreTypeOK, Present
  <2>2. TypeOK'
    BY <1>1, <1>2, <1>4, <2>1 DEF Truncate, TypeOK, StoreTypeOK
  <2>3. TodoOK'
    BY <1>1, <1>4 DEF Truncate, StoreTypeOK, TodoOK, Present
  <2>4. RunsFor'
    BY <1>1, <1>2, <1>4, <2>1 DEF Truncate, StoreTypeOK, RunsFor
  <2> QED
    BY <2>2, <2>3, <2>4 DEF TypeInv
<1>5. CASE DumpLine(r)
  <2>1. rpc' = rpc /\ pc' = pc
    BY <1>1, <1>5 DEF VtyshStep, DumpLine, StoreTypeOK
  <2>2. PICK k \in todo[r] : /\ file' = WriteAt(file, wpos[r], [key |-> k, val |-> mem[r][k]])
                             /\ todo' = [todo EXCEPT ![r] = @ \ {k}]
    BY <1>5 DEF DumpLine
  <2>3. [key |-> k, val |-> mem[r][k]] \in Line
    BY <1>1 DEF StoreTypeOK, TodoOK, Present, Config, Line
  <2>4. file' \in Seq(Line)
    BY <1>1, <2>2, <2>3, WriteAtType DEF StoreTypeOK
  <2>5. TypeOK'
    BY <1>1, <1>2, <1>5, <2>1, <2>2, <2>4 DEF DumpLine, TypeOK, StoreTypeOK
  <2>6. TodoOK'
    BY <1>1, <1>5, <2>1, <2>2 DEF DumpLine, StoreTypeOK, TodoOK, Present
  <2>7. RunsFor'
    BY <1>1, <1>5, <2>1 DEF DumpLine, RunsFor
  <2> QED
    BY <2>5, <2>6, <2>7 DEF TypeInv
<1>6. CASE EndWrite(r)
  <2>1. rpc' = rpc
    BY <1>1, <1>6 DEF VtyshStep, EndWrite, StoreTypeOK
  <2> QED
    BY <1>1, <1>2, <1>6, <2>1 DEF EndWrite, TypeInv, TypeOK, StoreTypeOK, TodoOK, RunsFor, Present
<1>7. CASE Exit(r)
  <2>1. rpc' = [rpc EXCEPT ![r] = CASE rpc[r] = "running" -> "ran"
                                   [] rpc[r] = "writing" -> "written"
                                   [] OTHER -> rpc[r]]
    BY <1>1, <1>7 DEF VtyshStep, Exit, StoreTypeOK
  <2> QED
    BY <1>1, <1>2, <1>7, <2>1 DEF Exit, TypeInv, TypeOK, StoreTypeOK, TodoOK, RunsFor, Present
<1> QED
  BY <1>3, <1>4, <1>5, <1>6, <1>7 DEF VtyshStep, Step

\* Every step keeps it.
LEMMA StepType == TypeInv /\ [Next]_vars => TypeInv'
<1> SUFFICES ASSUME TypeInv, [Next]_vars PROVE TypeInv'
  OBVIOUS
<1> USE PipelineAssumption, StoreAssumption DEF Requests
<1>1. TypeOK /\ StoreTypeOK /\ TodoOK /\ RunsFor
  BY DEF TypeInv, TypeOK
<1>2. ASSUME UNCHANGED storeVars, rop' \in [Requests -> PeerOps], lock' \in Requests \cup {NoProc},
             script' \in PeerOps \cup {None}, agentUp' = agentUp, NEW r \in Requests,
             NEW to \in {"lock", "run", "create", "fill", "exec", "ran", "ok"},
             rpc[r] \notin {"running", "writing", "lost"}, rpc' = [rpc EXCEPT ![r] = to]
      PROVE  TypeInv'
  <2>1. TypeOK'
    BY <1>1, <1>2 DEF TypeOK, StoreTypeOK, storeVars
  <2>2. TodoOK'
    BY <1>1, <1>2 DEF TodoOK, storeVars, Present
  <2>3. RunsFor'
    BY <1>1, <1>2 DEF RunsFor, TypeOK, storeVars
  <2> QED
    BY <2>1, <2>2, <2>3 DEF TypeInv
<1>3. ASSUME NEW r \in Requests, NEW o \in PeerOps, Submit(r, o) PROVE TypeInv'
  BY <1>1, <1>2, <1>3 DEF Submit, Goto, TypeOK
<1>4. ASSUME NEW r \in Requests, CppLock(r) \/ GoCreate(r) \/ GoWrite(r) \/ GoRunNothing(r) \/ SendOK(r)
      PROVE  TypeInv'
  BY <1>1, <1>2, <1>4 DEF CppLock, GoCreate, GoWrite, GoRunNothing, SendOK, Goto, TypeOK
<1>5. ASSUME NEW r \in Requests, CppRun(r) \/ GoRun(r) \/ RunWrite(r) PROVE TypeInv'
  BY <1>1, <1>5, StartType DEF CppRun, GoRun, RunWrite, Goto, TypeOK, Ops
<1>6. CASE LosePower
  <2>1. kern' \in Config
    <3>1. Load(file) \in Config
      BY <1>1, LoadType DEF StoreTypeOK
    <3>2. PICK failed : kern' = [k \in Keys |-> IF k \in failed THEN None ELSE Load(file)[k]]
      BY <1>6 DEF LosePower, Reboot
    <3> QED
      BY <3>1, <3>2 DEF Config
  <2>2. TypeOK'
    BY <1>1, <1>6, <2>1 DEF LosePower, Reboot, TypeOK, StoreTypeOK
  <2>3. TodoOK' /\ RunsFor'
    BY <1>1, <1>6 DEF LosePower, Reboot, TodoOK, RunsFor, TypeOK, Present
  <2> QED
    BY <2>2, <2>3 DEF TypeInv
<1>7. CASE UNCHANGED vars
  BY <1>1, <1>7 DEF vars, storeVars, TypeInv, TypeOK, StoreTypeOK, TodoOK, RunsFor, Present
<1>8. ASSUME NEW r \in Requests, GoFatal(r) PROVE TypeInv'
  <2>1. TypeOK'
    BY <1>1, <1>8 DEF GoFatal, TypeOK, StoreTypeOK, storeVars
  <2>2. TodoOK' /\ RunsFor'
    BY <1>1, <1>8 DEF GoFatal, TodoOK, RunsFor, storeVars, Present
  <2> QED
    BY <2>1, <2>2 DEF TypeInv
<1> QED
  BY <1>3, <1>4, <1>5, <1>6, <1>7, <1>8, VtyshType DEF Next, Handle

\* The state keeps its shape with either agent, whatever the interleaving.
THEOREM PipelineTypeCorrect == Spec => []TypeOK
<1>1. TypeInv => TypeOK
  BY DEF TypeInv
<1> QED
  BY <1>1, InitType, StepType, PTL DEF Spec

----------------------------------------------------------------------------
(* Nothing is invented, with either agent.                                 *)

\* The lines that requests which reached the agent ask for.
Wanted == {rop[r] : r \in {q \in Requests : rpc[q] # "idle"}}

\* Every line on its way was asked for: in the script, in the command line of a
\* process, in its config_top and in the file, where holes may be.
WantedInv ==
  /\ script # None => script \in Wanted
  /\ \A p \in Procs : pc[p] # "off" => op[p] = WriteOp \/ op[p] \in Wanted
  /\ \A p \in Procs, k \in Keys : mem[p][k] # None => [key |-> k, val |-> mem[p][k]] \in Wanted
  /\ \A i \in 1 .. Len(file) : file[i] = Hole \/ file[i] \in Wanted

\* What was asked for stays asked for: requests are only added.
LEMMA WantedStays ==
  ASSUME TypeInv, [Next]_vars
  PROVE  Wanted \subseteq Wanted'
<1> USE DEF Requests
<1> SUFFICES ASSUME NEW q \in Requests, rpc[q] # "idle" PROVE rop[q] \in Wanted'
  BY DEF Wanted
<1>1. TypeOK /\ RunsFor
  BY DEF TypeInv
<1>2. rpc'[q] # "idle" /\ rop'[q] = rop[q]
  <2>1. ASSUME NEW r \in Requests, NEW o \in PeerOps, Submit(r, o)
        PROVE  rpc'[q] # "idle" /\ rop'[q] = rop[q]
    BY <1>1, <2>1 DEF Submit, Goto, TypeOK
  <2>2. ASSUME NEW r \in Requests, VtyshStep(r)
        PROVE  rpc'[q] # "idle" /\ rop'[q] = rop[q]
    BY <1>1, <2>2 DEF VtyshStep, TypeOK
  <2>3. ASSUME NEW r \in Requests, Handle(r), ~VtyshStep(r)
        PROVE  rpc'[q] # "idle" /\ rop'[q] = rop[q]
    BY <1>1, <2>3 DEF Handle, CppLock, CppRun, GoCreate, GoWrite, GoRun, GoRunNothing,
                            RunWrite, SendOK, Goto, TypeOK
  <2>4. CASE LosePower
    BY <1>1, <2>4 DEF LosePower, TypeOK
  <2>5. ASSUME NEW r \in Requests, GoFatal(r)
        PROVE  rpc'[q] # "idle" /\ rop'[q] = rop[q]
    BY <1>1, <2>5 DEF GoFatal, TypeOK
  <2> QED
    BY <2>1, <2>2, <2>3, <2>4, <2>5 DEF Next, vars
<1> QED
  BY <1>2 DEF Wanted

\* What is loaded was asked for.
LEMMA LoadWanted ==
  ASSUME TypeInv, WantedInv, NEW k \in Keys, Load(file)[k] # None
  PROVE  [key |-> k, val |-> Load(file)[k]] \in Wanted
<1>1. file \in Seq(Line)
  BY DEF TypeInv, TypeOK, StoreTypeOK
<1>2. PICK i \in 1 .. Len(file) : file[i].key = k /\ Load(file)[k] = file[i].val
  BY <1>1, LoadFinds
<1>3. file[i] \in Line /\ file[i] # Hole
  BY <1>1, <1>2, StoreAssumption DEF Hole
<1>4. file[i] = [key |-> k, val |-> Load(file)[k]]
  BY <1>2, <1>3 DEF Line
<1> QED
  BY <1>3, <1>4 DEF WantedInv

\* No step brings in a line nobody asked for.
LEMMA StepWanted == TypeInv /\ WantedInv /\ [Next]_vars => WantedInv'
<1> SUFFICES ASSUME TypeInv, WantedInv, [Next]_vars PROVE WantedInv'
  OBVIOUS
<1> USE StoreAssumption DEF Requests
<1>1. TypeOK /\ StoreTypeOK /\ TodoOK /\ RunsFor
  BY DEF TypeInv, TypeOK
<1>2. Wanted \subseteq Wanted'
  BY WantedStays
<1> HIDE DEF Wanted
<1>3. ASSUME UNCHANGED <<pc, op, mem, file>>, script' # None => script' = script \/ script' \in Wanted
      PROVE  WantedInv'
  BY <1>2, <1>3 DEF WantedInv
<1>4. ASSUME NEW r \in Requests, NEW o \in PeerOps, Submit(r, o) PROVE WantedInv'
  BY <1>3, <1>4 DEF Submit, storeVars
<1>5. ASSUME NEW r \in Requests, CppLock(r) \/ GoCreate(r) \/ GoRunNothing(r) \/ SendOK(r)
      PROVE  WantedInv'
  BY <1>3, <1>5 DEF CppLock, GoCreate, GoRunNothing, SendOK, storeVars
<1>6. ASSUME NEW r \in Requests, GoWrite(r) PROVE WantedInv'
  <2>1. rop[r] \in Wanted
    BY <1>6 DEF GoWrite, Goto, Wanted
  <2> QED
    BY <1>3, <1>6, <2>1 DEF GoWrite, storeVars
<1>7. ASSUME NEW r \in Requests, NEW o, Start(r, o), o = WriteOp \/ o \in Wanted, script' = script
      PROVE  WantedInv'
  <2>1. \A p \in Procs : pc'[p] # "off" => op'[p] = WriteOp \/ op'[p] \in Wanted'
    BY <1>1, <1>2, <1>7 DEF Start, StoreTypeOK, WantedInv
  <2>2. \A p \in Procs, k \in Keys :
          mem'[p][k] # None => [key |-> k, val |-> mem'[p][k]] \in Wanted'
    BY <1>1, <1>2, <1>7, LoadWanted DEF Start, StoreTypeOK, WantedInv
  <2>3. \A i \in 1 .. Len(file') : file'[i] = Hole \/ file'[i] \in Wanted'
    BY <1>2, <1>7 DEF Start, WantedInv
  <2> QED
    BY <1>2, <1>7, <2>1, <2>2, <2>3 DEF WantedInv
<1>8. ASSUME NEW r \in Requests, CppRun(r) PROVE WantedInv'
  <2>1. rop[r] \in Wanted
    BY <1>8 DEF CppRun, Goto, Wanted
  <2> QED
    BY <1>7, <1>8, <2>1 DEF CppRun
<1>9. ASSUME NEW r \in Requests, GoRun(r) \/ RunWrite(r) PROVE WantedInv'
  BY <1>7, <1>9 DEF GoRun, RunWrite, WantedInv
<1>10. ASSUME NEW r \in Requests, VtyshStep(r) PROVE WantedInv'
  <2>1. script' = script /\ op' = op
    BY <1>10 DEF VtyshStep, Step, Execute, Truncate, DumpLine, EndWrite, Exit
  <2>2. pc[r] # "off" /\ \A p \in Procs : p # r => pc'[p] = pc[p]
    BY <1>1, <1>10 DEF StoreTypeOK, VtyshStep, Step, Execute, Truncate, DumpLine, EndWrite, Exit
  <2>3. \A p \in Procs : pc'[p] # "off" => op'[p] = WriteOp \/ op'[p] \in Wanted'
    BY <1>2, <2>1, <2>2 DEF WantedInv
  <2>4. ASSUME NEW p \in Procs, NEW k \in Keys, mem'[p][k] # None
        PROVE  [key |-> k, val |-> mem'[p][k]] \in Wanted'
    <3>1. CASE mem'[p][k] = mem[p][k]
      BY <1>2, <2>4, <3>1 DEF WantedInv
    <3>2. CASE mem'[p][k] # mem[p][k]
      <4>1. p = r /\ Execute(r)
        BY <1>1, <1>10, <3>2 DEF StoreTypeOK, VtyshStep, Step, Execute, Truncate, DumpLine, EndWrite, Exit
      <4>2. mem'[r] = ApplyOp(op[r], mem[r]) /\ mem[r] \in Config
        BY <1>1, <4>1 DEF StoreTypeOK, Execute
      <4>3. op[r] \in PeerOps /\ op[r].key = k /\ op[r].val = mem'[r][k] /\ op[r] # WriteOp
        BY <1>1, <3>2, <4>1, <4>2 DEF ApplyOp, StoreTypeOK, Ops, PeerOps, Config
      <4>4. op[r] = [key |-> k, val |-> mem'[r][k]]
        BY <4>3 DEF PeerOps
      <4> QED
        BY <1>2, <2>2, <4>1, <4>3, <4>4 DEF WantedInv
    <3> QED
      BY <3>1, <3>2
  <2>5. ASSUME NEW i \in 1 .. Len(file') PROVE file'[i] = Hole \/ file'[i] \in Wanted'
    <3>1. CASE UNCHANGED file
      BY <1>2, <2>5, <3>1 DEF WantedInv
    <3>2. CASE Truncate(r)
      BY <2>5, <3>2 DEF Truncate
    <3>3. CASE DumpLine(r)
      <4>1. PICK k \in todo[r] : file' = WriteAt(file, wpos[r], [key |-> k, val |-> mem[r][k]])
        BY <3>3 DEF DumpLine
      <4> DEFINE l == [key |-> k, val |-> mem[r][k]]
      <4>2. l \in Wanted
        BY <1>1 DEF WantedInv, StoreTypeOK, TodoOK, Present
      <4>3. file \in Seq(Line) /\ wpos[r] \in Nat
        BY <1>1 DEF StoreTypeOK
      <4> HIDE DEF l
      <4>4. file'[i] = l \/ file'[i] = Hole \/ (i \in 1 .. Len(file) /\ file'[i] = file[i])
        <5>1. file' = WriteAt(file, wpos[r], l)
          BY <4>1 DEF l
        <5>2. CASE wpos[r] < Len(file)
          <6>1. file' = [file EXCEPT ![wpos[r] + 1] = l]
            BY <5>1, <5>2 DEF WriteAt
          <6> QED
            BY <2>5, <4>3, <5>2, <6>1
        <5>3. CASE ~(wpos[r] < Len(file))
          <6> DEFINE n == wpos[r]
                     g == [j \in 1 .. n + 1 |-> CASE j <= Len(file) -> file[j]
                                                   [] j = n + 1 /\ n = Len(file) -> l
                                                   [] OTHER -> Hole]
          <6>1. file' = g
            BY <5>1, <5>3 DEF WriteAt
          <6>2. i \in 1 .. n + 1
            BY <2>5, <4>3, <6>1
          <6>3. g[i] = CASE i <= Len(file) -> file[i]
                         [] i = n + 1 /\ n = Len(file) -> l
                         [] OTHER -> Hole
            BY <6>2
          <6> HIDE DEF g
          <6> QED
            BY <4>3, <6>1, <6>2, <6>3
        <5> QED
          BY <5>2, <5>3
      <4> QED
        BY <1>2, <4>2, <4>4 DEF WantedInv
    <3> QED
      BY <1>10, <3>1, <3>2, <3>3 DEF VtyshStep, Step, Execute, EndWrite, Exit
  <2> QED
    BY <1>2, <2>1, <2>3, <2>4, <2>5 DEF WantedInv
<1>11. CASE LosePower
  BY <1>2, <1>11 DEF LosePower, Reboot, WantedInv
<1>12. CASE UNCHANGED vars
  BY <1>3, <1>12 DEF vars, storeVars
<1>13. ASSUME NEW r \in Requests, GoFatal(r) PROVE WantedInv'
  <2>1. rop[r] \in Wanted
    BY <1>13 DEF GoFatal, Wanted
  <2> QED
    BY <1>3, <1>13, <2>1 DEF GoFatal, storeVars
<1> QED
  BY <1>4, <1>5, <1>6, <1>8, <1>9, <1>10, <1>11, <1>12, <1>13 DEF Next, Handle

\* Neither goroutines that overwrite each other's script nor processes that dump
\* into the same file, nor a loss of power, make up a peer (shell.go runCommand,
\* vtysh_main.c).
THEOREM NothingIsInvented == Spec => []NothingInvented
<1>1. Init => WantedInv
  BY DEF Init, StoreInit, WantedInv, Empty
<1>2. TypeInv /\ WantedInv => NothingInvented
  <2> SUFFICES ASSUME TypeInv, WantedInv, NEW k \in Keys, Load(file)[k] # None
               PROVE  [key |-> k, val |-> Load(file)[k]] \in Wanted
    BY DEF NothingInvented, Wanted
  <2> QED
    BY LoadWanted
<1> QED
  BY <1>1, <1>2, InitType, StepType, StepWanted, PTL DEF Spec

----------------------------------------------------------------------------
(* The C++ agent.                                                          *)

\* Between CppLock and SendOK a handler has the mutex; nobody uses the script.
Held == {"run", "running", "ran", "writing", "written"}
Locked == \A r \in Requests : /\ rpc[r] \in Held => lock = r
                              /\ rpc[r] \notin {"create", "fill", "exec"}
                              /\ rpc[r] = "lost" => pc[r] = "off"

\* A process works on the line of its request, then on "write".
OpIs == \A r \in Requests : pc[r] # "off" => op[r] = IF rpc[r] = "running" THEN rop[r] ELSE WriteOp

Dumping(p) == pc[p] \in {"writing", "dump"}

\* The file is in order and a beginning of the configuration last saved.
FileIsPrefix ==
  /\ InOrder(file)
  /\ \A i \in 1 .. Len(file) : saved[file[i].key] = file[i].val
  /\ \A j \in Keys, i \in 1 .. Len(file) :
       j < file[i].key /\ saved[j] # None => \E n \in 1 .. Len(file) : file[n].key = j

\* While p dumps, the lines of its config_top are in the file or to come, and
\* those to come belong behind those in the file.
DumpInv(p) ==
  /\ saved = mem[p] /\ wpos[p] = Len(file)
  /\ \A k \in Present(mem[p]) : k \in todo[p] \/ \E i \in 1 .. Len(file) : file[i].key = k
  /\ \A k \in todo[p], i \in 1 .. Len(file) : file[i].key < k

\* What file, config_top and kernel have to do with each other at each control
\* point of a process.
PhaseInv(p) ==
  /\ pc[p] # "off" => Follows(kern, mem[p])
  /\ pc[p] \in {"loaded", "write"} => mem[p] = Load(file)
  /\ pc[p] = "done" => mem[p] = ApplyOp(op[p], Load(file))
  /\ Dumping(p) => DumpInv(p)

CppInv ==
  /\ Agent = "cpp"
  /\ TypeInv /\ Locked /\ OpIs
  /\ FileIsPrefix /\ FileMatchesKernel
  /\ \A p \in Procs : PhaseInv(p)

\* Nothing is loaded from an empty file.
LEMMA LoadEmpty == InOrder(<<>>) /\ Load(<<>>) = Empty
<1>1. InOrder(<<>>)
  BY DEF InOrder
<1>2. Load(<<>>) \in Config /\ \A k \in Keys : Load(<<>>)[k] = None
  BY <1>1, LoadInOrder, LoadType
<1> QED
  BY <1>1, <1>2 DEF Empty, Config

\* The empty file, the empty kernel and no process satisfy the invariant.
LEMMA InitCpp == Agent = "cpp" /\ Init => CppInv
<1> SUFFICES ASSUME Agent = "cpp", Init PROVE CppInv
  OBVIOUS
<1>1. TypeInv
  BY InitType
<1>2. Locked /\ OpIs /\ \A p \in Procs : PhaseInv(p)
  BY DEF Init, StoreInit, Locked, Held, OpIs, PhaseInv, Dumping, Requests
<1>3. FileIsPrefix
  BY DEF Init, StoreInit, FileIsPrefix, InOrder
<1>4. FileMatchesKernel
  BY LoadEmpty DEF Init, StoreInit, FileMatchesKernel, Follows
<1> QED
  BY <1>1, <1>2, <1>3, <1>4 DEF CppInv

\* While one handler has the mutex, the others have no process.
LEMMA OneRuns ==
  ASSUME TypeInv, Locked, NEW r \in Requests, rpc[r] \in Held
  PROVE  \A p \in Procs \ {r} : pc[p] = "off"
  BY DEF TypeInv, RunsFor, Locked, Held, Requests

\* Only the holder of the handlers' mutex has a vtysh process.
LEMMA StepLocked ==
  ASSUME Agent = "cpp", TypeInv, Locked, OpIs, [Next]_vars
  PROVE  Locked' /\ OpIs'
<1> USE DEF Requests, Held
<1>1. TypeOK /\ StoreTypeOK /\ RunsFor
  BY DEF TypeInv, TypeOK
<1>2. ASSUME NEW r \in Requests, NEW o \in PeerOps, Submit(r, o) PROVE Locked' /\ OpIs'
  BY <1>1, <1>2 DEF Submit, Goto, storeVars, Locked, OpIs, RunsFor, TypeOK
<1>3. ASSUME NEW r \in Requests, CppLock(r) PROVE Locked' /\ OpIs'
  BY <1>1, <1>3, PipelineAssumption DEF CppLock, Goto, storeVars, Locked, OpIs, RunsFor, TypeOK
<1>4. ASSUME NEW r \in Requests, CppRun(r) \/ RunWrite(r) PROVE Locked' /\ OpIs'
  <2>1. CASE CppRun(r)
    BY <1>1, <2>1 DEF CppRun, Goto, Start, Locked, OpIs, TypeOK, StoreTypeOK
  <2>2. CASE RunWrite(r)
    BY <1>1, <2>2 DEF RunWrite, Goto, Start, Locked, OpIs, TypeOK, StoreTypeOK
  <2> QED
    BY <1>4, <2>1, <2>2
<1>5. ASSUME NEW r \in Requests, GoCreate(r) \/ GoWrite(r) \/ GoRun(r) \/ GoRunNothing(r) \/ GoFatal(r)
      PROVE  FALSE
  BY <1>5 DEF GoCreate, GoWrite, GoRun, GoRunNothing, GoFatal, Goto, Locked
<1>6. ASSUME NEW r \in Requests, SendOK(r) PROVE Locked' /\ OpIs'
  BY <1>1, <1>6, PipelineAssumption DEF SendOK, Goto, storeVars, Locked, OpIs, RunsFor, TypeOK
<1>7. ASSUME NEW r \in Requests, VtyshStep(r) PROVE Locked' /\ OpIs'
  <2>1. /\ pc[r] # "off" /\ rpc[r] \in {"running", "writing"}
        /\ op' = op /\ \A p \in Procs : p # r => pc'[p] = pc[p]
    BY <1>1, <1>7 DEF StoreTypeOK, RunsFor, Locked, VtyshStep, Step, Execute, Truncate, DumpLine,
                      EndWrite, Exit
  <2> QED
    BY <1>1, <1>7, <2>1 DEF VtyshStep, Locked, OpIs, RunsFor, TypeOK
<1>8. CASE LosePower
  BY <1>1, <1>8 DEF LosePower, Reboot, Locked, OpIs, TypeOK
<1>9. CASE UNCHANGED vars
  BY <1>9 DEF vars, storeVars, Locked, OpIs
<1> QED
  BY <1>2, <1>3, <1>4, <1>5, <1>6, <1>7, <1>8, <1>9 DEF Next, Handle

\* When the dump is complete, the file is the configuration.
LEMMA DumpComplete ==
  ASSUME TypeInv, FileIsPrefix, NEW p \in Procs, DumpInv(p), todo[p] = {}
  PROVE  Load(file) = mem[p]
<1>1. InOrder(file) /\ mem[p] \in Config
  BY DEF FileIsPrefix, TypeInv, TypeOK, StoreTypeOK
<1>2. Load(file) \in Config
  BY <1>1, LoadInOrder, LoadType
<1>3. ASSUME NEW k \in Keys PROVE Load(file)[k] = mem[p][k]
  <2>1. CASE \E i \in 1 .. Len(file) : file[i].key = k
    BY <1>1, <2>1, LoadInOrder DEF FileIsPrefix, DumpInv
  <2>2. CASE ~\E i \in 1 .. Len(file) : file[i].key = k
    <3>1. Load(file)[k] = None
      BY <1>1, <2>2, LoadInOrder
    <3>2. mem[p][k] = None
      BY <2>2 DEF DumpInv, Present
    <3> QED
      BY <3>1, <3>2
  <2> QED
    BY <2>1, <2>2
<1> QED
  BY <1>1, <1>2, <1>3 DEF Config

\* One line more: the file stays in order and a prefix.
LEMMA DumpLineFile ==
  ASSUME TypeInv, FileIsPrefix, NEW r \in Procs, PhaseInv(r), DumpLine(r)
  PROVE  FileIsPrefix' /\ DumpInv(r)'
<1> USE StoreAssumption
<1>1. StoreTypeOK /\ TodoOK /\ Dumping(r) /\ DumpInv(r) /\ InOrder(file)
  BY DEF TypeInv, TypeOK, DumpLine, Dumping, PhaseInv, FileIsPrefix
<1>2. PICK k \in todo[r] : /\ \A j \in todo[r] : k <= j
                           /\ file' = WriteAt(file, wpos[r], [key |-> k, val |-> mem[r][k]])
                           /\ todo' = [todo EXCEPT ![r] = @ \ {k}]
  BY DEF DumpLine
<1> DEFINE l == [key |-> k, val |-> mem[r][k]]
           n == Len(file)
<1>3. k \in Keys /\ k \in Nat /\ l \in Entry /\ l.key = k /\ l.val = mem[r][k] /\ mem[r] \in Config
  BY <1>1 DEF StoreTypeOK, TodoOK, Present, Config, Entry
<1>4. /\ file \in Seq(Entry) /\ n \in Nat
      /\ \A i \in 1 .. n : file[i].key \in Keys /\ file[i].key \in Nat
  <2>1. file \in Seq(Entry)
    BY <1>1 DEF InOrder
  <2>2. n \in Nat /\ \A i \in 1 .. n : file[i] \in Entry
    BY <2>1
  <2>3. \A e \in Entry : e.key \in Keys /\ e.key \in Nat
    BY DEF Entry
  <2> HIDE DEF n
  <2> QED
    BY <2>1, <2>2, <2>3
<1>5. file' \in Seq(Entry) /\ Len(file') = n + 1 /\ file'[n + 1] = l /\ \A i \in 1 .. n : file'[i] = file[i]
  <2> HIDE DEF l
  <2>1. wpos[r] = n /\ file' = WriteAt(file, n, l)
    BY <1>1, <1>2 DEF DumpInv, l
  <2> DEFINE g == [i \in 1 .. n + 1 |-> CASE i <= Len(file) -> file[i]
                                           [] i = n + 1 /\ n = Len(file) -> l
                                           [] OTHER -> Hole]
  <2>2. file' = g
    BY <1>4, <2>1 DEF WriteAt
  <2>3. \A i \in 1 .. n + 1 : g[i] = IF i <= n THEN file[i] ELSE l
    BY <1>4
  <2>4. DOMAIN g = 1 .. n + 1
    OBVIOUS
  <2>5. \A i \in 1 .. n + 1 : g[i] \in Entry
    BY <1>3, <1>4, <2>3
  <2>6. g \in [1 .. n + 1 -> Entry] /\ n + 1 \in Nat
    BY <1>4, <2>5
  <2> HIDE DEF g
  <2>7. g \in Seq(Entry) /\ Len(g) = n + 1
    BY <2>6
  <2> QED
    BY <1>4, <2>2, <2>3, <2>7
<1> HIDE DEF n, l
<1>6. UNCHANGED <<pc, mem, saved>> /\ wpos' = [wpos EXCEPT ![r] = @ + 1]
  BY DEF DumpLine
<1>7. \A i \in 1 .. n : file[i].key < k
  BY <1>1, <1>2 DEF DumpInv, n
<1>8. InOrder(file')
  BY <1>1, <1>3, <1>4, <1>5, <1>7 DEF InOrder, n
<1>9. saved = mem[r]
  BY <1>1 DEF DumpInv
<1>10. \A i \in 1 .. Len(file') : saved'[file'[i].key] = file'[i].val
  BY <1>3, <1>4, <1>5, <1>6, <1>9 DEF FileIsPrefix, n
<1>11. ASSUME NEW j \in Present(mem[r])
       PROVE  j \in todo'[r] \/ \E i \in 1 .. Len(file') : file'[i].key = j
  <2>1. CASE j = k
    BY <1>3, <1>4, <1>5, <2>1
  <2>2. CASE j # k /\ j \in todo[r]
    BY <1>1, <1>2, <2>2 DEF StoreTypeOK
  <2>3. CASE j \notin todo[r]
    <3>1. PICK i \in 1 .. n : file[i].key = j
      BY <1>1, <2>3 DEF DumpInv, n
    <3>2. i \in 1 .. Len(file') /\ file'[i].key = j
      BY <1>4, <1>5, <3>1
    <3> QED
      BY <3>2
  <2> QED
    BY <2>1, <2>2, <2>3
<1>12. ASSUME NEW j \in todo'[r], NEW i \in 1 .. Len(file') PROVE file'[i].key < j
  <2>1. j \in todo[r] /\ j # k /\ k < j
    BY <1>1, <1>2, <1>3 DEF StoreTypeOK
  <2>2. CASE i \in 1 .. n
    BY <1>1, <1>5, <2>1, <2>2 DEF DumpInv, n
  <2>3. CASE i = n + 1
    BY <1>3, <1>5, <2>1, <2>3
  <2> QED
    BY <1>4, <1>5, <2>2, <2>3
<1>13. ASSUME NEW j \in Keys, NEW i \in 1 .. Len(file'), j < file'[i].key, saved'[j] # None
       PROVE  \E m \in 1 .. Len(file') : file'[m].key = j
  <2>1. j \in Present(mem[r]) /\ j \in Nat
    BY <1>6, <1>9, <1>13 DEF Present
  <2>2. j \notin todo'[r]
    <3>1. j \in todo'[r] => file'[i].key < j
      BY <1>12
    <3>2. file'[i].key \in Nat
      BY <1>3, <1>4, <1>5
    <3> QED
      BY <1>13, <2>1, <3>1, <3>2
  <2> QED
    BY <1>11, <2>1, <2>2
<1>14. FileIsPrefix'
  BY <1>8, <1>10, <1>13 DEF FileIsPrefix
<1>15. wpos'[r] = Len(file') /\ saved' = mem'[r]
  BY <1>1, <1>5, <1>6 DEF DumpInv, StoreTypeOK, n
<1>16. DumpInv(r)'
  BY <1>6, <1>11, <1>12, <1>15 DEF DumpInv, Present
<1> QED
  BY <1>14, <1>16

\* What the file has to do with memory and kernel.
FileInv == FileIsPrefix /\ FileMatchesKernel /\ \A p \in Procs : PhaseInv(p)

\* A step that starts a process or ends a request leaves the file alone.
LEMMA StartFile ==
  ASSUME CppInv, NEW r \in Requests, NEW o, rpc[r] \in Held, Start(r, o)
  PROVE  FileInv'
<1> USE DEF Requests
<1>1. StoreTypeOK /\ FileIsPrefix /\ FileMatchesKernel
  BY DEF CppInv, TypeInv, TypeOK
<1>2. \A p \in Procs : pc[p] = "off"
  BY OneRuns DEF CppInv, Start
<1>3. Follows(kern, Load(file))
  BY <1>1, <1>2 DEF FileMatchesKernel, Idle
<1>4. UNCHANGED <<file, kern, saved>> /\ pc' = [pc EXCEPT ![r] = "loaded"] /\ mem'[r] = Load(file)
  BY <1>1 DEF Start, StoreTypeOK
<1>5. FileIsPrefix'
  BY <1>1, <1>4 DEF FileIsPrefix
<1>6. FileMatchesKernel'
  <2>1. pc'[r] # "off"
    BY <1>1, <1>4 DEF StoreTypeOK
  <2> QED
    BY <2>1 DEF FileMatchesKernel, Idle
<1>7. \A p \in Procs : PhaseInv(p)'
  <2>1. Follows(kern', mem'[r]) /\ Load(file)' = Load(file)
    BY <1>3, <1>4
  <2> QED
    BY <1>1, <1>2, <1>4, <2>1 DEF PhaseInv, Dumping, StoreTypeOK
<1> QED
  BY <1>5, <1>6, <1>7 DEF FileInv

\* wg0 follows the lines when one is added or removed and wg is run.
LEMMA FollowsLine ==
  ASSUME NEW o \in Ops, NEW cfg \in Config, NEW wg \in Config, Follows(wg, cfg),
         NEW after \in WgSet(o, wg)
  PROVE  Follows(after, ApplyOp(o, cfg))
<1> USE StoreAssumption
<1>1. CASE o \in Refused \cup {WriteOp}
  BY <1>1 DEF WgSet, ApplyOp
<1>2. CASE o \notin Refused \cup {WriteOp}
  <2>1. o.key \in Keys
    BY <1>2 DEF Ops, PeerOps
  <2>2. ApplyOp(o, cfg) = [cfg EXCEPT ![o.key] = o.val] /\ ApplyOp(o, wg) = [wg EXCEPT ![o.key] = o.val]
    BY <1>2 DEF ApplyOp
  <2>3. after = ApplyOp(o, wg) \/ (o.val \in Fallible /\ after = wg)
    BY DEF WgSet
  <2> QED
    BY <2>1, <2>2, <2>3 DEF Follows, Config
<1> QED
  BY <1>1, <1>2

\* A step of a vtysh process keeps file and kernel in agreement.
LEMMA VtyshFile ==
  ASSUME CppInv, NEW r \in Requests, VtyshStep(r)
  PROVE  FileInv'
<1> USE StoreAssumption DEF Requests
<1>1. /\ StoreTypeOK /\ TypeInv /\ FileIsPrefix /\ FileMatchesKernel /\ PhaseInv(r)
      /\ pc[r] \in {"write", "writing"} => op[r] = WriteOp
  BY DEF CppInv, TypeInv, TypeOK, RunsFor
<1>2. pc[r] # "off" /\ op' = op
  BY <1>1 DEF VtyshStep, Step, Execute, Truncate, DumpLine, EndWrite, Exit
<1>3. \A p \in Procs \ {r} : pc[p] = "off" /\ pc'[p] = "off"
  <2>1. rpc[r] \in Held
    BY <1>1, <1>2 DEF TypeInv, RunsFor, CppInv, Locked, Held
  <2>2. \A p \in Procs \ {r} : pc'[p] = pc[p]
    BY <1>1 DEF StoreTypeOK, VtyshStep, Step, Execute, Truncate, DumpLine, EndWrite, Exit
  <2> QED
    BY <2>1, <2>2, OneRuns DEF CppInv
<1>4. ASSUME FileIsPrefix', PhaseInv(r)', pc'[r] = "off" => Follows(kern', Load(file)') PROVE FileInv'
  <2>1. \A p \in Procs : PhaseInv(p)'
    BY <1>3, <1>4 DEF PhaseInv, Dumping
  <2> QED
    BY <1>4, <2>1 DEF FileInv, FileMatchesKernel, Idle
<1>5. ASSUME UNCHANGED <<file, saved>> PROVE FileIsPrefix' /\ Load(file)' = Load(file)
  BY <1>1, <1>5 DEF FileIsPrefix
<1>6. CASE Execute(r)
  <2>1. /\ mem'[r] = ApplyOp(op[r], Load(file)) /\ Follows(kern', mem'[r])
        /\ pc'[r] = IF op[r] = WriteOp THEN "write" ELSE "done"
    <3>1. /\ mem[r] = Load(file) /\ Follows(kern, mem[r]) /\ mem[r] \in Config /\ kern \in Config
          /\ op[r] \in Ops /\ mem'[r] = ApplyOp(op[r], mem[r]) /\ kern' \in WgSet(op[r], kern)
          /\ pc'[r] = IF op[r] = WriteOp THEN "write" ELSE "done"
      BY <1>1, <1>6 DEF Execute, PhaseInv, StoreTypeOK
    <3>2. Follows(kern', mem'[r])
      BY <3>1, FollowsLine
    <3> QED
      BY <3>1, <3>2
  <2>2. UNCHANGED <<file, saved>>
    BY <1>6 DEF Execute
  <2>3. Load(file)' = Load(file)
    BY <1>5, <2>2
  <2>4. op[r] = WriteOp => ApplyOp(op[r], Load(file)) = Load(file)
    BY DEF ApplyOp
  <2>5. PhaseInv(r)'
    BY <1>2, <2>1, <2>3, <2>4 DEF PhaseInv, Dumping
  <2> QED
    BY <1>4, <1>5, <2>1, <2>2, <2>5
<1>7. CASE Truncate(r)
  <2>1. /\ file' = <<>> /\ saved' = mem[r] /\ UNCHANGED <<kern, mem>>
        /\ todo'[r] = Present(mem[r]) /\ wpos'[r] = 0 /\ pc'[r] \in {"writing", "dump"}
    BY <1>1, <1>7 DEF Truncate, StoreTypeOK
  <2>2. Follows(kern, mem[r])
    BY <1>1, <1>2 DEF PhaseInv
  <2>3. FileIsPrefix'
    BY <2>1 DEF FileIsPrefix, InOrder
  <2>4. PhaseInv(r)'
    <3>1. Follows(kern', mem'[r])
      BY <2>1, <2>2
    <3> QED
      BY <2>1, <3>1 DEF PhaseInv, Dumping, DumpInv, Present
  <2> QED
    BY <1>4, <2>1, <2>3, <2>4
<1>8. CASE DumpLine(r)
  <2>1. FileIsPrefix' /\ DumpInv(r)'
    BY <1>1, <1>8, DumpLineFile
  <2>2. UNCHANGED <<kern, mem, pc>> /\ Follows(kern, mem[r]) /\ pc[r] \in {"writing", "dump"}
    BY <1>1, <1>2, <1>8 DEF DumpLine, PhaseInv
  <2>3. PhaseInv(r)'
    <3>1. Follows(kern', mem'[r])
      BY <2>2
    <3> QED
      BY <2>1, <2>2, <3>1 DEF PhaseInv, Dumping
  <2> QED
    BY <1>4, <2>1, <2>2, <2>3
<1>9. CASE EndWrite(r) \/ Exit(r)
  <2>1. /\ UNCHANGED <<file, saved, kern, mem>> /\ todo[r] = {} /\ Dumping(r)
        /\ pc'[r] = IF pc[r] = "writing" THEN "done" ELSE "off"
    BY <1>1, <1>9 DEF EndWrite, Exit, Dumping, StoreTypeOK
  <2>2. Follows(kern, mem[r]) /\ DumpInv(r)
    BY <1>1, <1>2, <2>1 DEF PhaseInv
  <2>3. Load(file) = mem[r]
    BY <1>1, <2>1, <2>2, DumpComplete
  <2>4. Load(file)' = Load(file) /\ FileIsPrefix'
    BY <1>5, <2>1
  <2>5. pc'[r] = "done" => ApplyOp(op[r], Load(file)) = Load(file)
    BY <1>1, <2>1 DEF ApplyOp
  <2>6. Follows(kern', mem'[r]) /\ Follows(kern', Load(file)')
    BY <2>1, <2>2, <2>3, <2>4
  <2>7. PhaseInv(r)'
    BY <1>2, <2>1, <2>3, <2>4, <2>5, <2>6 DEF PhaseInv, Dumping
  <2> QED
    BY <1>4, <2>4, <2>6, <2>7
<1> QED
  BY <1>6, <1>7, <1>8, <1>9 DEF VtyshStep, Step

\* So does every step.
LEMMA StepFile ==
  ASSUME CppInv, [Next]_vars
  PROVE  FileInv'
<1> USE DEF Requests
<1>1. ASSUME UNCHANGED storeVars PROVE FileInv'
  BY <1>1 DEF storeVars, CppInv, FileInv, FileIsPrefix, FileMatchesKernel, Follows, Idle, PhaseInv,
              Dumping, DumpInv, Present
<1>2. ASSUME NEW r \in Requests, NEW o \in PeerOps, Submit(r, o) PROVE FileInv'
  BY <1>1, <1>2 DEF Submit
<1>3. ASSUME NEW r \in Requests, CppLock(r) \/ GoCreate(r) \/ GoWrite(r) \/ GoRunNothing(r) \/ SendOK(r)
                                 \/ GoFatal(r)
      PROVE  FileInv'
  BY <1>1, <1>3 DEF CppLock, GoCreate, GoWrite, GoRunNothing, SendOK, GoFatal
<1>4. ASSUME NEW r \in Requests, CppRun(r) \/ RunWrite(r) PROVE FileInv'
  BY <1>4, StartFile DEF CppRun, RunWrite, Goto, Held
<1>5. ASSUME NEW r \in Requests, GoRun(r) PROVE FALSE
  BY <1>5 DEF GoRun, Goto, CppInv, Locked
<1>6. CASE LosePower
  <2>1. UNCHANGED <<file, saved>> /\ \A p \in Procs : pc'[p] = "off"
    BY <1>6 DEF LosePower, Reboot
  <2>2. FileIsPrefix'
    BY <2>1 DEF CppInv, FileIsPrefix
  <2>3. Load(file)' = Load(file)
    BY <2>1
  <2>4. Follows(kern', Load(file))
    <3>1. PICK failed \in SUBSET {k \in Keys : Load(file)[k] \in Fallible} :
            kern' = [k \in Keys |-> IF k \in failed THEN None ELSE Load(file)[k]]
      BY <1>6 DEF LosePower, Reboot
    <3> QED
      BY <3>1 DEF Follows
  <2> QED
    BY <2>1, <2>2, <2>3, <2>4 DEF FileInv, FileMatchesKernel, PhaseInv, Dumping
<1>7. CASE UNCHANGED vars
  BY <1>1, <1>7 DEF vars
<1> QED
  BY <1>2, <1>3, <1>4, <1>5, <1>6, <1>7, VtyshFile DEF Next, Handle

\* The invariant of the C++ agent is inductive.
LEMMA StepCpp == CppInv /\ [Next]_vars => CppInv'
<1> SUFFICES ASSUME CppInv, [Next]_vars PROVE CppInv'
  OBVIOUS
<1>1. TypeInv' /\ Locked' /\ OpIs'
  BY StepType, StepLocked DEF CppInv
<1>2. FileInv'
  BY StepFile
<1>3. Agent = "cpp"
  BY DEF CppInv
<1> QED
  BY <1>1, <1>2, <1>3 DEF CppInv, FileInv

\* It holds in every reachable state.
LEMMA SpecCpp == Agent = "cpp" /\ Spec => []CppInv
  BY InitCpp, StepCpp, PTL DEF Spec

\* With the C++ agent, whenever no vtysh runs, wg0 is what the file describes but
\* for the peers whose line wg may not take, after any number of requests, refused
\* ones included, and losses of power.
THEOREM FileIsKernel == Agent = "cpp" /\ Spec => []FileMatchesKernel
<1>1. CppInv => FileMatchesKernel
  BY DEF CppInv
<1> QED
  BY <1>1, SpecCpp, PTL

\* A save that was cut off at any line leaves a beginning of what was saved.
THEOREM TornSaves == Agent = "cpp" /\ Spec => []TornSaveIsPrefix
<1>1. CppInv => TornSaveIsPrefix
  <2> SUFFICES ASSUME CppInv PROVE TornSaveIsPrefix
    OBVIOUS
  <2>1. InOrder(file) /\ FileIsPrefix
    BY DEF CppInv, FileIsPrefix
  <2>2. ASSUME NEW k \in Keys, Load(file)[k] # None
        PROVE  \E i \in 1 .. Len(file) : file[i].key = k /\ Load(file)[k] = saved[k]
    <3>1. PICK i \in 1 .. Len(file) : file[i].key = k
      BY <2>1, <2>2, LoadInOrder
    <3>2. Load(file)[k] = file[i].val /\ saved[k] = file[i].val
      BY <2>1, <3>1, LoadInOrder DEF FileIsPrefix
    <3> QED
      BY <3>1, <3>2
  <2>3. ASSUME NEW j \in Keys, NEW k \in Keys, j < k, Load(file)[k] # None
        PROVE  Load(file)[j] = saved[j]
    <3>1. PICK i \in 1 .. Len(file) : file[i].key = k
      BY <2>2, <2>3
    <3>2. CASE saved[j] = None
      BY <2>2, <3>2
    <3>3. CASE saved[j] # None
      <4>1. PICK n \in 1 .. Len(file) : file[n].key = j
        BY <2>1, <2>3, <3>1, <3>3 DEF FileIsPrefix
      <4> QED
        BY <2>1, <4>1, LoadInOrder DEF FileIsPrefix
    <3> QED
      BY <3>2, <3>3
  <2> QED
    BY <2>2, <2>3 DEF TornSaveIsPrefix
<1> QED
  BY <1>1, SpecCpp, PTL

----------------------------------------------------------------------------
(* The C++ agent implements ConfigService.                                 *)

\* What Current is, depending on whether somebody dumps.
LEMMA CurrentIs ==
  ASSUME TypeInv, Locked
  PROVE  /\ \A p \in Procs : Dumping(p) => Current = mem[p]
         /\ (\A p \in Procs : ~Dumping(p)) => Current = Load(file)
<1>1. ASSUME NEW p \in Procs, NEW q \in Procs, Dumping(p), Dumping(q) PROVE p = q
  BY <1>1 DEF Dumping, TypeInv, RunsFor, Locked, Held, Requests
<1> QED
  BY <1>1 DEF Current, Dumping

\* The initial states are initial states of ConfigService.
LEMMA InitService == CppInv /\ Init => Service!Init
<1> SUFFICES ASSUME CppInv, Init PROVE Service!Init
  OBVIOUS
<1>1. Current = Empty
  BY CurrentIs, LoadEmpty DEF CppInv, Dumping, Init, StoreInit
<1>2. AbstractStatus = [r \in Requests |-> "idle"]
  BY DEF AbstractStatus, Init
<1>3. rop \in [Requests -> PeerOps]
  BY DEF Init
<1> QED
  BY <1>1, <1>2, <1>3 DEF Service!Init, Service!Asks, PeerOps, Empty

\* The status of a request for o at control point x whose process is at y.
Stat(x, y, o) ==
  CASE x = "idle" -> "idle"
    [] x \in {"lock", "run"} \/ (x = "running" /\ y # "dump") -> "pending"
    [] x = "ok" -> "answered"
    [] x = "lost" -> "lost"
    [] OTHER -> IF o \in Refused THEN "refused" ELSE "applied"

\* A step that moves one request on.
LEMMA StatusStep ==
  ASSUME NEW r \in Requests,
         \A q \in Requests \ {r} : rpc'[q] = rpc[q] /\ pc'[q] = pc[q] /\ rop'[q] = rop[q]
  PROVE  /\ AbstractStatus[r] = Stat(rpc[r], pc[r], rop[r])
         /\ AbstractStatus' = [AbstractStatus EXCEPT ![r] = Stat(rpc'[r], pc'[r], rop'[r])]
         /\ Stat(rpc'[r], pc'[r], rop'[r]) = Stat(rpc[r], pc[r], rop[r]) => AbstractStatus' = AbstractStatus
<1>1. AbstractStatus = [q \in Requests |-> Stat(rpc[q], pc[q], rop[q])]
  BY Zenon DEF AbstractStatus, Stat
<1>2. AbstractStatus' = [q \in Requests |-> Stat(rpc'[q], pc'[q], rop'[q])]
  BY Zenon DEF AbstractStatus, Stat
<1> HIDE DEF AbstractStatus, Stat
<1> QED
  BY <1>1, <1>2

\* A process that executes, saves and exits: the request takes effect when the
\* file is opened to save it.
LEMMA VtyshService ==
  ASSUME CppInv, CppInv', NEW r \in Requests, VtyshStep(r)
  PROVE  Service!Apply(r) \/ Service!Refuse(r) \/ UNCHANGED <<Current, AbstractStatus, rop>>
<1> USE StoreAssumption DEF Requests
<1>1. TypeInv /\ Locked /\ OpIs /\ TypeInv' /\ Locked' /\ PhaseInv(r) /\ PhaseInv(r)'
  BY DEF CppInv
<1>2. TypeOK /\ StoreTypeOK /\ RunsFor
  BY <1>1 DEF TypeInv, TypeOK
<1>3. /\ pc[r] # "off" /\ rpc[r] \in {"running", "writing"} /\ rop' = rop
      /\ \A q \in Requests \ {r} : rpc'[q] = rpc[q] /\ pc'[q] = pc[q] /\ rop'[q] = rop[q]
  BY <1>1, <1>2 DEF VtyshStep, Step, Execute, Truncate, DumpLine, EndWrite, Exit, RunsFor, Locked,
                    TypeOK, StoreTypeOK
<1>4. \A p \in Procs \ {r} : ~Dumping(p) /\ ~Dumping(p)'
  BY <1>1, <1>3, OneRuns DEF Held, Dumping
<1>5. /\ Dumping(r) => Current = mem[r]
      /\ ~Dumping(r) => Current = Load(file)
  BY <1>1, <1>4, CurrentIs
<1>6. /\ Dumping(r)' => Current' = mem'[r]
      /\ ~Dumping(r)' => Current' = Load(file)'
  <2>1. /\ \A p \in Procs : Dumping(p)' => Current' = mem'[p]
        /\ (\A p \in Procs : ~Dumping(p)') => Current' = Load(file)'
    <3>1. ASSUME NEW p \in Procs, NEW q \in Procs, Dumping(p)', Dumping(q)' PROVE p = q
      BY <1>1, <3>1 DEF Dumping, TypeInv, RunsFor, Locked, Held
    <3> QED
      BY <3>1 DEF Current, Dumping
  <2> QED
    BY <1>4, <2>1
<1>7. pc[r] \in {"write", "writing"} => rpc[r] = "writing"
  BY <1>1, <1>2, <1>3 DEF OpIs, RunsFor, TypeOK, PeerOps, WriteOp
<1>8. CASE Execute(r)
  <2>1. rpc' = rpc /\ file' = file /\ pc[r] = "loaded" /\ pc'[r] \in {"write", "done"}
    BY <1>2, <1>8 DEF VtyshStep, Execute, StoreTypeOK
  <2>2. Load(file)' = Load(file)
    BY <2>1
  <2>3. Current' = Current
    BY <1>5, <1>6, <2>1, <2>2 DEF Dumping
  <2>4. AbstractStatus' = AbstractStatus
    BY <1>3, <2>1, StatusStep DEF Stat
  <2> QED
    BY <1>3, <2>3, <2>4
<1>9. CASE Truncate(r)
  <2>1. /\ rpc' = rpc /\ mem' = mem /\ pc[r] \in {"write", "done"}
        /\ pc'[r] = IF pc[r] = "write" THEN "writing" ELSE "dump"
    BY <1>2, <1>9 DEF VtyshStep, Truncate, StoreTypeOK
  <2>2. Current = Load(file) /\ Current' = mem[r]
    BY <1>5, <1>6, <2>1 DEF Dumping
  <2>3. CASE rpc[r] = "writing"
    <3>1. mem[r] = Load(file)
      BY <1>1, <1>3, <2>1, <2>3 DEF PhaseInv, OpIs, ApplyOp
    <3>2. AbstractStatus' = AbstractStatus
      BY <1>3, <2>1, <2>3, StatusStep DEF Stat
    <3> QED
      BY <1>3, <2>2, <3>1, <3>2
  <2>4. CASE rpc[r] = "running"
    <3>1. pc[r] = "done" /\ pc'[r] = "dump"
      BY <1>7, <2>1, <2>4
    <3>2. mem[r] = ApplyOp(rop[r], Load(file)) /\ rop[r] # WriteOp
      BY <1>1, <1>2, <1>3, <2>4, <3>1 DEF PhaseInv, OpIs, TypeOK, PeerOps, WriteOp
    <3>3. /\ AbstractStatus[r] = "pending"
          /\ AbstractStatus' = [AbstractStatus EXCEPT ![r] = IF rop[r] \in Refused THEN "refused" ELSE "applied"]
      BY <1>3, <2>1, <2>4, <3>1, StatusStep DEF Stat
    <3>4. CASE rop[r] \in Refused
      <4>1. Current' = Current
        BY <2>2, <3>2, <3>4 DEF ApplyOp
      <4> QED
        BY <1>3, <3>3, <3>4, <4>1 DEF Service!Refuse
    <3>5. CASE rop[r] \notin Refused
      <4>1. Current' = [Current EXCEPT ![rop[r].key] = rop[r].val]
        BY <2>2, <3>2, <3>5 DEF ApplyOp
      <4> QED
        BY <1>3, <3>3, <3>5, <4>1 DEF Service!Apply
    <3> QED
      BY <3>4, <3>5
  <2> QED
    BY <1>3, <2>3, <2>4
<1>10. CASE DumpLine(r)
  <2>1. rpc' = rpc /\ mem' = mem /\ pc' = pc /\ Dumping(r)
    BY <1>2, <1>10 DEF VtyshStep, DumpLine, StoreTypeOK, Dumping
  <2>2. Current' = Current
    BY <1>5, <1>6, <2>1 DEF Dumping
  <2>3. AbstractStatus' = AbstractStatus
    BY <1>3, <2>1 DEF AbstractStatus
  <2> QED
    BY <1>3, <2>2, <2>3
<1>11. CASE EndWrite(r) \/ Exit(r)
  <2>1. /\ UNCHANGED <<file, mem>> /\ todo[r] = {} /\ Dumping(r) /\ ~Dumping(r)'
        /\ pc'[r] = IF pc[r] = "writing" THEN "done" ELSE "off"
    BY <1>2, <1>11 DEF EndWrite, Exit, Dumping, StoreTypeOK
  <2>2. Load(file) = mem[r]
    BY <1>1, <2>1, DumpComplete DEF PhaseInv, CppInv
  <2>3. Current' = Current
    BY <1>5, <1>6, <2>1, <2>2
  <2>4. rpc'[r] = IF pc[r] = "writing" THEN rpc[r] ELSE IF rpc[r] = "running" THEN "ran" ELSE "written"
    BY <1>2, <1>3, <1>11, <2>1 DEF VtyshStep, EndWrite, Exit, TypeOK
  <2>5. AbstractStatus' = AbstractStatus
    BY <1>3, <1>7, <2>1, <2>4, StatusStep DEF Stat, Dumping
  <2> QED
    BY <1>3, <2>3, <2>5
<1> QED
  BY <1>8, <1>9, <1>10, <1>11 DEF VtyshStep, Step

\* Every step is a step of ConfigService or leaves its variables alone.
LEMMA StepService == CppInv /\ CppInv' /\ [Next]_vars => [Service!Next]_(Service!vars)
<1> SUFFICES ASSUME CppInv, CppInv', [Next]_vars
             PROVE  Service!Next \/ UNCHANGED <<Current, AbstractStatus, rop>>
  BY DEF Service!vars
<1> USE StoreAssumption DEF Requests
<1>1. TypeInv /\ TypeOK /\ StoreTypeOK /\ RunsFor /\ Locked /\ \A p \in Procs : PhaseInv(p)
  BY DEF CppInv, TypeInv, TypeOK
<1>2. ASSUME NEW r \in Requests, NEW o \in PeerOps, Submit(r, o) PROVE Service!Submit(r)
  <2>1. /\ UNCHANGED <<file, mem, pc>> /\ rpc[r] = "idle" /\ rpc'[r] = "lock"
        /\ \A q \in Requests \ {r} : rpc'[q] = rpc[q] /\ pc'[q] = pc[q] /\ rop'[q] = rop[q]
    BY <1>1, <1>2 DEF Submit, Goto, storeVars, TypeOK, CppInv
  <2>2. Current' = Current
    BY <2>1 DEF Current, Load
  <2>3. AbstractStatus[r] = "idle" /\ AbstractStatus' = [AbstractStatus EXCEPT ![r] = "pending"]
    BY <2>1, StatusStep DEF Stat
  <2>4. o \in Service!Asks /\ rop' = [rop EXCEPT ![r] = o]
    BY <1>2 DEF Submit, Service!Asks, PeerOps
  <2> QED
    BY <2>2, <2>3, <2>4 DEF Service!Submit
<1>3. ASSUME NEW r \in Requests, CppLock(r) \/ CppRun(r) \/ RunWrite(r)
      PROVE  UNCHANGED <<Current, AbstractStatus, rop>>
  <2>1. /\ UNCHANGED <<file, rop>> /\ pc[r] = "off" /\ pc'[r] \in {"off", "loaded"}
        /\ \A q \in Requests \ {r} : rpc'[q] = rpc[q] /\ pc'[q] = pc[q] /\ mem'[q] = mem[q]
        /\ Stat(rpc'[r], pc'[r], rop'[r]) = Stat(rpc[r], pc[r], rop[r])
    BY <1>1, <1>3 DEF CppLock, CppRun, RunWrite, Goto, Start, storeVars, TypeOK, StoreTypeOK, RunsFor, Stat
  <2>2. AbstractStatus' = AbstractStatus
    BY <2>1, StatusStep
  <2>3. Current' = Current
    <3>1. \A p \in Procs : Dumping(p)' <=> Dumping(p)
      BY <2>1 DEF Dumping
    <3>2. CASE CppLock(r)
      BY <3>2 DEF CppLock, storeVars, Current, Load
    <3>3. CASE CppRun(r) \/ RunWrite(r)
      <4>1. \A p \in Procs : ~Dumping(p)
        BY <1>1, <2>1, <3>3, OneRuns DEF CppRun, RunWrite, Goto, Held, Dumping
      <4>2. Load(file)' = Load(file)
        BY <2>1
      <4> QED
        BY <3>1, <4>1, <4>2 DEF Current, Dumping
    <3> QED
      BY <1>3, <3>2, <3>3
  <2> QED
    BY <2>1, <2>2, <2>3
<1>4. ASSUME NEW r \in Requests, GoCreate(r) \/ GoWrite(r) \/ GoRun(r) \/ GoRunNothing(r) \/ GoFatal(r)
      PROVE  FALSE
  BY <1>1, <1>4 DEF GoCreate, GoWrite, GoRun, GoRunNothing, GoFatal, Goto, Locked
<1>5. ASSUME NEW r \in Requests, SendOK(r) PROVE Service!Answer(r)
  <2>1. /\ UNCHANGED <<file, mem, pc, rop>> /\ rpc[r] = "written" /\ rpc'[r] = "ok"
        /\ \A q \in Requests \ {r} : rpc'[q] = rpc[q] /\ pc'[q] = pc[q]
    BY <1>1, <1>5 DEF SendOK, Goto, storeVars, TypeOK
  <2>2. Current' = Current
    BY <2>1 DEF Current, Load
  <2>3. /\ AbstractStatus[r] \in {"applied", "refused"}
        /\ AbstractStatus' = [AbstractStatus EXCEPT ![r] = "answered"]
    BY <2>1, StatusStep DEF Stat
  <2> QED
    BY <2>1, <2>2, <2>3 DEF Service!Answer
<1>6. CASE LosePower
  <2>1. /\ rop' = rop /\ file' = file /\ \A p \in Procs : pc'[p] = "off"
        /\ rpc' = [r \in Requests |-> IF rpc[r] \in {"idle", "ok"} THEN rpc[r] ELSE "lost"]
    BY <1>6 DEF LosePower, Reboot
  <2>2. Load(file)' = Load(file) /\ Current' = Load(file)
    BY <2>1 DEF Current
  <2>3. \A k \in Keys : Load(file)[k] \in {Current[k], None}
    <3>1. CASE \E p \in Procs : Dumping(p)
      <4>1. PICK p \in Procs : Dumping(p)
        BY <3>1
      <4>2. Current = mem[p] /\ saved = mem[p]
        BY <1>1, <4>1, CurrentIs DEF PhaseInv, DumpInv
      <4>3. InOrder(file) /\ FileIsPrefix
        BY DEF CppInv, FileIsPrefix
      <4> QED
        BY <4>2, <4>3, LoadInOrder DEF FileIsPrefix
    <3>2. CASE \A p \in Procs : ~Dumping(p)
      BY <1>1, <3>2, CurrentIs
    <3> QED
      BY <3>1, <3>2
  <2>4. AbstractStatus = [r \in Requests |-> Stat(rpc[r], pc[r], rop[r])]
    BY Zenon DEF AbstractStatus, Stat
  <2>5. AbstractStatus' = [r \in Requests |-> IF r \in Service!UnderWay THEN "lost" ELSE AbstractStatus[r]]
    <3>1. AbstractStatus' = [r \in Requests |-> Stat(rpc'[r], pc'[r], rop'[r])]
      BY Zenon DEF AbstractStatus, Stat
    <3>2. ASSUME NEW r \in Requests
          PROVE  Stat(rpc'[r], pc'[r], rop'[r]) =
                   IF Stat(rpc[r], pc[r], rop[r]) \in {"pending", "applied", "refused"}
                   THEN "lost" ELSE Stat(rpc[r], pc[r], rop[r])
      BY <2>1 DEF Stat
    <3> HIDE DEF AbstractStatus, Stat
    <3> QED
      BY <2>4, <3>1, <3>2 DEF Service!UnderWay
  <2> DEFINE gone == {k \in Keys : Load(file)[k] # Current[k]}
  <2>6. Current' = [k \in Keys |-> IF k \in gone THEN None ELSE Current[k]]
    <3>1. Load(file) \in Config
      BY <1>1, LoadType DEF StoreTypeOK
    <3> QED
      BY <2>2, <2>3, <3>1 DEF Config
  <2>7. gone \in SUBSET (IF Service!UnderWay = {} THEN {} ELSE Keys)
    <3> SUFFICES ASSUME Service!UnderWay = {} PROVE gone = {}
      OBVIOUS
    <3>1. ASSUME NEW p \in Procs PROVE ~Dumping(p)
      <4>1. p \in Requests /\ Stat(rpc[p], pc[p], rop[p]) \notin {"pending", "applied", "refused"}
        BY <2>4 DEF Service!UnderWay
      <4>2. rpc[p] \notin {"running", "writing"}
        BY <4>1 DEF Stat
      <4> QED
        BY <1>1, <4>2 DEF RunsFor, Locked, Dumping
    <3>2. Current = Load(file)
      BY <1>1, <3>1, CurrentIs
    <3> QED
      BY <3>2
  <2>8. Service!Crash
    <3> HIDE DEF gone
    <3> QED
      BY <2>1, <2>5, <2>6, <2>7 DEF Service!Crash
  <2> QED
    BY <2>8 DEF Service!Next
<1>7. CASE UNCHANGED vars
  BY <1>7 DEF vars, storeVars, Current, Load, AbstractStatus
<1> QED
  BY <1>2, <1>3, <1>4, <1>5, <1>6, <1>7, VtyshService DEF Next, Handle, Service!Next

\* The C++ agent with its mutex, two runs of vtysh per request and a file that is
\* truncated and rewritten line by line implements an atomic configuration,
\* losses of power included.
THEOREM PipelineImplementsService == Agent = "cpp" /\ Spec => ImplementsService
  BY InitCpp, InitService, SpecCpp, StepService, PTL DEF Spec, ImplementsService, Service!Spec

----------------------------------------------------------------------------
(***************************************************************************)
(* What an answer is worth.  The argument is about ConfigService alone:    *)
(* what a request has set stays set unless another one changes that key or *)
(* was under way when the power went.                                      *)
(***************************************************************************)
Undisturbed(r) ==
  \A q \in Requests \ {r} :
    \/ AbstractStatus[q] = "idle"
    \/ AbstractStatus[q] # "lost" /\ (rop[q].key # rop[r].key \/ rop[q] \in Refused)
StaysSet ==
  \A r \in Requests :
    /\ AbstractStatus[r] \in {"applied", "answered"} /\ rop[r] \notin Refused
    /\ Undisturbed(r)
    => Current[rop[r].key] = rop[r].val

\* The shape of the mapped state.
ServiceType ==
  /\ Current \in Config /\ rop \in [Requests -> PeerOps]
  /\ AbstractStatus \in [Requests -> {"idle", "pending", "applied", "refused", "answered", "lost"}]
  /\ \A r \in Requests : AbstractStatus[r] = "refused" => rop[r] \in Refused

\* The mapping gives that shape.
LEMMA MappedType == CppInv => ServiceType
<1> SUFFICES ASSUME CppInv PROVE ServiceType
  OBVIOUS
<1>1. TypeInv /\ Locked /\ TypeOK /\ StoreTypeOK
  BY DEF CppInv, TypeInv, TypeOK
<1>2. Current \in Config
  <2>1. CASE \E p \in Procs : Dumping(p)
    BY <1>1, <2>1, CurrentIs DEF StoreTypeOK
  <2>2. CASE \A p \in Procs : ~Dumping(p)
    BY <1>1, <2>2, CurrentIs, LoadType DEF StoreTypeOK
  <2> QED
    BY <2>1, <2>2
<1>3. AbstractStatus = [r \in Requests |-> Stat(rpc[r], pc[r], rop[r])]
  BY Zenon DEF AbstractStatus, Stat
<1>4. ASSUME NEW r \in Requests
      PROVE  /\ Stat(rpc[r], pc[r], rop[r]) \in {"idle", "pending", "applied", "refused", "answered", "lost"}
             /\ Stat(rpc[r], pc[r], rop[r]) = "refused" => rop[r] \in Refused
  BY DEF Stat
<1>5. rop \in [Requests -> PeerOps]
  BY <1>1 DEF TypeOK
<1> HIDE DEF AbstractStatus, Stat
<1> QED
  BY <1>2, <1>3, <1>4, <1>5 DEF ServiceType

\* Each step of ConfigService keeps it.
LEMMA StepStaysSet ==
  ServiceType /\ StaysSet /\ [Service!Next]_(Service!vars) => StaysSet'
<1> SUFFICES ASSUME ServiceType, StaysSet, [Service!Next]_(Service!vars),
                    NEW r \in Requests, AbstractStatus'[r] \in {"applied", "answered"},
                    rop'[r] \notin Refused, Undisturbed(r)'
             PROVE  Current'[rop'[r].key] = rop'[r].val
  BY DEF StaysSet
<1> HIDE DEF Current, AbstractStatus
<1> USE DEF ServiceType
<1>1. CASE UNCHANGED <<Current, AbstractStatus, rop>>
  <2>1. Undisturbed(r)
    BY <1>1 DEF Undisturbed
  <2> QED
    BY <1>1, <2>1 DEF StaysSet
<1>2. ASSUME NEW q \in Requests, Service!Submit(q) PROVE Current'[rop'[r].key] = rop'[r].val
  <2>1. q # r /\ AbstractStatus[q] = "idle" /\ Current' = Current
    BY <1>2 DEF Service!Submit
  <2>2. \A p \in Requests \ {q} : AbstractStatus'[p] = AbstractStatus[p] /\ rop'[p] = rop[p]
    BY <1>2 DEF Service!Submit
  <2>3. Undisturbed(r)
    BY <2>1, <2>2 DEF Undisturbed
  <2> QED
    BY <2>1, <2>2, <2>3 DEF StaysSet
<1>3. ASSUME NEW q \in Requests, Service!Apply(q) PROVE Current'[rop'[r].key] = rop'[r].val
  <2>1. /\ rop' = rop /\ AbstractStatus[q] = "pending" /\ AbstractStatus'[q] = "applied"
        /\ rop[q] \notin Refused
        /\ Current' = [Current EXCEPT ![rop[q].key] = rop[q].val]
        /\ \A p \in Requests \ {q} : AbstractStatus'[p] = AbstractStatus[p]
    BY <1>3 DEF Service!Apply
  <2>2. rop[q] \in PeerOps /\ rop[r] \in PeerOps /\ rop[q].key \in Keys /\ rop[r].key \in Keys
    BY DEF PeerOps
  <2>3. CASE q = r
    BY <2>1, <2>2, <2>3 DEF Config
  <2>4. CASE q # r
    <3>1. rop[q].key # rop[r].key
      BY <2>1, <2>4 DEF Undisturbed
    <3>2. Undisturbed(r) /\ AbstractStatus[r] \in {"applied", "answered"}
      BY <2>1, <2>4, <3>1 DEF Undisturbed
    <3>3. Current[rop[r].key] = rop[r].val
      BY <2>1, <3>2 DEF StaysSet
    <3> QED
      BY <2>1, <2>2, <3>1, <3>3 DEF Config
  <2> QED
    BY <2>3, <2>4
<1>4. ASSUME NEW q \in Requests, Service!Refuse(q) \/ Service!Answer(q)
      PROVE  Current'[rop'[r].key] = rop'[r].val
  <2>1. /\ rop' = rop /\ Current' = Current /\ AbstractStatus[q] \in {"pending", "applied", "refused"}
        /\ \A p \in Requests \ {q} : AbstractStatus'[p] = AbstractStatus[p]
        /\ AbstractStatus'[q] \in {"refused", "answered"}
        /\ AbstractStatus[q] = "pending" => rop[q] \in Refused
    BY <1>4 DEF Service!Refuse, Service!Answer
  <2>2. Undisturbed(r)
    BY <2>1 DEF Undisturbed
  <2>3. AbstractStatus[r] \in {"applied", "answered"} \/ AbstractStatus[r] = "refused"
    BY <2>1
  <2> QED
    BY <2>1, <2>2, <2>3 DEF StaysSet
<1>5. CASE Service!Crash
  <2>1. /\ rop' = rop
        /\ \A q \in Requests : AbstractStatus'[q] = IF q \in Service!UnderWay THEN "lost" ELSE AbstractStatus[q]
    BY <1>5 DEF Service!Crash
  <2>2. r \notin Service!UnderWay
    BY <2>1
  <2>3. ASSUME NEW q \in Requests, q \in Service!UnderWay PROVE FALSE
    <3>1. q # r /\ AbstractStatus'[q] = "lost"
      BY <2>1, <2>2, <2>3
    <3> QED
      BY <3>1 DEF Undisturbed
  <2>4. Service!UnderWay = {} /\ \A q \in Requests : AbstractStatus'[q] = AbstractStatus[q]
    BY <2>1, <2>3 DEF Service!UnderWay
  <2>5. Current' = [k \in Keys |-> Current[k]]
    BY <1>5, <2>4 DEF Service!Crash
  <2>6. Current' = Current /\ Undisturbed(r)
    BY <2>1, <2>4, <2>5 DEF Undisturbed, Config
  <2> QED
    BY <2>1, <2>4, <2>6 DEF StaysSet
<1> QED
  BY <1>1, <1>2, <1>3, <1>4, <1>5 DEF Service!Next, Service!vars

\* An OK of the C++ agent for a line that vtysh takes means that the peer is in the
\* configuration file, unless another request changed that peer or was cut off by
\* a loss of power.
THEOREM AnsweredRequestsAreSaved == Agent = "cpp" /\ Spec => []AnsweredIsSaved
<1>1. Agent = "cpp" /\ Init => StaysSet
  BY InitCpp, InitService DEF StaysSet, Service!Init
<1>2. CppInv /\ CppInv' /\ StaysSet /\ [Next]_vars => StaysSet'
  BY StepService, StepStaysSet, MappedType
<1>3. CppInv /\ StaysSet => AnsweredIsSaved
  <2> SUFFICES ASSUME CppInv, StaysSet, NEW r \in Requests, rpc[r] = "ok", rop[r] \notin Refused, Idle,
                      \A q \in Requests \ {r} :
                        rpc[q] = "idle" \/ (rpc[q] # "lost" /\ (rop[q].key # rop[r].key \/ rop[q] \in Refused))
               PROVE  Load(file)[rop[r].key] = rop[r].val
    BY DEF AnsweredIsSaved
  <2>1. \A q \in Requests : AbstractStatus[q] = Stat(rpc[q], pc[q], rop[q])
    BY Zenon DEF AbstractStatus, Stat
  <2>2. AbstractStatus[r] = "answered"
    BY <2>1 DEF Stat
  <2>3. Undisturbed(r)
    <3>1. ASSUME NEW q \in Requests
          PROVE  /\ rpc[q] = "idle" => Stat(rpc[q], pc[q], rop[q]) = "idle"
                 /\ rpc[q] # "lost" => Stat(rpc[q], pc[q], rop[q]) # "lost"
      BY DEF Stat
    <3> HIDE DEF Stat, AbstractStatus
    <3> QED
      BY <2>1, <3>1 DEF Undisturbed
  <2>4. Current = Load(file)
    BY CurrentIs DEF CppInv, Idle, Dumping
  <2> QED
    BY <2>2, <2>3, <2>4 DEF StaysSet
<1> QED
  BY <1>1, <1>2, <1>3, SpecCpp, PTL DEF Spec
=============================================================================
