--------------------------- MODULE AgentPipeline ---------------------------
(***************************************************************************)
(* Requests on their way from the agent to the configuration file: the     *)
(* agent's doAction runs "vtysh -e <command>", then "vtysh -e write", and  *)
(* answers.  The C++ agent (webagent/cpp) runs its handler under           *)
(* _subscribersMtx; the Go agent (webagent/go) runs one goroutine per      *)
(* connection and passes the command through one shared shell script.      *)
(***************************************************************************)
EXTENDS VtyshStore

CONSTANTS
  Agent,             \* "cpp" or "go"
  NoProc,            \* nobody
  ExecDeniesWriters, \* execve fails with ETXTBSY on a file open for writing
  PowerLoss          \* the device may lose power

ASSUME PipelineAssumption == /\ Agent \in {"cpp", "go"}
                             /\ NoProc \notin Procs
                             /\ ExecDeniesWriters \in BOOLEAN
                             /\ PowerLoss \in BOOLEAN

\* Each request is handled by a thread or goroutine that runs one vtysh
\* process at a time, named after it.
Requests == Procs

VARIABLES
  rpc,     \* control point of the handler of each request
  rop,     \* the command it asks for
  lock,    \* holder of the C++ agent's _subscribersMtx
  script,  \* the command in /tmp/gorun.sh, or None for an empty file
  agentUp  \* the agent's process runs

vars == <<storeVars, rpc, rop, lock, script, agentUp>>

Init ==
  /\ StoreInit
  /\ rpc = [r \in Requests |-> "idle"]
  /\ rop \in [Requests -> PeerOps]
  /\ lock = NoProc
  /\ script = None
  /\ agentUp = TRUE

Goto(r, from, to) == rpc[r] = from /\ rpc' = [rpc EXCEPT ![r] = to]

\* A connection delivers an ADD_WIREGUARD_PEER or a REMOVE_WIREGUARD_PEER.
Submit(r, o) ==
  /\ agentUp
  /\ Goto(r, "idle", IF Agent = "cpp" THEN "lock" ELSE "create")
  /\ rop' = [rop EXCEPT ![r] = o]
  /\ UNCHANGED <<storeVars, lock, script, agentUp>>

----------------------------------------------------------------------------
\* Mutant: the handler runs without the mutex.
CppLockNothing(r) ==
  /\ Goto(r, "lock", "run")
  /\ lock' = r
  /\ UNCHANGED <<storeVars, rop, script, agentUp>>

\* publishSingleClientMsg locks _subscribersMtx around the handler.
CppLock(r) ==
  /\ Goto(r, "lock", "run")
  /\ lock = NoProc
  /\ lock' = r
  /\ UNCHANGED <<storeVars, rop, script, agentUp>>

\* vtyshell.cpp runCommand: system("vtysh -e <command>").
CppRun(r) ==
  /\ Goto(r, "run", "running")
  /\ Start(r, rop[r])
  /\ UNCHANGED <<rop, lock, script, agentUp>>

----------------------------------------------------------------------------
\* shell.go runCommand: os.Create truncates the script other goroutines use.
GoCreate(r) ==
  /\ Goto(r, "create", "fill")
  /\ script' = None
  /\ UNCHANGED <<storeVars, rop, lock, agentUp>>

\* file.Write at offset 0 of its own descriptor, then Chmod.
GoWrite(r) ==
  /\ Goto(r, "fill", "exec")
  /\ script' = rop[r]
  /\ UNCHANGED <<storeVars, rop, lock, agentUp>>

\* log.Fatalln, if the script cannot be created or written or made executable: the
\* agent exits with all its requests; a vtysh that runs goes on.
GoFatal(r) ==
  /\ rpc[r] \in {"create", "fill"}
  /\ agentUp' = FALSE
  /\ rpc' = [q \in Requests |-> IF rpc[q] \in {"idle", "ok"} THEN rpc[q] ELSE "lost"]
  /\ script' \in {script} \cup IF rpc[r] = "fill" THEN {rop[r]} ELSE {}
  /\ UNCHANGED <<storeVars, rop, lock>>

\* c.Run(), whose error is dropped, while the deferred file.Close() is still
\* to come: the script runs with whatever command it holds now, or not at all.
GoRun(r) ==
  /\ ~ExecDeniesWriters /\ script # None
  /\ Goto(r, "exec", "running")
  /\ Start(r, script)
  /\ UNCHANGED <<rop, lock, script, agentUp>>

\* Mutant: the goroutine returns, without an answer, when c.Run() fails.
GoRunGivesUp(r) ==
  /\ ExecDeniesWriters \/ script = None
  /\ Goto(r, "exec", "lost")
  /\ UNCHANGED <<storeVars, rop, lock, script, agentUp>>

GoRunNothing(r) ==
  /\ ExecDeniesWriters \/ script = None
  /\ Goto(r, "exec", "ran")
  /\ UNCHANGED <<storeVars, rop, lock, script, agentUp>>

----------------------------------------------------------------------------
\* The vtysh process of r takes a step; when it exits, doAction goes on.
VtyshStep(r) ==
  /\ Step(r)
  /\ IF pc'[r] = "off"
       THEN rpc' = [rpc EXCEPT ![r] = CASE @ = "running" -> "ran"
                                        [] @ = "writing" -> "written"
                                        [] OTHER -> @]
       ELSE UNCHANGED rpc
  /\ UNCHANGED <<rop, lock, script, agentUp>>

\* doAction: system("vtysh -e write").
RunWrite(r) ==
  /\ Goto(r, "ran", "writing")
  /\ Start(r, WriteOp)
  /\ UNCHANGED <<rop, lock, script, agentUp>>

\* send_OK; the C++ agent leaves the handler and unlocks.
SendOK(r) ==
  /\ Goto(r, "written", "ok")
  /\ lock' = IF Agent = "cpp" THEN NoProc ELSE lock
  /\ UNCHANGED <<storeVars, rop, script, agentUp>>

\* The handlers die with the device; the requests under way are never answered.
LosePower ==
  /\ PowerLoss
  /\ Reboot
  /\ rpc' = [r \in Requests |-> IF rpc[r] \in {"idle", "ok"} THEN rpc[r] ELSE "lost"]
  /\ lock' = NoProc
  /\ script' = None
  /\ agentUp' = TRUE
  /\ UNCHANGED rop

Handle(r) == \/ CppLock(r) \/ CppRun(r)
             \/ GoCreate(r) \/ GoWrite(r) \/ GoRun(r) \/ GoRunNothing(r)
             \/ VtyshStep(r) \/ RunWrite(r) \/ SendOK(r)

Next == \/ \E r \in Requests : Handle(r) \/ \E o \in PeerOps : Submit(r, o)
        \/ \E r \in Requests : GoFatal(r)
        \/ LosePower

Spec == Init /\ [][Next]_vars

\* The agent and the processes it starts keep running; with at most one
\* request per handler every mutex wait is finite.
FairSpec == Spec /\ \A r \in Requests : WF_vars(Handle(r))

----------------------------------------------------------------------------
\* The shape of the state.
TypeOK ==
  /\ StoreTypeOK
  /\ rpc \in [Requests -> {"idle", "lock", "run", "create", "fill", "exec", "running",
                           "ran", "writing", "written", "ok", "lost"}]
  /\ rop \in [Requests -> PeerOps]
  /\ lock \in Requests \cup {NoProc}
  /\ script \in PeerOps \cup {None}
  /\ agentUp \in BOOLEAN

\* When no vtysh runs, wg0 is what the file describes, so that a reboot changes
\* nothing; only a peer whose stored line wg may not take can differ from it
\* (vtysh_main.c eval mode, cmd_vpn.c).
FileMatchesKernel == Idle => Follows(kern, Load(file))

\* A save that was cut short leaves a sorted prefix of the configuration being
\* saved, never a mixture with the old one (vtysh_main.c fopen "w", config_dump).
TornSaveIsPrefix ==
  /\ \A k \in Keys : Load(file)[k] \in {saved[k], None}
  /\ \A j, k \in Keys : j < k /\ Load(file)[k] # None => Load(file)[j] = saved[j]

\* An answered request that vtysh did not refuse is in the configuration file
\* unless another one changed its peer or was cut off by a loss of power; refused
\* requests, which are answered OK too, take nothing away (shell.go: "write it to
\* vtysh configuration file").
AnsweredIsSaved ==
  \A r \in Requests :
    /\ rpc[r] = "ok" /\ rop[r] \notin Refused /\ Idle
    /\ \A q \in Requests \ {r} :
         rpc[q] = "idle" \/ (rpc[q] # "lost" /\ (rop[q].key # rop[r].key \/ rop[q] \in Refused))
    => Load(file)[rop[r].key] = rop[r].val

\* Whatever the interleaving of saves, the file never holds a peer, or a
\* peer's value, that no request asked for.
NothingInvented ==
  \A k \in Keys : Load(file)[k] # None =>
    \E r \in Requests : rpc[r] # "idle" /\ rop[r] = [key |-> k, val |-> Load(file)[k]]

\* Every request that reached the agent is answered, whatever becomes of its
\* script, unless the agent exits because it cannot write one (shell.go
\* runCommand).
RequestAnswered == \A r \in Requests : rpc[r] \in {"lock", "create"} ~> (rpc[r] = "ok" \/ ~agentUp)

----------------------------------------------------------------------------
\* The C++ agent implements ConfigService: a request takes effect when its
\* vtysh opens the file to save the configuration it has changed.
AbstractStatus ==
  [r \in Requests |->
     CASE rpc[r] = "idle" -> "idle"
       [] rpc[r] \in {"lock", "run"} \/ (rpc[r] = "running" /\ pc[r] # "dump") -> "pending"
       [] rpc[r] = "ok" -> "answered"
       [] rpc[r] = "lost" -> "lost"
       [] OTHER -> IF rop[r] \in Refused THEN "refused" ELSE "applied"]

Service == INSTANCE ConfigService WITH cfg <- Current, status <- AbstractStatus, asked <- rop

\* Requests to the C++ agent change the configuration one at a time, each once
\* and at a single instant, or not at all if vtysh refuses them, and a loss of
\* power only loses entries, none if no request is under way (server.cpp:
\* publishSingleClientMsg holds the mutex around doAction).
ImplementsService == Service!Spec
=============================================================================
