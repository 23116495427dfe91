# A formal model of qr-wireguard-ui

The repository turns a small Linux router into a WireGuard gateway that is
administered from a browser. This directory holds TLA+ models of its own code,
the TLC configurations that check them on small instances, and TLAPS proofs that
hold for instances of every size. Paths below are relative to the repository
(`src/`). `PROJECT.json` maps every definition to the lines it was translated from,
and every property to a mutated definition that breaks it.

## 1. Inventory

```
 browser --HTTP--> wireguard-ui (Go, echo)          JSON files, caches in memory
                       |  beplugin.Xsend: one TCP connection per request
                       v
                   web agent (C++ or Go)            threads / goroutines
                       |  system("vtysh -e <command>"), system("vtysh -e write")
                       v
                   vtysh (C) ---> configuration file, wg0, uci
                       ^
 terminal -------------+         start_wg.sh --boot--> vtysh -b
```

| part | state | operations | what is hard | what makes it correct |
|---|---|---|---|---|
| C++ agent, `webagent/cpp` | `_clients`, `_subscribers`, two mutexes, a `Client` with its own thread per connection, the remover thread | accept, receive, publish, handle, send, collect dead clients, signal and `close()` | object lifetimes across threads; a signal handler that takes locks; answers later than the peer waits | handlers never overlap; no `Client` is used after its end; none is forgotten; an OK means that vtysh was run, where there is something to run; dead clients go, requests are executed, a signal ends the process |
| Go agent, `webagent/go` | one goroutine per connection, the script `/tmp/gorun.sh` | read, create and run the script, write, answer | no lock at all: script and configuration file are shared | nothing that nobody asked for gets configured; every request is answered as long as the agent runs; an answered request is saved |
| backend plugin, `wireguard-ui/beplugin` | one socket per call | connect, send, wait at most two seconds, close | the answer may come after the timeout | `true` only if the agent ran vtysh for the request, or has nothing to run for it |
| users and sessions, `wireguard-ui/handler` and `store/jsondb` | user files, checksum cache, session cookies | login, logout, create, update, remove, restart | files and cache change in separate steps of concurrent requests | a valid session belongs to an unchanged account; managers stay managers; an administrator remains |
| clients and server configuration, same place | client files, server file, subnet ranges, Telegram cache, hashes, `wg0.conf`, the peers of the agent | create, update, enable, remove, change of the interface, suggestion of an address, apply, restart | checks several steps before the save; an agent that misses a request, or says OK to one vtysh does not know; a `wg0.conf` that a start of the device empties | clients are distinct; a suggested address is accepted; caches follow the files; clients are peers; "not changed" means applied |
| vtysh store, `wgshell/vtysh/vtysh*.c` | `config_top`, the configuration file | load, execute, truncate, dump, boot, interactive session | several processes without a file lock; lines that are refused, `wg set` that fails, and nobody who looks; loss of power during a save | the file describes the system; a torn save is a prefix |
| vtysh commands, `wgshell/vtysh/cmd` | lines, wg0, uci, bridges, key file | each command and its `no` form | lines and system change side by side, and in another order at boot; interfaces come and go, and so do the addresses of endpoints | no two lines contradict each other; wg0 is what the file says; a bridge line has its bridge; a boot puts every line into effect |
| vtysh session, `vtysh_main.c`, `cmd_tool.c`, `cmd_common.c` | the node, the table of file descriptors | move between nodes, run a tool, show, write | descriptors that are not given back, a table that is full, a fork that fails | messages reach the terminal again; what stays open is known |
| vtysh firewall, `cmd_fw.c` | two text files, two rule files, `firewall.ORG`, the uci firewall | apply filter rules, apply port mappings, `wg listenport` | three commands write to one firewall, one of them from an old copy | what was applied or opened stays in force |
| vtysh matcher, `wgshell/vtysh/command.c` | the commands of a node, candidates of a half-read line | loose (typed) and strict (file) matching, Tab, `?` | abbreviations, options and choices; what is typed is read again strictly; four loops that should agree | what runs is what the line fits; Tab and `?` mean what Enter means; what was saved is found again |
| wake on LAN, Telegram bot, e-mail, router and templates | see `PROJECT.json`, "components" | | | |

The list of hazards, each at its line, is in `PROJECT.json`, "hazards". The
properties below were chosen from it.

## 2. Modules

| module | models | composed of |
|---|---|---|
| `AgentServer` | threads, mutexes, sockets and the signal handler of the C++ agent, and its peers, calls of `Xsend` | |
| `AgentServerProofs` | theorems about `AgentServer` | extends `AgentServer` |
| `VtyshStore` | vtysh processes on one configuration file, step by step | |
| `AgentPipeline` | a request from the agent's handler through two vtysh runs to its answer, for either agent | extends `VtyshStore` |
| `AgentPipelineProofs` | theorems about `AgentPipeline`, its refinement of `ConfigService` among them | extends `AgentPipeline`, `NatBounds` |
| `ConfigService` | abstract: what the web UI expects of the agent | instantiated by `AgentPipeline` |
| `WebUsers`, `WebUsersProofs` | users, sessions and the checksum cache | |
| `WebClients` | clients, server interface, subnet range, Telegram cache, hashes, peers | |
| `WebClientsProofs` | theorems about `WebClients` | extends `WebClients`, `NatBounds` |
| `VtyshCommands` | what the commands do to lines and system, shells, boots | |
| `VtyshCommandsProofs` | theorems about `VtyshCommands` | extends `VtyshCommands`, `NatBounds` |
| `Firewall` | how rules and ports get into the firewall | |
| `VtyshSession` | an interactive shell: nodes, tools, descriptors, write, apply | extends `Firewall` |
| `VtyshSessionProofs` | theorems about `VtyshSession` and `Firewall` | extends `VtyshSession`, `NatBounds` |
| `CommandMatcher` | how a command is found for a line, completed and described | |
| `CommandMatcherProofs` | theorems about `CommandMatcher` | extends `CommandMatcher`, `NatBounds` |
| `NatBounds` | lemmas: least and greatest members of sets of numbers, induction, repetition of a step | |
| `MC*` | constants and symmetry for TLC | extend the module they are named after |

A definition named in a comment "Mutant: ..." is a plausible bug of the definition
that follows it. No specification uses it.

### AgentServer

One control point per thread: `mainPc`, `removerPc` and `thr[c]` for the receive
thread of each connection. `_clientsMtx` (`clientsMtx`) and `_subscribersMtx`
(`subMtx`) are held across the steps the code holds them across, so that the signal
handler, which runs on the main thread, meets them as the code does:
`PushLock`/`PushBack` is the locked `push_back` of `acceptClient`, and a signal may
arrive in `accept`, before the lock, or with the lock held (`SignalPoints`). The
remover is `RemoverCheck` (the stop flag), `RemoverLock`, `RemoverFind` with `RemoverDelete`
(join the thread, erase, delete) and `RemoverUnlock`. A receive thread is
`RecvCheck`, `select` and `recv` with their four outcomes, `PublishMsg`
(take `_subscribersMtx`, compare the address), `HandleMsg` (the whole handler of
`main.cpp`, vtysh included) and `SendMessage`. `obj[c]` is the life of the `Client`
object. The history variable `applied[c]` counts executions. `RequestKinds` are the
kinds of request `doAction` tells apart: `GLOBAL` is `SET_WIREGUARD_GLOBAL_CONFIG`, which
is not implemented (`vtyshell.cpp:170`) and is answered OK although nothing was run.

Two details of C++ are kept because properties depend on them. `recv` returns
`-1`, which `client.cpp` stores in a `size_t`: a failed `recv` is taken for
a message, and the buffer, not cleared, is published (`RecvError`). `send` on a reset
connection raises SIGPIPE, which nobody ignores (`proc = "killed"`).

### VtyshStore, AgentPipeline and ConfigService

`vtysh -e` is `Start` (load), `Execute`, `Truncate` (`fopen "w"`), one `DumpLine`
for each line, `Exit`. Each process writes at its own offset, so that two of
them leave what the file system leaves: overwritten lines and holes of NUL bytes
(`WriteAt`); what follows the NUL bytes on a line is not read. Lines are abstracted to
those of peers (public key and value), in the order of `strcmp`.

Two things go wrong in `Execute` that nobody hears of. A line in `Refused` is no command (an
empty Endpoint leaves `wg peer` a word short) or its handler refuses an argument: it changes
nothing, and the file is dumped as it was. A value in `Fallible` has an endpoint `wg` may not take,
`none` or a name without an address: the line is stored, and `wg set` sets all of the peer or
nothing (`WgSet`), each time anew, at a boot too. The agents look at neither result.

`AgentPipeline` runs `doAction` on top: the C++ agent under its mutex, the Go agent
through the shared script. Whether the kernel refuses to execute a file that is open
for writing (ETXTBSY) is the constant `ExecDeniesWriters`: Linux kernels did and some
newer ones do not. A script that cannot be created, written or made executable ends the Go
agent with all requests under way (`GoFatal`, `log.Fatalln`); a vtysh that runs goes on. `LosePower`
stops everything at any step and boots from the file.

`ConfigService` is the promise: requests change a map one at a time, each
once, at an instant between submission and answer, or not at all if the shell refuses them, and the
answer does not tell which (`Apply`, `Refuse`); a loss of power loses entries and
the requests under way. The refinement mapping takes for the configuration what the
dumping process holds, else what the file says, so that a request takes effect
when its vtysh truncates the file.

### WebUsers and WebClients

A request is a record in `h[i]` with a control point; each file operation, cache
operation and call of the agent is a step, so that two requests interleave at every
one of them. Restarts come at any point and rebuild the caches as `jsondb.Init`
does. Checks (session, role, taken name, addresses, keys) are in the step in
which the code makes them. The keys `wgtypes.GeneratePrivateKey` makes are different
from all others; the user may also provide one.

Addresses are numbers and a network is an interval of them, so that its first and last
number are the network and the broadcast address. `SuggestIPAllocation` only reads: it is
an operator, and a property compares it with `ValidateIPAllocation` in every
state. `range` is the subnet range as the last start left it.

`peers` are the peer lines of vtysh's configuration. A client without a key, or, when it is
saved, without an Endpoint, which no handler asks for, makes a line that vtysh does not know: the agent
answers OK and nothing changes (`PeersAfter`), so that what the client had before stays. `conf` is
what `wg0.conf` was written from. A start of the device empties the file and keeps the
hashes (`Restart`, `start_wg.sh:23-28`).

The properties need conditions, because the handlers take no lock. The conditions
are history variables: `serial` (user requests did not overlap), `apart` (overlapping
requests were about different clients, addresses and keys), `untouched` (nothing was
saved while a configuration was applied), `agentOK` (the agent executed all it was
sent), `readOK` (the clients directory could be read whenever it was). What
happens without them is in section 6.

### VtyshCommands

A line of `config_top` is a command, its subject and a number for its other
arguments. `Replaced`, `AddLine` and `RemoveLine` are the list operations;
`Effect` is what a command does through `ifconfig`, `wg`, `brctl` and `uci`. A
`vtysh -e` is one step here (`VtyshStore` has its steps). An interactive shell loads
once and writes when told to, so that it can overwrite what a `vtysh -e` saved
in between; `behind` and `drifted` record this.

`Fallible` are, as in `VtyshStore`, peers that `wg` may not take. Which it does not take now is part of
the system (`bad`) and changes (`Resolve`), so that a line may fail when it is entered and
succeed at the next boot, or the other way round. A `wg set` that fails sets nothing, not even the
private key (`Missed`, `GivesKey`); the line is in the configuration all the same. `no wg peer` with
the beginning of a key deletes the first line that starts so and leaves the peer in wg0
(`EvalNoBeginning`, `ShellNoBeginning`); this counts as `drifted` too.

`bridge` is the one command whose line depends on the system. It is refused, while
a file is loaded too, if an interface is not there (`Refused`, `Kept`), and its line is taken back
if `brctl` cannot add both interfaces (`AddIf`, `Failed`, `Edited`): `brctl` stops at the first
interface that is in a bridge already, also if that is the same interface named
twice. `Unplug` is an interface that goes; a boot may find it again.

`BootConfig` is `vtysh_boot_config`: a recursive function that runs the lines one after the
other, the first in the order of `strcmp` (`Before`, `First`) among those that are left.

### Firewall and VtyshSession

`Firewall` has the files `cmd_fw.c` works with as sequences of entries:
the text files (`txt`), the translated rules (`rules`), `firewall.ORG` (`org`) and what vtysh added to
the firewall (`uci`). `Applied` is one of the two apply commands: it empties the rule
file, then looks for the text file, and `ApplyFirewallRules` puts the firewall together.

`VtyshSession` is the process around it, with a table of `MaxFds` descriptors that the operating
system fills from the lowest (`Fd`). `SystemCommand` is `cmd_execute_system_command`
with its `dup`, `open` and `dup2` in order, each of which fails on a full table. `External` runs it;
`Ping`, `Tcpdump`, `ShowIp` and `IpAddress` are the groups of commands that do, by the nodes
they are installed in. `WriteFile` leaves its file open, and so does an apply without its
text file. A table that is full also leaves the shells of `system()` without a descriptor, as they inherit it.

### CommandMatcher

The run of `CommandMatcher` has 28 of the commands as they are installed: every command that
writes a line, and the ones that share words with them. It reads a line word by
word as the loops of `cmd_execute_command` and `cmd_execute_command_strict` do;
`DescribeCommand` and `CompleteCommand` are the two further loops, behind `?` and Tab. Its
words are all keywords, the abbreviations that tell them apart or do not, a
name, a complete and an incomplete address. An address is the list of its numbers
(`Fields`), and `CmdIpv4Match` is the scanner on these. The table is a constant, and
so is which keywords a word begins (`Begins`): `BeginsAssumption` is all the proofs need of
it, that a keyword begins with itself and that the empty word is none.

Nothing in `command.c` makes sure that the commands of a node can be told apart; the
table has to be made so. `TableAssumption` says what that means, and every run of TLC on the
installed commands evaluates it. Two commands are `Alike` for n words if one line can keep both
that far.

- No line of words is enough for two commands.
- Where a command has a variable, one like it has no address, and has a variable only as an
  alternative to the same keyword, if there is one.
- A variable is an alternative to one keyword at most (`none` or `WORD`).
- Nothing but options follows an option.

`NamesAssumption` keeps results, words and the names of variables apart, and
`LinkAssumption` says what the choice of `wg link` is. `ExecuteStrict`, which reads a line of the
file, is the loop of `cmd_execute_command_strict` as a recursive function.

## 3. Runs

| run | instance | checks |
|---|---|---|
| `agent_safety` | 2 connections, all requests, both kinds of addresses, a signal anywhere | `TypeOK`, `HandlersSerialised`, `NoUseAfterFree`, `NoClientForgotten`, `TrueMeansDone`, `OnlyWantedServed` |
| `agent_liveness` | 2 connections, HELLO requests, a signal in `accept` | `DeadClientRemoved`, `RequestExecuted`, `SignalExits` |
| `agent_signal` (violation) | 1 connection, a signal anywhere | `SignalExits` |
| `agent_once` (violation) | 1 connection | `ExecutedAtMostOnce` |
| `pipeline_cpp` | 3 requests, 2 public keys, 2 values, a line that is refused, a peer wg may not take, loss of power | `TypeOK`, `FileMatchesKernel`, `TornSaveIsPrefix`, `AnsweredIsSaved`, `ImplementsService` |
| `pipeline_go` | 2 requests, the same keys and values, an agent that may exit | `NothingInvented`, `RequestAnswered` |
| `users` | 2 names, 2 passwords, 2 browsers, 2 handlers, 3 requests, restarts | `TypeOK`, `RoleIsCurrent`, `AnAdminRemains`, `ValidMeansUnchangedSerially`, `OnlyAdminsMakeAdmins` |
| `clients` | networks of 8 and 2 addresses, a range in the first, a provided key, a Telegram user, clients with and without an Endpoint, 2 handlers, 3 requests, failures of the agent, restarts | `ClientsAreDistinct`, `SuggestedIsAccepted`, `TgMatchesClients`, `ClientIsPeer`, `UnchangedMeansApplied` |
| `shell` | 5 commands, boots, interfaces unplugged or changes of what wg takes; 1 peer with 3 values, one of which wg may not take; 1 network and rule; 2 bridges that compete for an interface, one of them also with the same interface twice | `OneLinePerCommand`, `WgMatchesFile`, `KeyAgrees`, `BridgeInPlace`, `BootApplies` |
| `session` | 6 descriptors, 2 rules of each kind, 2 ports, 2 changes | `StderrRestored`, `DescriptorsAccounted`, `PortStaysOpen`, `AppliedStays` |
| `matcher` | 28 commands, one line of the configuration | `RunsWhatFits`, `FullLineRuns`, `TabMeansTheSame`, `DescribesWhatRuns`, `FullIsReloaded` |
| `matcher_reload` (violation) | the same | `SavedIsReloaded` |

Why the bounds are enough:

- Two connections give every pair of threads that share a lock or a client: two
  receivers, receiver and remover, receiver and signal handler.
- Three requests to the C++ agent leave one waiting while one runs and one has
  finished; two keys make order and prefix of a dump visible. Key 1 has an ordinary value and one
  that vtysh refuses, key 2 an ordinary one and one that wg may not take, so that each outcome
  comes before, between and after the others. Two goroutines are enough for every
  overwriting of script and file.
- In the web UI two handlers overlap in every way two requests can; the third
  request finds what they left behind. Two names make an update that renames. Clients
  ask for the address of the second interface and the first one of the range; one of them has no
  Endpoint, which an update may take away or give.
- Five commands are enough for the longest chain the properties talk about: change,
  open a shell, change again behind it, write, boot. Two pairs with an interface in common
  make `brctl` fail at the first and at the second interface, and a pair of one interface with
  itself makes it fail in an empty bridge. The peer can be named alone, with an endpoint that wg takes
  and with one that it may not take, each over the other.
- Three descriptors beside the standard ones are used up by a tool, a write and a failed
  apply, so that every command also meets a table with two, one and no free descriptor.
- Lines of the matcher are not bounded: no command has more than a dozen places and a
  line that no command begins with is not extended. One line is enough for reloading, which
  treats lines independently of each other.

The theorems of section 5 remove the bounds for the safety properties proved there: they
hold for sets of any size and any number of requests. What rests on bounds
alone is listed at the end of that section.

`CHECK_DEADLOCK FALSE` is used where the system may stop: the agent exits on a signal
(or is killed), requests are bounded, connections are used once.

## 4. Fairness

`AgentServer!Fairness`: weak fairness of the main thread, the remover and each receive
thread: the operating system runs every thread that can run. Strong fairness of
`PushLock`, because the remover takes `_clientsMtx` again and again but leaves it free
for the two seconds of its `sleep(2)`, in which a waiting main thread gets it. Peers need not
send, read or close, and nobody need send a signal. `_subscribersMtx` needs no strong
fairness in the model, as each connection brings one request.

`AgentPipeline!FairSpec`: weak fairness of each handler with the process it waits
for. Loss of power is off in that run. Nothing makes the Go agent exit (`GoFatal` has no
fairness); if it does, its handlers are gone and `RequestAnswered` asks for no answer. Until then
weak fairness of `Handle` still makes every handler go on.

## 5. Proofs

### The agent

`AgentServerProofs` proves, for any set of connections:

| theorem | states |
|---|---|
| `TypeCorrect` | `Spec => []TypeOK` |
| `HandlersNeverOverlap` | `Spec => []HandlersSerialised` |
| `ClientsAreMemorySafe` | `Spec => []NoUseAfterFree` |
| `ClientsAreTracked` | `Spec => []NoClientForgotten` |
| `TrueAnswersAreDone` | `Spec => []TrueMeansDone` |
| `OthersAreNotServed` | `Spec => []OnlyWantedServed` |

The only assumption is `ConnAssumption`: the set of requests and of signal points is
one the model knows, and "no connection" is not a connection. The first four follow from one
inductive invariant, `Inv`. None of its three safety properties is inductive alone:

- That handlers are serial rests on `HandlerHoldsLock`: a thread in the handler is the
  holder of `_subscribersMtx`.
- That no `Client` is used after its end rests on who ends it. Only the remover deletes and
  only the signal handler closes. They never do so at the same time, as the signal
  handler first joins the remover; the remover joins the client's thread before it
  deletes the client (`Ownership`). Both take their client from `_clients`, where the new
  client of `acceptClient` is not yet (`NewClient`), and a client without an object
  has no thread (`Started`).

`InitInv` and a lemma for the steps, with one step of the proof per action, give
`Spec => []Inv`. The theorems are its corollaries.

The last two rest on a second invariant, `Answers`, proved on top of `TypeOK`. A true
answer is the last of a chain of facts (executed, `ans`, `reply`, `peer`), and the
chain is about the request in the buffer. The buffer must therefore not change under it:
until the agent has read the one request of a connection nothing was handled, answered
or reset (`Unread => Fresh`), and afterwards nothing more arrives. The failed
`recv` that is taken for a message does not break this, as it leaves the buffer
alone: the request is executed once too often, but an OK still means that it was executed. For a
`GLOBAL` request the chain says the opposite: it was never executed, and still answered.

### The pipeline

`AgentPipelineProofs` proves, for any requests, public keys and values, with and without
losses of power:

| theorem | states |
|---|---|
| `PipelineTypeCorrect` | `Spec => []TypeOK` |
| `NothingIsInvented` | `Spec => []NothingInvented` |
| `FileIsKernel` | `Agent = "cpp"`: `Spec => []FileMatchesKernel` |
| `TornSaves` | `Agent = "cpp"`: `Spec => []TornSaveIsPrefix` |
| `AnsweredRequestsAreSaved` | `Agent = "cpp"`: `Spec => []AnsweredIsSaved` |
| `PipelineImplementsService` | `Agent = "cpp"`: `Spec => ImplementsService` |

The assumptions are `StoreAssumption` (keys are numbers, as `strcmp` orders them; "nothing" is
neither a key nor a value; any set of lines may be refused, and any set of values be one wg may not
take) and `PipelineAssumption`. The first two hold for both agents: whatever
two vtysh processes overwrite in each other's file, a line that is read is one
that somebody wrote (`WantedInv`, with `LoadWanted` for what loading makes of lines and holes). The
others are about the C++ agent, whose `_subscribersMtx` keeps the runs of vtysh apart. The Go agent
has no lock, and its processes lose each other's lines (section 6).

`CppInv` is inductive. `Locked`: whoever is in the handler holds the lock and nobody else has a
process. `OpIs`: a process runs the line its handler is at. `FileIsPrefix`: the lines are in order
and a beginning of the configuration that was saved last.
`PhaseInv`: what the one process holds is related to the file and the kernel by its control
point, for the kernel by `Follows`: it has what the lines say, but for peers wg may not
take (`FollowsLine`: a line that is run keeps this, whether or not `wg set` fails); while it dumps, the lines written are those of its configuration that are not still to be
written, and those are behind all of them (`DumpInv`). So when the last line is
written, the file is the configuration (`DumpComplete`), and at any earlier point a loss of power
leaves a beginning.

The refinement takes the steps one by one. A start, an execution and a dumped line leave the
abstract configuration as it was (`CurrentIs`), truncation applies the request, or refuses it if its
line is refused, the answer answers it, and a loss of power maps to the loss of the entries that were not
yet in the file.

That answered requests are saved is then an argument about `ConfigService` alone. `StaysSet`: a
request that was applied, and that no request which was lost or has changed the same key came near, still
has its value in the configuration. Each step of the service keeps this, for refused requests as they
change nothing (`StepStaysSet`), the refinement carries it to the pipeline (`StepService`, `MappedType`),
and when no vtysh runs the configuration is what the file says.

### Users

`WebUsersProofs` proves, for any number of names, hashes, browsers, handlers and requests:

| theorem | states |
|---|---|
| `UsersTypeCorrect` | `Spec => []TypeOK` |
| `SessionsHaveTheirRole` | `Spec => []RoleIsCurrent` |
| `ManagersStayManagers` | `Spec => OnlyAdminsMakeAdmins` |
| `NobodyIsLockedOut` | `Spec => []AnAdminRemains` |
| `ValidSessionsAreUnchanged` | `Spec => []ValidMeansUnchangedSerially` |

The assumptions are `UsersAssumption` (the default name is a name, there is a hash, the
bound is a number) and `NoneAssumption` ("no user" is not a user). The invariant adds
two facts. `CookieRole`: a cookie's role is that of the account it was issued for even
when the cookie is no longer valid, because the cache may later come to agree
with it again. `Authority`: a handler under way that will save an administrator has a
session of one, or read an account that was one, and a removal never reaches the
save. The action property then looks at the only three steps that write an account's
file: a deletion, a save and the restart of an empty database. Both
overlapping requests and restarts are covered: the theorem does not need the
`serial` history that `AnAdminRemains` and `ValidMeansUnchangedSerially` need.

Those two rest on the invariant `Serial`. While requests did not overlap at most
one handler is under way, and for each of its control points `Serial` says what it has touched
(`Untouched`, `Cached`: which one account may differ from its cache entry) and what it found when
it checked (`Found`: the account it changes exists, the new name is free). `Leaves` is the
administrator that remains: one the request is not about, or the one it saves.

### Clients

`WebClientsProofs` proves, for any networks, addresses, keys, Telegram users, handlers and
requests:

| theorem | states |
|---|---|
| `ClientsTypeCorrect` | `Spec => []TypeOK` |
| `ClientsStayDistinct` | `Spec => []ClientsAreDistinct` |
| `SuggestionsAreAccepted` | `Spec => []SuggestedIsAccepted` |
| `TgFollowsClients` | `Spec => []TgMatchesClients` |
| `ClientsArePeers` | `Spec => []ClientIsPeer` |
| `UnchangedIsApplied` | `Spec => []UnchangedMeansApplied` |

The assumptions are `ClientsAssumption` (addresses are numbers, each network has its own address
and a last one) and `NoneAssumption` (a generated key is none that users provide; "nothing" is
none of the things). `Shape` is the type invariant with the control points each kind of request has
(`Consistent`), the next identifier, and that a generated key is only that of the client it was
generated for (`OwnKeys`). The suggestion of addresses follows from it. The other properties have an
invariant each, under the condition of the property:

- `ApartInv`: no two requests under way collide (`Separate`), so that what one knows of the file of its
  client stays true (`Views`), and an address or a key that passed its check is nobody else's
  until it is saved (`AddressesDistinct`, `KeysDistinct`).
- `TgInv`: the Telegram cache is right about every client that no handler is about to tag or delete
  (`Busy`).
- `PeerInv`: a client with a key and an Endpoint is a peer, or the request that makes it one, or removes
  it, is under way (`Sends`, `Pending`). A request without an Endpoint takes no peer away, and a client
  without one is promised nothing.
- `HashInv`: what an apply has read so far is what is there, and the stored hashes are those of
  what `wg0.conf` was written from, if it was not emptied since, unless an apply is about to store new ones.

The five operations begin alike, which `Started` states once, and the lemmas named `...Moves` say
what each step leaves of the handlers' records. That a suggested address exists and is the least
free one uses `NatLeast` and `NatGreatest`.


### The interactive shell

`VtyshSessionProofs` proves, for a descriptor table of any size that holds the three standard
descriptors, and any rules, texts and ports (`SessionAssumption`, `FirewallAssumption`):

| theorem | states |
|---|---|
| `StderrRestoredTheorem` | `Spec => []StderrRestored` |
| `DescriptorsAreAccounted` | `Spec => []DescriptorsAccounted` |
| `RulesStayInForce` | `Spec => []AppliedStays` |
| `PortsStayOpen` | `Spec => []PortStaysOpen` |

For the first the invariant adds that the table has its shape and that stderr is never closed. It is needed
because the lowest free descriptor is what a tool saves stderr in: a closed stderr would
be handed out itself. `FdIsClosed` says that the lowest free descriptor exists (from the
well-foundedness of `<`) and was closed. `SystemCommandRestores` then covers the three cases of
the table: two slots left; one, where stderr is saved and never redirected; none, where
it is neither saved nor redirected.

The count of open descriptors goes on from there: each command that leaks makes the
table grow by one slot, or by none if it was full, and the others give back what they took
(`Grown`, with the cardinality theorems for finite sets). The last two share `FirewallInv`: the rule
file of a kind is what was applied last of it, even while the other kind is applied, and
`firewall.ORG`, if it exists, has every port that was set before it was copied. `Translate` copies
line by line; that its result is a sequence of entries is proved by induction on the number of lines.

### Commands

`VtyshCommandsProofs` proves, for any peers, networks, rules, bridges, pairs of interfaces and values,
any set of lines that may be entered and any number of commands, shells and boots:

| theorem | states |
|---|---|
| `CommandsTypeCorrect` | `Spec => []TypeOK` |
| `LinesDoNotContradict` | `Spec => []OneLinePerCommand` |
| `PeersHaveTheKey` | `Spec => []KeyAgrees` |
| `FileDescribesWg` | `Spec => []WgMatchesFile` |
| `FileDescribesBridges` | `Spec => []BridgeInPlace` |
| `BootsApplyFile` | `Spec => BootApplies` |

The one assumption is `CommandsAssumption`: numbers are positive, those wg may not take are any of them, a bridge has a number from 1 to 9 and
two interfaces, and "nothing" is neither a number nor a set of lines.

- `TypeInv` adds to the types that file and shell have only lines that were entered, finitely
  many (`Stored`), so that a boot has a last line.
- `SingleInv` says of the file and of the shell's lines that two lines with one beginning are equal, but
  for routes. Loading, removing and taking back only drop lines. An added line replaces the line
  with its beginning, and the case that needs it is `FirstOf`, which deletes one line only:
  the old lines being single, that is all there are.
- `KeyInv`: the key file exists unless it was deleted. Otherwise a load could make a new key under
  a wg0 that has peers.
- `WgInv` is about the lines that file and shell have in common (`Agreed`), as a shell that is open may
  have lines the file has not, and the other way round. They are in effect on wg0, and no peer is
  in neither. A peer line whose value wg may not take is exempt (`Held`): nothing is said about its
  peer, which may be the earlier one, the new one or none. Which of the two is right again when they are equal is what `drifted` and `behind` decide.
- `BridgeInv` says the same of bridges, for the interfaces that are plugged in: those of a common
  line are in its bridge, and no two common lines share an interface. A line over a missing
  interface stays in the file only until the next load, which is why it is asked of the file only
  while no shell runs.

A boot is proved by induction on the lines that are left (`BootInduct`), over pairs of the
system and these lines. `Iterate` shows that the recursive function exists. The lines that were
run are in effect and no line that is left comes before one of them (`Progress`), which is what
keeps `ip address wg0`, which brings the link up, from undoing `wg link-down`. A peer line that wg does not
take then has no peer (`InPlace`): wg0 is new, and no earlier line of the file is about that peer. For bridges, no
interface is in a bridge that no line put it in (`Spanned`), so that `brctl` fails for no line if no
two lines share an interface.

### The matcher

`CommandMatcherProofs` proves, for any table of commands and any set of words:

| theorem | states |
|---|---|
| `FittingCommandRuns` | `Spec => []RunsWhatFits` |
| `CompletionKeepsMeaning` | `Spec => []TabMeansTheSame` |

and for any table that keeps to `TableAssumption` and `LinkAssumption`:

| theorem | states |
|---|---|
| `FullLinesRun` | `Spec => []FullLineRuns` |
| `DescriptionIsTrue` | `Spec => []DescribesWhatRuns` |
| `FullLinesReload` | `Spec => FullIsReloaded` |

All of them use `MatcherAssumption` (a command is a sequence of finite, nonempty choices),
`BeginsAssumption` and `NamesAssumption` (section 2). `LoopInv` is the invariant of the loops over
the words: every candidate that is left is as long as the line at least and has, at each place read
so far, a choice the word may stand for. `KeptFits` shows this of one word, from what the best match
over all candidates is (`BestMatches`) and from `MatchedAddress`: the scanner accepts only addresses
and, for typed lines, beginnings of them. That Tab keeps the meaning follows from what the loop
keeps for a keyword and for its abbreviation (`CompletionSelects`).

`TableInv` adds `PairInv` and `FullInv`. `PairInv`: any two candidates are `Alike` for the words
read (`KeptShared`), so at most one of them has all its words (`ResultUnique`): no line that is
complete for a command is ambiguous. `FullInv`: a command whose words so far stand in the line in full is
still a candidate (`FullKept`), since only an exact or a longer match could have dropped it. The
description follows: `<cr>` is shown for a candidate without a place left, which is then the one
that runs; a command that runs with places left has an option next (`CmdsizeOptions`); a word is
described if and only if some candidate matches it (`DescribedIsKept`).

For the reload, `ReadInv` runs a second loop beside the one over the typed words: for each
candidate, the strict loop over what that command would write. It keeps the command, and no
candidate that the typed words have not kept (`Follows`). This last part is needed because a word
that is a variable of the one may be a keyword of the other: `bridge disable` is not `bridge WORD`, and
whoever competes in the file must have lost already when the line was typed. `WordReloaded` shows it
for one word. `ReadsOnce` shows that the recursive function has one value.

### Only model-checked

Liveness under fairness, which is beyond the provers: `DeadClientRemoved`, `RequestExecuted`,
`SignalExits`, `RequestAnswered`. Every safety invariant and action property of a passing run is
stated by a theorem. That the installed commands keep to `TableAssumption`, and that no constant of a
run contradicts an assumption, is what TLC evaluates.

## 6. Findings and observations

The three violation runs show what a comment, message or document says and the
code does not do; the quotations are in `PROJECT.json`, "findings":

- `agent_signal`: a signal while the main thread holds `_clientsMtx` makes the
  handler lock it a second time, and the process hangs instead of ending.
- `agent_once`: a failed `recv` is taken for a message and the request in the buffer
  executed again.
- `matcher_reload`: a line typed with an abbreviated choice or an incomplete address is
  accepted and saved, and not recognised when the file is loaded.

Seen while modelling, no run of their own:

- The agents answer OK whatever vtysh returned (`vtyshell.cpp:77-82`, `shell.go:44-51`). A line that vtysh
  does not know or whose handler refuses it (`cmd_vpn.c:373-402`) is answered OK and is not in the
  file (hence `Refused` in `AnsweredIsSaved` and `ConfigService`).
- The Endpoint of a client is optional and not checked (`routes.go:534`, `778`). Without one the agent's
  line is no command: the client is no peer, and one that had an Endpoint before stays the
  peer it was (hence the condition of `ClientIsPeer`).
- `SET_WIREGUARD_GLOBAL_CONFIG` is not implemented and is answered OK (`vtyshell.cpp:170-173`); the
  web UI sends it when the global settings are saved (`routes.go:1141`).
- The peer commands store their line and drop the result of `wg set` (`cmd_vpn.c:343-347`, `419-425`). `endpoint
  none` is in the grammar and `wg` refuses it: the line stays in the file, and neither now nor after a
  boot is there such a peer (hence `Fallible` in `FileMatchesKernel`, `WgMatchesFile` and `BootApplies`).
- `no wg peer` with the beginning of a key deletes a line (`vtysh_config.c:137`) while `wg` keeps the
  peer (hence `drifted`).
- `start_wg.sh:23-28` empties `/etc/wireguard/wg0.conf` at every start and `hashes.json` stays: the
  web UI finds nothing to apply although the file is empty (hence `None` in
  `UnchangedMeansApplied`).
- A script that the Go agent cannot create, write or make executable ends the whole agent
  (`shell.go:24-42`, `log.Fatalln`).
- `client.cpp:38-41` returns silently when the client is not connected, and `server.cpp:272`
  reports success.
- A signal between `startListen` (`server.cpp:228`) and `push_back` (231) leaves a thread
  that `close()` does not know.
- The Go agent runs its script while it is open for writing (`shell.go:29`, closed by
  `defer`). Where the kernel refuses this, nothing runs, the error is dropped and the answer is OK:
  with `ExecDeniesWriters = TRUE` and `Agent = "go"` `AnsweredIsSaved` fails.
- The Telegram bot walks a slice that `filterStringSlice` rewrites in place (`util.go:600`).
- Two vtysh processes at once, in the Go agent or from a terminal, lose each other's lines; the
  `pipeline_go` run only claims that nothing is invented.
- A crash between `DeleteUser` and `SaveUser` (`routes.go:261`) loses the account. A removal
  that overlaps an update may leave the cache entry of a user who is gone, and the session
  stays valid (`session.go:71`).
- `routes.go:438`: the error of `GetAllocatedIPs` is overwritten, and an address in use can
  be given out again when the clients could not be read (hence `readOK`).
- `UpdateClient` that overlaps `RemoveClient` brings the client's file back; `UpdateClient`
  with another key leaves the old peer in place, and accepts an empty key, which is no command either.
- A disabled client stays a peer (`routes.go:794`) until the server is configured anew.
- `wg listenport` adds a firewall rule each time: `atoi` of the name of the old one is 0
  (`cmd_vpn.c:58-78`).
- `no ip route` removes the last uci route, whichever it is (`cmd_ip.c:319`).
- `wg link-u` abbreviates `link-up`, but the handler compares with the whole word
  and takes the link down (`cmd_vpn.c:451-491`).
- `ip address wg0` after `wg link-down` brings wg0 up now, and after the next boot it is
  down, as lines are sorted.
- After a boot with a key file and no peers, wg0 has no private key (hence the
  condition of `KeyAgrees`); loading makes a missing key without giving it to wg0.
- `bridge_add` drops its line at load if an interface is missing (`cmd_bridge.c:59-68`): any
  `vtysh -e` while it is unplugged removes the line from the file. Entering a bridge a second
  time takes back its line, as `brctl` finds the interfaces in use, and the bridge stays.
- Nothing in the repository writes `filter.txt` and `portmap.txt`. Without them an apply leaves an
  empty rule file behind, and the next apply of the other kind drops the rules that were in force.
- `firewall.ORG` is copied once: a port that `wg listenport` allows later is lost at the next
  apply (hence the condition `late` of `PortStaysOpen`). The apply of filter rules ignores the rule
  number and insert or append.
- `cmd_execute_system_command` never closes `save_out` and `config_write_file` never closes its
  file. A long session runs out of descriptors; then `write` fails. If `fork` fails, stderr stays in
  `/dev/null`, and with it `show running-config`.
- At the end of input (Ctrl-D) `vtysh_readline` returns NULL for good and the main loop spins
  (`vtysh_main.c:181`, `EndOfInput`).
- Subnet ranges are checked at the start only; after a change of the interface an address of a
  range may be suggested and then refused (hence the condition of `SuggestedIsAccepted`).
- Tab after a space completes to the only keyword although a name or number could stand there too
  (`bridge <TAB>`, `endpoint <TAB>`), and `no hostname ?` does not show `<cr>`, because of the option.
- `cmd_ipv4_match` takes `.1.2.3` for a complete address.
- `listnode_add_after` does not count the node it adds (no caller); nothing calls `encoding.c`,
  `_vtysh_system` and `_vtysh_popen`. `AUTH_ENABLE_NODE` cannot be reached, as no
  command that sets a password is compiled.

## 7. Plan

Done, in this order: the agent's threads and their proofs; the store and the pipeline
with its abstract specification; users and their proofs; clients; commands; matcher;
then Tab and `?` in the matcher, bridges, the firewall, the interactive session, and the
suggestion of addresses; then the proofs of pipeline, clients, session, commands and matcher, boots and reloads last.

To come:

1. The lists and vectors of vtysh (`linklist.c`, `vector.c`) as an implementation of the sorted
   set that `VtyshCommands` takes for granted; key pair and global settings in `WebClients`;
   session ages and refresh in `WebUsers`; wake on LAN; the Telegram bot and its flood limits.
2. The agent's other sub-commands and its message format.

## 8. Not modelled

Terminal input and line editing, base64, page rendering, flags and templates, e-mail,
installation and build files: they are I/O or calls of libraries and keep no
state of their own that a property could be about. Vendored code (readline headers,
the Go modules, the web assets) is left aside. The kernel, `wg`, `uci` and the file system are modelled from how
the code uses them.

## 9. Running

```
tlc -workers 2 -config MCAgentServer_safety.cfg MCAgentServer
tlapm NatBounds.tla
tlapm AgentServerProofs.tla
tlapm AgentPipelineProofs.tla
tlapm WebUsersProofs.tla
tlapm WebClientsProofs.tla
tlapm VtyshSessionProofs.tla
tlapm VtyshCommandsProofs.tla
tlapm CommandMatcherProofs.tla
```
