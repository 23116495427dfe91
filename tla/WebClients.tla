----------------------------- MODULE WebClients -----------------------------
(***************************************************************************)
(* The VPN clients of wireguard-ui: the client handlers and                *)
(* ApplyServerConfig of handler/routes.go, the client part of              *)
(* store/jsondb, and the caches, hashes and address checks of              *)
(* util/util.go.  Echo runs each request in a goroutine of its own; file   *)
(* operations are atomic, a handler is several of them; only reading the   *)
(* whole clients directory may fail if it overlaps a write or a delete.    *)
(* The handlers also tell the agent which peers to configure               *)
(* (beplugin.Xsend), and go on whatever it answers; the agent answers OK   *)
(* whether or not the configuration shell knows the line it is given.      *)
(***************************************************************************)
EXTENDS Integers, FiniteSets, FiniteSetsExt

CONSTANTS
  Addrs,        \* addresses, in their order
  Servers,      \* server interfaces: an address and the network it is in
  Default,      \* the one of util.DefaultServerAddress
  UserKeys,     \* public keys a user may provide
  TgUsers,      \* Telegram user ids
  None,         \* no client, no key, no Telegram id, no hashes, no request
  Inputs,       \* what users ask for, without the key
  RangeNet,     \* the network of the subnet range in SUBNET_RANGES
  Handlers,     \* request goroutines
  MaxRequests,  \* bound: requests that change something
  AgentFails,   \* the agent may miss a request
  Restarts      \* the process may stop and start again

ASSUME ClientsAssumption ==
  /\ Addrs \subseteq Nat /\ RangeNet \subseteq Addrs
  /\ \A s \in Servers : /\ s.ip \in s.net /\ s.net \subseteq Addrs
                        /\ \E last \in s.net : \A a \in s.net : a <= last
  /\ Default \in Servers /\ MaxRequests \in Nat
  /\ None \notin UserKeys \cup TgUsers
  /\ Inputs \subseteq [ip : Addrs, enabled : BOOLEAN, tg : TgUsers \cup {None}, endpoint : BOOLEAN]
  /\ AgentFails \in BOOLEAN /\ Restarts \in BOOLEAN

\* guid := xid.New() never repeats: clients are numbered as they are made.
IDs == 1 .. MaxRequests

\* wgtypes.GeneratePrivateKey, for client id.
GenKey(id) == <<"generated", id>>
Keys == UserKeys \cup {GenKey(id) : id \in IDs}

\* model.Client, without what no check depends on.  Nobody looks at the Endpoint,
\* which is optional; it is TRUE if vtysh knows a peer line with it.
Client == [ip : Addrs, key : Keys \cup {None}, enabled : BOOLEAN, tg : TgUsers \cup {None},
           endpoint : BOOLEAN]

VARIABLES
  clients,   \* clients/<id>.json
  server,    \* server/interfaces.json
  tg,        \* util.TgUseridToClientID
  range,     \* util.SubnetRanges: the network of the range, {} if it was removed
  conf,      \* what the WireGuard configuration file was written from, None if it was emptied
  hashes,    \* server/hashes.json: what the hashes were taken of
  peers,     \* the public keys of the peer lines in vtysh's configuration
  h,         \* each handler: its control point and locals
  requests,  \* requests started so far
  nextId,    \* the next client id
  readOK,    \* history: every address was checked against the clients there were
  apart,     \* history: requests that overlapped were about different clients
  untouched, \* history: nothing was saved or cut off while a config was applied
  agentOK    \* history: the agent has run vtysh for every request for it

store    == <<clients, server, tg, range>>
applied  == <<conf, hashes>>
count    == <<requests, nextId>>
vars     == <<store, applied, peers, h, count, readOK, apart, untouched, agentOK>>

Database == <<clients, server>>
Databases == [IDs -> Client \cup {None}] \X Servers
Snapshots == ([IDs -> Client \cup {None}] \cup {None}) \X Servers

Handler == [pc : {"key", "write", "tg", "chmod", "send", "untag", "delete", "read", "conf", "hash"},
            kind : {"new", "update", "status", "remove", "apply"},
            id : IDs \cup {None},                  \* the client it is about
            client : Client \cup {None},           \* what it will save, or has read
            snap : Snapshots \cup {None}]          \* what ApplyServerConfig has read

\* Generated keys are new, and None is none of the things it stands for the
\* absence of.
ASSUME NoneAssumption ==
  /\ UserKeys \cap {GenKey(id) : id \in IDs} = {}
  /\ None \notin Keys /\ None \notin IDs /\ None \notin Client
  /\ None \notin Handler /\ None \notin Databases

\* util.RemoveTgToClientID, under the mutex.
Untagged(id) == [u \in TgUsers |-> tg[u] \ {id}]

\* Mutant: the client stays listed under its former Telegram id.
TaggedToo(id, c) ==
  IF c.enabled /\ c.tg # None THEN [tg EXCEPT ![c.tg] = @ \cup {id}] ELSE tg

\* util.UpdateTgToClientID, under the mutex.
Tagged(id, c) ==
  IF c.enabled /\ c.tg # None THEN [Untagged(id) EXCEPT ![c.tg] = @ \cup {id}] ELSE Untagged(id)

\* The cache jsondb.Init builds.
TgOf(cs) == [u \in TgUsers |-> {id \in IDs : cs[id] # None /\ cs[id].enabled /\ cs[id].tg = u}]

\* ValidateAndFixSubnetRanges, at the start only: a range outside of the server's
\* network is removed.
ValidateAndFixSubnetRanges(s) == IF RangeNet \subseteq s.net THEN RangeNet ELSE {}

Init ==
  /\ clients = [id \in IDs |-> None]
  /\ server = Default
  /\ tg = [u \in TgUsers |-> {}]
  /\ range = ValidateAndFixSubnetRanges(Default)
  /\ conf = Database /\ hashes = None
  /\ peers = {}
  /\ h = [i \in Handlers |-> None]
  /\ requests = 0 /\ nextId = 1
  /\ readOK = TRUE /\ apart = TRUE /\ untouched = TRUE /\ agentOK = TRUE

----------------------------------------------------------------------------
(* The beginning of a request.                                             *)

Quiet == \A i \in Handlers : h[i] = None

\* Two requests that concern one client, or claim one address or one key.
Claims(r) == r.kind \in {"new", "update"}
Collide(r, q) ==
  \/ r.id = q.id /\ r.id # None
  \/ /\ Claims(r) /\ Claims(q)
     /\ \/ r.client.ip = q.client.ip
        \/ r.client.key = q.client.key /\ r.client.key # None

Free(i) == h[i] = None /\ requests < MaxRequests

Begin(i, r) ==
  /\ requests' = requests + 1
  /\ h' = [h EXCEPT ![i] = r]
  /\ apart' = (apart /\ \A j \in Handlers : h[j] = None \/ ~Collide(r, h[j]))
  /\ UNCHANGED <<store, applied, peers, untouched, agentOK>>

\* The driver lists the directory, then reads file by file, without a lock: a
\* file that is renamed or deleted in between makes ReadAll fail.
ReadAllMayFail(i) == \E j \in Handlers \ {i} : h[j] # None /\ h[j].pc \in {"write", "delete"}

\* What GetAllocatedIPs(ignored) returns: nothing at all if the read fails.
Allocated(ignored) == {server.ip} \cup {clients[id].ip : id \in {k \in IDs \ {ignored} : clients[k] # None}}
GetAllocatedIPs(i, ignored) == {Allocated(ignored)} \cup IF ReadAllMayFail(i) THEN {{}} ELSE {}

\* ValidateIPAllocation: the address is in nobody's use and in the server's
\* network.  The callers overwrite the error of GetAllocatedIPs.
ValidateIPAllocation(i, ip, ignored) ==
  /\ ip \in server.net
  /\ \E allocated \in GetAllocatedIPs(i, ignored) :
       /\ ip \notin allocated
       /\ readOK' = (readOK /\ allocated # {})

\* Mutant: addresses of clients are offered too.
GetAvailableIPUsed(search) ==
  LET free == search \ {server.ip, Min(server.net), Max(server.net)}
  IN  IF free = {} THEN {} ELSE {Min(free)}

\* GetAvailableIP: the first address that is neither in use nor the network or
\* broadcast address of the server's network, or none.
GetAvailableIP(search) ==
  LET free == search \ (Allocated(None) \cup {Min(server.net), Max(server.net)})
  IN  IF free = {} THEN {} ELSE {Min(free)}

\* SuggestIPAllocation, with or without the name of the range.
SuggestIPAllocation(named) == GetAvailableIP(IF named /\ range # {} THEN range ELSE server.net)

\* NewClient up to the check of the key.
NewClient(i, c) ==
  /\ Free(i)
  /\ ValidateIPAllocation(i, c.ip, None)
  /\ nextId' = nextId + 1
  /\ Begin(i, [pc |-> "key", kind |-> "new", id |-> nextId, client |-> c, snap |-> None])

\* Mutant: no new key is checked.
UpdateClientAnyKey(i, id, c) ==
  /\ Free(i)
  /\ clients[id] # None
  /\ ValidateIPAllocation(i, c.ip, id)
  /\ UNCHANGED nextId
  /\ Begin(i, [pc |-> "write", kind |-> "update", id |-> id, client |-> c, snap |-> None])

\* UpdateClient up to the check of the key, which only a new key gets; an
\* empty key replaces the old one unchecked.
UpdateClient(i, id, c) ==
  /\ Free(i)
  /\ clients[id] # None
  /\ ValidateIPAllocation(i, c.ip, id)
  /\ UNCHANGED nextId
  /\ Begin(i, [pc |-> IF c.key \in {clients[id].key, None} THEN "write" ELSE "key",
               kind |-> "update", id |-> id, client |-> c, snap |-> None])

\* SetClientStatus up to the save.
SetClientStatus(i, id, status) ==
  /\ Free(i)
  /\ clients[id] # None
  /\ UNCHANGED <<nextId, readOK>>
  /\ Begin(i, [pc |-> "write", kind |-> "status", id |-> id,
               client |-> [clients[id] EXCEPT !.enabled = status], snap |-> None])

\* RemoveClient: the key is looked up; an unknown client has none to remove.
RemoveClient(i, id) ==
  /\ Free(i)
  /\ id < nextId
  /\ UNCHANGED <<nextId, readOK>>
  /\ Begin(i, [pc |-> IF clients[id] = None THEN "untag" ELSE "send", kind |-> "remove",
               id |-> id, client |-> clients[id], snap |-> None])

\* ApplyServerConfig: GetServer.
ApplyServerConfig(i) ==
  /\ Free(i)
  /\ UNCHANGED <<nextId, readOK>>
  /\ Begin(i, [pc |-> "read", kind |-> "apply", id |-> None, client |-> None, snap |-> <<None, server>>])

----------------------------------------------------------------------------
(* The rest of a request, one store, cache or agent operation per step.    *)

At(i, p) == h[i] # None /\ h[i].pc = p
Goto(i, p) == h' = [h EXCEPT ![i].pc = p]
End(i) == h' = [h EXCEPT ![i] = None]

\* A save while a configuration is being applied is noted.
Save == untouched' = (untouched /\ \A j \in Handlers : h[j] = None \/ h[j].kind # "apply")

\* Generate a key pair, or refuse the key of another client; if the clients
\* cannot be read the request ends.
CheckKey(i) ==
  /\ At(i, "key")
  /\ LET k == h[i].client.key
     IN  CASE k = None -> h' = [h EXCEPT ![i].pc = "write", ![i].client.key = GenKey(h[i].id)]
           [] \E id \in IDs : clients[id] # None /\ clients[id].key = k -> End(i)
           [] OTHER -> Goto(i, "write") \/ (ReadAllMayFail(i) /\ End(i))
  /\ UNCHANGED <<store, applied, peers, count, readOK, apart, untouched, agentOK>>

\* SaveClient: conn.Write ...
WriteFile(i) ==
  /\ At(i, "write")
  /\ clients' = [clients EXCEPT ![h[i].id] = h[i].client]
  /\ Save
  /\ Goto(i, "tg")
  /\ UNCHANGED <<server, tg, range, applied, peers, count, readOK, apart, agentOK>>

\* ... the Telegram cache ...
TagClient(i) ==
  /\ At(i, "tg")
  /\ tg' = Tagged(h[i].id, h[i].client)
  /\ Goto(i, "chmod")
  /\ UNCHANGED <<clients, server, range, applied, peers, count, readOK, apart, untouched, agentOK>>

\* Mutant: only new clients are sent to the agent.
ManagePermsNewOnly(i) ==
  /\ At(i, "chmod")
  /\ IF h[i].kind # "new" \/ clients[h[i].id] = None THEN End(i) ELSE Goto(i, "send")
  /\ UNCHANGED <<store, applied, peers, count, readOK, apart, untouched, agentOK>>

\* ... and ManagePerms, which fails, and ends the request, if there is no file.
ManagePerms(i) ==
  /\ At(i, "chmod")
  /\ IF h[i].kind = "status" \/ clients[h[i].id] = None THEN End(i) ELSE Goto(i, "send")
  /\ UNCHANGED <<store, applied, peers, count, readOK, apart, untouched, agentOK>>

\* The agent runs "wg peer K allowed-ips A endpoint E ..." or "no wg peer K": without
\* a key neither is a command, and the former is none without an Endpoint, so that
\* what the client had before stays.
PeersAfter(i) ==
  LET c == h[i].client
  IN  CASE c.key = None       -> peers
        [] h[i].kind = "remove" -> peers \ {c.key}
        [] OTHER              -> IF c.endpoint THEN peers \cup {c.key} ELSE peers

\* Xsend, whose answer is only logged.
Xsend(i) ==
  /\ At(i, "send")
  /\ \/ peers' = PeersAfter(i) /\ UNCHANGED agentOK
     \/ AgentFails /\ UNCHANGED peers /\ agentOK' = FALSE
  /\ IF h[i].kind = "remove" THEN Goto(i, "untag") ELSE End(i)
  /\ UNCHANGED <<store, applied, count, readOK, apart, untouched>>

\* DeleteClient: RemoveTgToClientID, then conn.Delete.
UntagClient(i) ==
  /\ At(i, "untag")
  /\ tg' = Untagged(h[i].id)
  /\ Goto(i, "delete")
  /\ UNCHANGED <<clients, server, range, applied, peers, count, readOK, apart, untouched, agentOK>>

DeleteFile(i) ==
  /\ At(i, "delete")
  /\ clients' = [clients EXCEPT ![h[i].id] = None]
  /\ Save
  /\ End(i)
  /\ UNCHANGED <<server, tg, range, applied, peers, count, readOK, apart, agentOK>>

\* Mutant: the hashes are updated without a configuration file.
ReadClientsHash(i) ==
  /\ At(i, "read")
  /\ h' = [h EXCEPT ![i].pc = "hash", ![i].snap = <<clients, h[i].snap[2]>>]
  /\ UNCHANGED <<store, applied, peers, count, readOK, apart, untouched, agentOK>>

\* ApplyServerConfig goes on: GetClients, ...
ReadClients(i) ==
  /\ At(i, "read")
  /\ \/ h' = [h EXCEPT ![i].pc = "conf", ![i].snap = <<clients, h[i].snap[2]>>]
     \/ ReadAllMayFail(i) /\ End(i)
  /\ UNCHANGED <<store, applied, peers, count, readOK, apart, untouched, agentOK>>

\* ... WriteWireGuardServerConfig, ...
WriteConf(i) ==
  /\ At(i, "conf")
  /\ conf' = h[i].snap
  /\ Goto(i, "hash")
  /\ UNCHANGED <<store, hashes, peers, count, readOK, apart, untouched, agentOK>>

\* ... and UpdateHashes, which hashes the files as they are now.
UpdateHashes(i) ==
  /\ At(i, "hash")
  /\ hashes' = Database
  /\ End(i)
  /\ UNCHANGED <<store, conf, peers, count, readOK, apart, untouched, agentOK>>

Finish(i) ==
  \/ CheckKey(i) \/ WriteFile(i) \/ TagClient(i) \/ ManagePerms(i) \/ Xsend(i)
  \/ UntagClient(i) \/ DeleteFile(i) \/ ReadClients(i) \/ WriteConf(i) \/ UpdateHashes(i)

----------------------------------------------------------------------------
\* WireGuardServerInterfaces: one save; the peers stay.
SetInterface(s) ==
  /\ requests < MaxRequests
  /\ requests' = requests + 1
  /\ server' = s
  /\ Save
  /\ UNCHANGED <<clients, tg, range, applied, peers, h, nextId, readOK, apart, agentOK>>

\* The process stops at any point and starts again.  start_wg.sh overwrites an
\* existing wg0.conf with an empty line, unless the configuration file is kept
\* elsewhere; hashes.json stays.  The file is there, so initServerConfig does not
\* write it; jsondb.Init fills the cache.
Restart ==
  /\ Restarts
  /\ h' = [i \in Handlers |-> None]
  /\ tg' = TgOf(clients)
  /\ range' = ValidateAndFixSubnetRanges(server)
  /\ agentOK' = (agentOK /\ Quiet)
  /\ untouched' = (untouched /\ Quiet)
  /\ conf' \in {conf, None}
  /\ UNCHANGED <<clients, server, hashes, peers, count, readOK, apart>>

Next ==
  \/ \E i \in Handlers :
       \/ \E k \in UserKeys \cup {None}, in \in Inputs :
            LET c(key) == [ip |-> in.ip, key |-> key, enabled |-> in.enabled, tg |-> in.tg,
                           endpoint |-> in.endpoint]
            IN  \/ NewClient(i, c(k))
                \/ \E id \in IDs : \/ UpdateClient(i, id, c(k))
                                   \/ clients[id] # None /\ UpdateClient(i, id, c(clients[id].key))
       \/ \E id \in IDs : RemoveClient(i, id) \/ \E b \in BOOLEAN : SetClientStatus(i, id, b)
       \/ ApplyServerConfig(i)
       \/ Finish(i)
  \/ \E s \in Servers : SetInterface(s)
  \/ Restart

Spec == Init /\ [][Next]_vars

----------------------------------------------------------------------------
\* The shape of the state.
TypeOK ==
  /\ clients \in [IDs -> Client \cup {None}]
  /\ server \in Servers
  /\ tg \in [TgUsers -> SUBSET IDs]
  /\ range \in {RangeNet, {}}
  /\ conf \in Databases \cup {None}
  /\ hashes \in Databases \cup {None}
  /\ peers \subseteq Keys
  /\ h \in [Handlers -> Handler \cup {None}]
  /\ requests \in 0 .. MaxRequests
  /\ nextId \in 1 .. MaxRequests + 1

\* As long as overlapping requests are about different clients, addresses and
\* keys and the clients could be read, no two clients share an address or a
\* public key (ValidateIPAllocation, "Duplicate Public Key" of routes.go).
ClientsAreDistinct ==
  apart /\ readOK => \A a, b \in IDs : a # b /\ clients[a] # None /\ clients[b] # None =>
             /\ clients[a].ip # clients[b].ip
             /\ clients[a].key # clients[b].key \/ clients[a].key = None

\* The address the web UI suggests for a new client is one it then accepts: it is
\* in the server's network and nobody has it, and none is suggested only if every
\* ordinary address is taken.  This needs a subnet range that was checked against
\* the interface as it is now; after a change of the interface the range is stale
\* until the next start (SuggestIPAllocation, ValidateAndFixSubnetRanges).
SuggestedIsAccepted ==
  range = ValidateAndFixSubnetRanges(server) =>
    /\ \A named \in BOOLEAN : SuggestIPAllocation(named) \subseteq server.net \ Allocated(None)
    /\ SuggestIPAllocation(FALSE) = {} =>
         \A lo, ip, hi \in server.net : lo < ip /\ ip < hi => ip \in Allocated(None)

\* Requests about different clients, restarts at any point included, leave a
\* Telegram cache that lists exactly the enabled clients of each user
\* (jsondb SaveClient, DeleteClient, Init; util UpdateTgToClientID).
TgMatchesClients == apart /\ Quiet => tg = TgOf(clients)

\* If the agent ran vtysh for everything it was sent, every client in the database
\* that has a key and an Endpoint is a peer, whatever keys and Endpoints clients were
\* given, lost and took over from each other (NewClient, UpdateClient, RemoveClient).
ClientIsPeer ==
  apart /\ agentOK /\ Quiet =>
    \A id \in IDs : clients[id] # None /\ clients[id].key # None /\ clients[id].endpoint =>
                     clients[id].key \in peers

\* GetHashesChanges answers "Hashes not changed" only if the configuration file was
\* written from the database as it is, or start_wg.sh has emptied it since, unless
\* something was saved while a configuration was being applied: the file is never
\* that of another database.
UnchangedMeansApplied == untouched /\ hashes = Database => conf \in {Database, None}
=============================================================================
